--------------------------- MODULE TinoxMapProofs ---------------------------
(***************************************************************************)
(* What TinoxMap guarantees for every set of keys, every hash function and *)
(* every initial capacity.                                                 *)
(***************************************************************************)
EXTENDS TinoxMap, NatFacts

USE DEF Slots

(* map_hash and the probe sequence stay inside the table. *)
LEMMA AtInSlots ==
  ASSUME NEW k \in Keys, NEW c \in Nat, c >= 1, NEW d \in Slots(c)
  PROVE  Home(k, c) \in Slots(c) /\ At(k, d, c) \in Slots(c)
<1>1. Hash[k] \in Nat
  BY MapAssumption
<1>2. Hash[k] % c \in 0 .. c - 1
  BY <1>1
<1> QED BY <1>2 DEF Home, At

(* A probe sequence visits every slot of the table. *)
LEMMA AtOnto ==
  ASSUME NEW k \in Keys, NEW c \in Nat, c >= 1, NEW i \in Slots(c)
  PROVE  \E d \in Slots(c) : At(k, d, c) = i
<1>1. Home(k, c) \in Slots(c)
  BY AtInSlots
<1>2. CASE i >= Home(k, c)
  <2>1. i - Home(k, c) \in Slots(c) /\ At(k, i - Home(k, c), c) = i
    BY <1>1, <1>2 DEF At
  <2> QED BY <2>1
<1>3. CASE i < Home(k, c)
  <2>1. /\ i - Home(k, c) + c \in Slots(c)
        /\ At(k, i - Home(k, c) + c, c) = i
    BY <1>1, <1>3 DEF At
  <2> QED BY <2>1
<1> QED BY <1>1, <1>2, <1>3

(* A probe loop that has somewhere to stop stops at the first such slot.   *)
LEMMA ProbeFirst ==
  ASSUME NEW k \in Keys, NEW c \in Nat, c >= 1, NEW stop, Stops(k, c, stop) # {}
  PROVE  /\ Probe(k, c, stop) \in Slots(c)
         /\ SlotFor(k, c, stop) \in Slots(c)
         /\ SlotFor(k, c, stop) \in stop
         /\ \A x \in Slots(c) : x < Probe(k, c, stop) => At(k, x, c) \notin stop
<1> DEFINE ds == Stops(k, c, stop)
<1>1. ds \in SUBSET Nat
  BY DEF Stops
<1>2. \E d \in ds : \A x \in ds : d <= x
  BY <1>1, LeastElement
<1>3. Probe(k, c, stop) \in ds /\ \A x \in ds : Probe(k, c, stop) <= x
  BY <1>2 DEF Probe
<1>4. Probe(k, c, stop) \in Slots(c) /\ At(k, Probe(k, c, stop), c) \in stop
  BY <1>3 DEF Stops
<1>5. \A x \in Slots(c) : x < Probe(k, c, stop) => At(k, x, c) \notin stop
  BY <1>3, <1>4 DEF Stops
<1> QED BY <1>4, <1>5, AtInSlots DEF SlotFor

(* A probe loop over a non-empty set of stop slots ends.                   *)
LEMMA ProbeEnds ==
  ASSUME NEW k \in Keys, NEW c \in Nat, c >= 1, NEW stop \in SUBSET Slots(c),
         stop # {}
  PROVE  Stops(k, c, stop) # {}
<1>1. PICK i \in stop : TRUE
  OBVIOUS
<1>2. \E d \in Slots(c) : At(k, d, c) = i
  BY AtOnto
<1> QED BY <1>2 DEF Stops

-----------------------------------------------------------------------------
(* The live slots of a table are finitely many, at most its capacity.      *)
LEMMA LiveFinite ==
  ASSUME NEW c \in Nat, NEW e
  PROVE  /\ IsFiniteSet(LiveSlots(e, c))
         /\ Cardinality(LiveSlots(e, c)) \in Nat
         /\ Cardinality(LiveSlots(e, c)) <= c
<1>1. IsFiniteSet(Slots(c)) /\ Cardinality(Slots(c)) <= c
  <2>1. 0 \in Int /\ c - 1 \in Int
    OBVIOUS
  <2>2. /\ IsFiniteSet(0 .. c - 1)
        /\ Cardinality(0 .. c - 1) = IF 0 > c - 1 THEN 0 ELSE c - 1 - 0 + 1
    BY <2>1, FS_Interval
  <2> QED BY <2>2
<1>2. LiveSlots(e, c) \in SUBSET Slots(c)
  BY DEF LiveSlots
<1>3. IsFiniteSet(LiveSlots(e, c)) /\ Cardinality(LiveSlots(e, c)) <= Cardinality(Slots(c))
  BY <1>1, <1>2, FS_Subset
<1>4. Cardinality(LiveSlots(e, c)) \in Nat /\ Cardinality(Slots(c)) \in Nat
  BY <1>1, <1>3, FS_CardinalityType
<1> QED BY <1>1, <1>3, <1>4

(* A table with fewer live entries than slots has a slot that is not live. *)
LEMMA SomeNotLive ==
  ASSUME NEW c \in Nat, NEW e, Cardinality(LiveSlots(e, c)) < c
  PROVE  \E i \in Slots(c) : ~Live(e, i)
<1>1. SUFFICES ASSUME \A i \in Slots(c) : Live(e, i) PROVE FALSE
  OBVIOUS
<1>2. LiveSlots(e, c) = Slots(c)
  BY <1>1 DEF LiveSlots
<1>3. Cardinality(Slots(c)) = c
  BY FS_Interval
<1> QED BY <1>2, <1>3

(* Slot i of table e is met by a lookup of its key before any empty slot.  *)
ReachedAt(e, c, i) ==
  \E d \in Slots(c) :
      /\ At(e[i].key, d, c) = i
      /\ \A x \in 0 .. d - 1 : e[At(e[i].key, x, c)].key # NoKey

(* A step that empties no slot, and whose new entries are reached, keeps   *)
(* every entry reachable.                                                  *)
LEMMA KeepsReachable ==
  ASSUME NEW c \in Nat, c >= 1, NEW e, NEW f, Reachable(e, c),
         \A i \in Slots(c) : e[i].key # NoKey => f[i].key # NoKey,
         \A i \in LiveSlots(f, c) : \/ i \in LiveSlots(e, c) /\ f[i].key = e[i].key
                                    \/ ReachedAt(f, c, i)
  PROVE  Reachable(f, c)
<1> SUFFICES ASSUME NEW i \in LiveSlots(f, c) PROVE ReachedAt(f, c, i)
  BY DEF Reachable, ReachedAt
<1> SUFFICES ASSUME i \in LiveSlots(e, c), f[i].key = e[i].key
             PROVE  ReachedAt(f, c, i)
  OBVIOUS
<1>1. PICK d \in Slots(c) :
          /\ At(e[i].key, d, c) = i
          /\ \A x \in 0 .. d - 1 : e[At(e[i].key, x, c)].key # NoKey
  BY DEF Reachable
<1>2. \A x \in 0 .. d - 1 : At(e[i].key, x, c) \in Slots(c)
  BY AtInSlots DEF LiveSlots, Live
<1> QED BY <1>1, <1>2 DEF ReachedAt

(* A store that claims the slot at which its probe loop stopped makes the  *)
(* key reachable there.                                                    *)
LEMMA ClaimReached ==
  ASSUME NEW c \in Nat, c >= 1, NEW e \in [Slots(c) -> Slot], NEW k \in Keys,
         NEW stop, Stops(k, c, stop) # {},
         \A i \in Slots(c) : e[i].key = NoKey => i \in stop,
         NEW s \in Slot, s.key = k
  PROVE  LET i == SlotFor(k, c, stop)
         IN  ReachedAt([e EXCEPT ![i] = s], c, i)
<1> DEFINE i == SlotFor(k, c, stop)
           d == Probe(k, c, stop)
           f == [e EXCEPT ![i] = s]
<1>1. d \in Slots(c) /\ i \in Slots(c) /\ i = At(k, d, c)
  BY ProbeFirst DEF SlotFor
<1>2. f[i].key = k
  BY <1>1
<1>3. ASSUME NEW x \in 0 .. d - 1 PROVE f[At(k, x, c)].key # NoKey
  <2>1. x \in Slots(c) /\ x < d /\ At(k, x, c) \in Slots(c)
    BY <1>1, AtInSlots
  <2>2. At(k, x, c) \notin stop
    BY <2>1, ProbeFirst
  <2>3. e[At(k, x, c)].key # NoKey
    BY <2>1, <2>2
  <2> QED BY <2>1, <2>3, <1>2, MapAssumption
<1> QED BY <1>1, <1>2, <1>3 DEF ReachedAt

-----------------------------------------------------------------------------
(* The load check leaves room for the store that follows; map_rehash       *)
(* starts at slot 0 and copies no tombstone.                               *)
Room ==
  /\ pc = "store" => len < cap
  /\ pc # "rehash" => src = 0
  /\ pc = "rehash" => \A i \in Slots(2 * cap) : fresh[i].key # Tomb

(* The inductive invariant of the hash table. *)
IInv == TypeOK /\ LenCountsLive /\ RehashAccounts /\ ProbeReach /\ Room

(* The empty table. *)
LEMMA InitIInv == Init => IInv
<1> SUFFICES ASSUME Init PROVE IInv
  OBVIOUS
<1> USE DEF Init
<1>1. cap \in Nat /\ cap >= 4 /\ entries \in [Slots(cap) -> Slot]
  BY MapAssumption DEF Blank, EmptySlot, Slot
<1>2. TypeOK
  <2>1. borrowed \in BOOLEAN /\ badFree \in BOOLEAN
    BY MapAssumption
  <2> QED BY <1>1, <2>1 DEF TypeOK
<1>3. LiveSlots(entries, cap) = {}
  BY MapAssumption DEF LiveSlots, Live, Blank, EmptySlot
<1>4. LenCountsLive
  BY <1>3, FS_EmptySet DEF LenCountsLive
<1>5. ProbeReach
  BY <1>3 DEF ProbeReach, Reachable
<1> QED BY <1>2, <1>4, <1>5 DEF IInv, RehashAccounts, Room

(* A call that changes neither the table nor the loop state: the reads and *)
(* tinox_map_free.                                                         *)
LEMMA TableUnchanged ==
  ASSUME IInv, UNCHANGED <<cap, len, entries, borrowed, arg, src>>,
         pc = "idle", pc' \in {"idle", "spin", "freed"}, badFree' \in BOOLEAN
  PROVE  IInv'
<1>1. TypeOK'
  BY DEF IInv, TypeOK
<1>2. LenCountsLive' /\ Reachable(entries, cap)'
  BY DEF IInv, LenCountsLive, LiveSlots, Live, ProbeReach, Reachable, At, Home
<1> QED BY <1>1, <1>2 DEF IInv, RehashAccounts, ProbeReach, Room

(* tinox_map_set up to the load check. *)
LEMMA BeginStoreIInv ==
  ASSUME IInv, NEW k \in Keys, NEW v \in Vals, NEW op \in {"set", "set_borrow"},
         BeginStore(op, k, v)
  PROVE  IInv'
<1> USE DEF BeginStore, table
<1>1. cap \in Nat /\ cap >= 4 /\ len \in Nat /\ src = 0
  BY DEF IInv, TypeOK, Room
<1>2. UNCHANGED <<cap, len, entries, borrowed, badFree, src>>
  OBVIOUS
<1>3. arg' \in [op : {"set", "set_borrow"}, key : Keys, value : Vals]
  OBVIOUS
<1>4. LenCountsLive' /\ Reachable(entries, cap)'
  BY <1>2 DEF IInv, LenCountsLive, LiveSlots, Live, ProbeReach, Reachable, At, Home
<1>5. CASE MustGrow
  <2>1. pc' = "rehash" /\ fresh' = Blank(2 * cap)
    BY <1>5
  <2>2. fresh' \in [Slots(2 * cap) -> Slot]
    BY <2>1, MapAssumption DEF Blank, EmptySlot, Slot
  <2>3. TypeOK'
    BY <1>2, <1>3, <2>1, <2>2 DEF IInv, TypeOK
  <2>4. LiveSlots(fresh', 2 * cap) = {} /\ \A i \in Slots(2 * cap) : fresh'[i].key # Tomb
    BY <2>1, MapAssumption DEF LiveSlots, Live, Blank, EmptySlot
  <2>5. {i \in LiveSlots(entries', cap') : i < src'} = {}
    BY <1>1, <1>2 DEF LiveSlots
  <2>6. RehashAccounts'
    BY <1>2, <2>4, <2>5 DEF RehashAccounts
  <2>7. ProbeReach'
    BY <1>2, <1>4, <2>4 DEF ProbeReach, Reachable
  <2> QED BY <1>1, <1>2, <1>4, <2>1, <2>3, <2>4, <2>6, <2>7 DEF IInv, Room
<1>6. CASE ~MustGrow
  <2>1. len < cap /\ pc' = "store"
    BY <1>1, <1>6 DEF MustGrow
  <2>2. TypeOK'
    BY <1>2, <1>3, <2>1 DEF IInv, TypeOK
  <2> QED BY <1>1, <1>2, <1>4, <2>1, <2>2 DEF IInv, RehashAccounts, ProbeReach, Room
<1> QED BY <1>5, <1>6

(* The copy of an entry always finds an empty slot in the new table, which *)
(* is twice as large and has no tombstones.                                *)
LEMMA RehashFindsRoom ==
  ASSUME IInv, pc = "rehash", src < cap, Live(entries, src)
  PROVE  Stops(entries[src].key, 2 * cap,
               {i \in Slots(2 * cap) : fresh[i].key = NoKey}) # {}
<1> DEFINE c == 2 * cap
           free == {i \in Slots(c) : fresh[i].key = NoKey}
           passed == {i \in LiveSlots(entries, cap) : i < src}
<1>1. /\ cap \in Nat /\ cap >= 4 /\ fresh \in [Slots(c) -> Slot]
      /\ \A i \in Slots(c) : fresh[i].key # Tomb
      /\ Cardinality(LiveSlots(fresh, c)) = Cardinality(passed)
      /\ entries[src].key \in Keys
  BY DEF IInv, TypeOK, Room, RehashAccounts, Live
<1>2. Cardinality(passed) <= cap /\ Cardinality(passed) \in Nat
  <2>1. passed \in SUBSET LiveSlots(entries, cap)
    OBVIOUS
  <2>2. /\ IsFiniteSet(LiveSlots(entries, cap))
        /\ Cardinality(LiveSlots(entries, cap)) \in Nat
        /\ Cardinality(LiveSlots(entries, cap)) <= cap
    BY <1>1, LiveFinite
  <2>3. IsFiniteSet(passed) /\ Cardinality(passed) <= Cardinality(LiveSlots(entries, cap))
    BY <2>1, <2>2, FS_Subset
  <2>4. Cardinality(passed) \in Nat
    BY <2>3, FS_CardinalityType
  <2> QED BY <1>1, <2>2, <2>3, <2>4
<1>3. c \in Nat /\ c >= 1 /\ Cardinality(LiveSlots(fresh, c)) < c
  BY <1>1, <1>2
<1>4. PICK i \in Slots(c) : ~Live(fresh, i)
  BY <1>3, SomeNotLive
<1>5. fresh[i].key = NoKey
  BY <1>1, <1>4 DEF Live, Slot
<1>6. free # {} /\ free \in SUBSET Slots(c)
  BY <1>5
<1> QED BY <1>1, <1>3, <1>6, ProbeEnds

(* One iteration of the copy loop of map_rehash. *)
LEMMA RehashStepIInv ==
  ASSUME IInv, RehashStep
  PROVE  IInv'
<1> USE DEF RehashStep, table
<1> DEFINE Passed(n) == {i \in LiveSlots(entries, cap) : i < n}
<1>1. /\ cap \in Nat /\ cap >= 4 /\ src \in Slots(cap) /\ pc = "rehash"
      /\ entries \in [Slots(cap) -> Slot] /\ fresh \in [Slots(2 * cap) -> Slot]
      /\ src' = src + 1
  BY DEF IInv, TypeOK
<1>2. UNCHANGED <<cap, len, entries, borrowed, badFree, pc, arg>>
  OBVIOUS
<1>3. LenCountsLive' /\ Reachable(entries, cap)'
  BY <1>2 DEF IInv, LenCountsLive, LiveSlots, Live, ProbeReach, Reachable, At, Home
<1>4. /\ Cardinality(LiveSlots(fresh, 2 * cap)) = Cardinality(Passed(src))
      /\ Reachable(fresh, 2 * cap)
      /\ \A i \in Slots(2 * cap) : fresh[i].key # Tomb
  BY <1>1 DEF IInv, RehashAccounts, ProbeReach, Room
<1>5. IsFiniteSet(Passed(src)) /\ Cardinality(Passed(src)) \in Nat /\ Cardinality(Passed(src)) <= cap
  <2>1. Passed(src) \in SUBSET LiveSlots(entries, cap)
    OBVIOUS
  <2>2. /\ IsFiniteSet(LiveSlots(entries, cap))
        /\ Cardinality(LiveSlots(entries, cap)) \in Nat
        /\ Cardinality(LiveSlots(entries, cap)) <= cap
    BY <1>1, LiveFinite
  <2>3. /\ IsFiniteSet(Passed(src))
        /\ Cardinality(Passed(src)) <= Cardinality(LiveSlots(entries, cap))
    BY <2>1, <2>2, FS_Subset
  <2>4. Cardinality(Passed(src)) \in Nat
    BY <2>3, FS_CardinalityType
  <2> QED BY <1>1, <2>2, <2>3, <2>4
<1>6. CASE ~Live(entries, src)
  <2>1. Passed(src + 1) = Passed(src) /\ fresh' = fresh
    BY <1>1, <1>6 DEF LiveSlots
  <2>2. TypeOK'
    BY <1>1, <1>2, <2>1 DEF IInv, TypeOK
  <2>3. RehashAccounts'
    BY <1>1, <1>2, <1>4, <2>1 DEF RehashAccounts, LiveSlots, Live
  <2>4. ProbeReach'
    <3> HIDE DEF RehashStep, table, Passed
    <3>1. Reachable(fresh, 2 * cap)'
      <4>1. fresh' = fresh /\ cap' = cap
        BY <1>2, <2>1
      <4> QED BY <1>4, <4>1 DEF Reachable, LiveSlots, Live, At, Home
    <3> QED BY <1>3, <3>1 DEF ProbeReach
  <2> QED BY <1>1, <1>2, <1>3, <1>4, <2>1, <2>2, <2>3, <2>4 DEF IInv, Room
<1>7. CASE Live(entries, src)
  <2> DEFINE k == entries[src].key
             c == 2 * cap
             free == {i \in Slots(c) : fresh[i].key = NoKey}
             j == SlotFor(k, c, free)
  <2>1. k \in Keys /\ entries[src] \in Slot /\ c \in Nat /\ c >= 1 /\ c > cap
    BY <1>1, <1>7 DEF Live
  <2>3. Stops(k, c, free) # {}
    BY <1>1, <1>7, RehashFindsRoom
  <2>4. j \in Slots(c) /\ j \in free
    BY <2>1, <2>3, ProbeFirst
  <2>5. fresh' = [fresh EXCEPT ![j] = entries[src]]
    BY <1>7
  <2>6. fresh' \in [Slots(c) -> Slot]
    BY <1>1, <2>1, <2>5
  <2>7. TypeOK'
    BY <1>1, <1>2, <2>6 DEF IInv, TypeOK
  <2>8. \A i \in Slots(c) : fresh'[i] = IF i = j THEN entries[src] ELSE fresh[i]
    BY <1>1, <2>4, <2>5
  <2>9. LiveSlots(fresh', c) = LiveSlots(fresh, c) \cup {j} /\ j \notin LiveSlots(fresh, c)
    BY <2>1, <2>4, <2>8, MapAssumption DEF LiveSlots, Live
  <2>10. Passed(src + 1) = Passed(src) \cup {src} /\ src \notin Passed(src)
    BY <1>1, <1>7 DEF LiveSlots
  <2>11. Cardinality(LiveSlots(fresh', c)) = Cardinality(Passed(src + 1))
    <3>1. IsFiniteSet(LiveSlots(fresh, c))
      BY <2>1, LiveFinite
    <3>2. Cardinality(LiveSlots(fresh, c) \cup {j}) = Cardinality(LiveSlots(fresh, c)) + 1
      BY <3>1, <2>9, FS_AddElement
    <3>3. Cardinality(Passed(src) \cup {src}) = Cardinality(Passed(src)) + 1
      BY <1>5, <2>10, FS_AddElement
    <3> QED BY <1>4, <2>9, <2>10, <3>2, <3>3
  <2>12. RehashAccounts'
    BY <1>1, <1>2, <2>11 DEF RehashAccounts, LiveSlots, Live
  <2>13. Reachable(fresh', c)
    <3>1. ReachedAt(fresh', c, j)
      BY <1>1, <2>1, <2>3, <2>5, ClaimReached
    <3>2. \A i \in Slots(c) : fresh[i].key # NoKey => fresh'[i].key # NoKey
      BY <2>1, <2>8, MapAssumption
    <3>3. \A i \in LiveSlots(fresh', c) :
             \/ i \in LiveSlots(fresh, c) /\ fresh'[i].key = fresh[i].key
             \/ ReachedAt(fresh', c, i)
      BY <2>8, <2>9, <3>1 DEF LiveSlots
    <3> QED BY <1>4, <2>1, <3>2, <3>3, KeepsReachable
  <2>14. ProbeReach'
    BY <1>2, <1>3, <2>13 DEF ProbeReach
  <2>15. Room'
    BY <1>1, <1>2, <1>4, <2>1, <2>8, MapAssumption DEF Room
  <2> QED BY <1>3, <2>7, <2>12, <2>14, <2>15 DEF IInv
<1> QED BY <1>6, <1>7

(* The end of map_rehash. *)
LEMMA RehashDoneIInv ==
  ASSUME IInv, RehashDone
  PROVE  IInv'
<1> USE DEF RehashDone
<1>1. /\ cap \in Nat /\ cap >= 4 /\ len \in Nat /\ src = cap /\ pc = "rehash"
      /\ entries \in [Slots(cap) -> Slot] /\ fresh \in [Slots(2 * cap) -> Slot]
      /\ arg \in [op : {"set", "set_borrow"}, key : Keys, value : Vals]
  BY DEF IInv, TypeOK
<1>2. TypeOK'
  BY <1>1 DEF IInv, TypeOK
<1>3. {i \in LiveSlots(entries, cap) : i < src} = LiveSlots(entries, cap)
  BY <1>1 DEF LiveSlots
<1>4. len = Cardinality(LiveSlots(entries, cap))
  BY DEF IInv, LenCountsLive
<1>5. len = Cardinality(LiveSlots(fresh, 2 * cap))
  BY <1>1, <1>3, <1>4 DEF IInv, RehashAccounts
<1>6. LenCountsLive'
  BY <1>5 DEF LenCountsLive, LiveSlots, Live
<1>7. ProbeReach'
  BY <1>1 DEF IInv, ProbeReach, Reachable, LiveSlots, Live, At, Home
<1>8. len <= cap
  BY <1>1, <1>4, LiveFinite
<1>9. Room'
  BY <1>1, <1>8 DEF Room
<1> QED BY <1>2, <1>6, <1>7, <1>9 DEF IInv, RehashAccounts

(* The load check leaves the probe loop of a store a place to stop.        *)
LEMMA StoreLoopEnds ==
  ASSUME IInv, pc = "store"
  PROVE  arg.key \in Keys /\ Stops(arg.key, cap, StoreStop(arg.key)) # {}
<1>1. /\ cap \in Nat /\ cap >= 4 /\ entries \in [Slots(cap) -> Slot]
      /\ arg.key \in Keys
  BY DEF IInv, TypeOK
<1>2. Cardinality(LiveSlots(entries, cap)) < cap
  BY DEF IInv, LenCountsLive, Room
<1>3. PICK i \in Slots(cap) : ~Live(entries, i)
  BY <1>1, <1>2, SomeNotLive
<1>4. i \in StoreStop(arg.key)
  BY <1>1, <1>3 DEF StoreStop, Live, Slot
<1>5. StoreStop(arg.key) \in SUBSET Slots(cap)
  BY DEF StoreStop
<1> QED BY <1>1, <1>4, <1>5, ProbeEnds

(* The probe loop of a store. *)
LEMMA StoreIInv ==
  ASSUME IInv, Store
  PROVE  IInv'
<1> DEFINE k == arg.key
           stop == StoreStop(k)
           i == SlotFor(k, cap, stop)
<1>1. /\ cap \in Nat /\ cap >= 1 /\ cap >= 4 /\ len \in Nat /\ pc = "store" /\ src = 0
      /\ entries \in [Slots(cap) -> Slot]
      /\ arg \in [op : {"set", "set_borrow"}, key : Keys, value : Vals]
      /\ borrowed \in BOOLEAN
      /\ LenCountsLive /\ Reachable(entries, cap)
  BY DEF IInv, TypeOK, Store, Room, ProbeReach
<1>2. k \in Keys /\ Stops(k, cap, stop) # {}
  BY <1>1, StoreLoopEnds
<1>3. i \in Slots(cap) /\ i \in stop
  BY <1>1, <1>2, ProbeFirst
<1>4. /\ UNCHANGED <<cap, borrowed, badFree, src, fresh>> /\ pc' = "idle"
      /\ \/ /\ entries[i].key = k /\ len' = len
            /\ entries' = [entries EXCEPT ![i].value = arg.value]
         \/ /\ entries[i].key # k /\ len' = len + 1
            /\ entries' = [entries EXCEPT ![i] = NewSlot]
  BY <1>2 DEF Store
<1>5. CASE entries[i].key = k
  <2>1. len' = len /\ entries' = [entries EXCEPT ![i].value = arg.value]
    BY <1>4, <1>5
  <2>2. entries' \in [Slots(cap) -> Slot] /\ \A j \in Slots(cap) : entries'[j].key = entries[j].key
    BY <1>1, <2>1 DEF Slot
  <2>3. TypeOK'
    BY <1>1, <1>4, <2>1, <2>2 DEF IInv, TypeOK
  <2>4. LiveSlots(entries', cap') = LiveSlots(entries, cap)
    BY <1>4, <2>2 DEF LiveSlots, Live
  <2>5. LenCountsLive'
    BY <1>1, <2>1, <2>4 DEF LenCountsLive
  <2>6. Reachable(entries', cap)
    <3>1. \A j \in Slots(cap) : entries[j].key # NoKey => entries'[j].key # NoKey
      BY <2>2
    <3>2. \A j \in LiveSlots(entries', cap) :
             j \in LiveSlots(entries, cap) /\ entries'[j].key = entries[j].key
      BY <1>4, <2>2, <2>4 DEF LiveSlots
    <3> QED BY <1>1, <3>1, <3>2, KeepsReachable
  <2> QED BY <1>1, <1>4, <2>3, <2>5, <2>6 DEF IInv, RehashAccounts, ProbeReach, Room
<1>6. CASE entries[i].key # k
  <2>1. len' = len + 1 /\ entries' = [entries EXCEPT ![i] = NewSlot]
    BY <1>4, <1>6
  <2>2. NewSlot \in Slot /\ NewSlot.key = k
    BY <1>1 DEF NewSlot, Slot
  <2>3. /\ entries' \in [Slots(cap) -> Slot]
        /\ \A j \in Slots(cap) : entries'[j] = IF j = i THEN NewSlot ELSE entries[j]
    BY <1>1, <1>3, <2>1, <2>2
  <2>4. TypeOK'
    BY <1>1, <1>4, <2>1, <2>3 DEF IInv, TypeOK
  <2>5. entries[i].key \in {NoKey, Tomb}
    BY <1>3, <1>6 DEF StoreStop
  <2>6. LiveSlots(entries', cap) = LiveSlots(entries, cap) \cup {i} /\ i \notin LiveSlots(entries, cap)
    BY <1>2, <1>3, <2>2, <2>3, <2>5, MapAssumption DEF LiveSlots, Live
  <2>7. LenCountsLive'
    <3>1. IsFiniteSet(LiveSlots(entries, cap))
      BY <1>1, LiveFinite
    <3>2. Cardinality(LiveSlots(entries, cap) \cup {i}) = Cardinality(LiveSlots(entries, cap)) + 1
      BY <3>1, <2>6, FS_AddElement
    <3> QED BY <1>1, <1>4, <2>1, <2>6, <3>2 DEF LenCountsLive
  <2>8. Reachable(entries', cap)
    <3>1. \A j \in Slots(cap) : entries[j].key = NoKey => j \in stop
      BY DEF StoreStop
    <3>2. ReachedAt(entries', cap, i)
      BY <1>1, <1>2, <2>1, <2>2, <3>1, ClaimReached
    <3>3. \A j \in Slots(cap) : entries[j].key # NoKey => entries'[j].key # NoKey
      BY <1>2, <2>2, <2>3, MapAssumption
    <3>4. \A j \in LiveSlots(entries', cap) :
             \/ j \in LiveSlots(entries, cap) /\ entries'[j].key = entries[j].key
             \/ ReachedAt(entries', cap, j)
      BY <2>3, <2>6, <3>2 DEF LiveSlots
    <3> QED BY <1>1, <3>3, <3>4, KeepsReachable
  <2> QED BY <1>1, <1>4, <2>4, <2>7, <2>8 DEF IInv, RehashAccounts, ProbeReach, Room
<1> QED BY <1>5, <1>6

(* tinox_map_remove. *)
LEMMA RemoveIInv ==
  ASSUME IInv, NEW k \in Keys, Remove(k)
  PROVE  IInv'
<1> DEFINE i == SlotFor(k, cap, LookupStop(k))
<1>1. /\ cap \in Nat /\ cap >= 1 /\ cap >= 4 /\ len \in Nat /\ pc = "idle" /\ src = 0
      /\ entries \in [Slots(cap) -> Slot]
      /\ badFree \in BOOLEAN
      /\ LenCountsLive /\ Reachable(entries, cap)
  BY DEF IInv, TypeOK, Remove, Room, ProbeReach
<1>2. UNCHANGED <<cap, borrowed, arg, src>>
  BY DEF Remove, loop
<1>3. CASE ~Found(k)
  <2>1. UNCHANGED <<len, entries, badFree>> /\ pc' \in {"idle", "spin"}
    BY <1>1, <1>3 DEF Remove
  <2> QED BY <1>1, <1>2, <2>1, TableUnchanged
<1>4. CASE Found(k)
  <2>1. /\ entries' = [entries EXCEPT ![i].key = Tomb]
        /\ len' = len - 1 /\ pc' = "idle"
        /\ badFree' = (badFree \/ ~entries[i].own)
    BY <1>1, <1>4 DEF Remove, Removed, Found
  <2>2. i \in Slots(cap) /\ entries[i].key = k
    BY <1>1, <1>4, ProbeFirst DEF Found, LookupEnds
  <2>3. /\ entries' \in [Slots(cap) -> Slot]
        /\ entries'[i].key = Tomb
        /\ \A j \in Slots(cap) : j # i => entries'[j] = entries[j]
    BY <1>1, <2>1, <2>2 DEF Slot
  <2>4. LiveSlots(entries', cap) = LiveSlots(entries, cap) \ {i} /\ i \in LiveSlots(entries, cap)
    BY <2>2, <2>3, MapAssumption DEF LiveSlots, Live
  <2>5. LenCountsLive' /\ len' \in Nat
    <3>1. IsFiniteSet(LiveSlots(entries, cap))
      BY <1>1, LiveFinite
    <3>2. /\ IsFiniteSet(LiveSlots(entries, cap) \ {i})
          /\ Cardinality(LiveSlots(entries, cap) \ {i}) = Cardinality(LiveSlots(entries, cap)) - 1
      BY <3>1, <2>4, FS_RemoveElement
    <3>3. Cardinality(LiveSlots(entries, cap) \ {i}) \in Nat
      BY <3>2, FS_CardinalityType
    <3> QED BY <1>1, <1>2, <2>1, <2>4, <3>2, <3>3 DEF LenCountsLive
  <2>6. badFree' \in BOOLEAN
    BY <2>1
  <2>7. TypeOK'
    BY <1>1, <1>2, <2>1, <2>3, <2>5, <2>6 DEF IInv, TypeOK
  <2>8. Reachable(entries', cap)
    <3>1. \A j \in Slots(cap) : entries[j].key # NoKey => entries'[j].key # NoKey
      BY <2>3, MapAssumption
    <3>2. \A j \in LiveSlots(entries', cap) :
             j \in LiveSlots(entries, cap) /\ entries'[j].key = entries[j].key
      BY <2>3, <2>4 DEF LiveSlots
    <3> QED BY <1>1, <3>1, <3>2, KeepsReachable
  <2> QED BY <1>1, <1>2, <2>1, <2>5, <2>7, <2>8 DEF IInv, RehashAccounts, ProbeReach, Room
<1> QED BY <1>3, <1>4

(* tinox_map_reset. *)
LEMMA ResetIInv ==
  ASSUME IInv, Reset
  PROVE  IInv'
<1>1. /\ cap \in Nat /\ pc = "idle" /\ pc' = "idle" /\ src = 0 /\ len' = 0
      /\ UNCHANGED <<cap, borrowed, badFree, arg, src>>
      /\ entries' = Blank(cap)
  BY DEF IInv, TypeOK, Room, Reset, loop
<1>2. entries' \in [Slots(cap) -> Slot]
  BY <1>1, MapAssumption DEF Blank, EmptySlot, Slot
<1>3. TypeOK'
  BY <1>1, <1>2 DEF IInv, TypeOK
<1>4. LiveSlots(entries', cap') = {}
  BY <1>1, MapAssumption DEF LiveSlots, Live, Blank, EmptySlot
<1>5. LenCountsLive'
  BY <1>1, <1>4, FS_EmptySet DEF LenCountsLive
<1>6. ProbeReach'
  BY <1>1, <1>4 DEF ProbeReach, Reachable
<1> QED BY <1>1, <1>3, <1>5, <1>6 DEF IInv, RehashAccounts, Room

(* The invariant is inductive. *)
LEMMA NextIInv == IInv /\ [Next]_vars => IInv'
<1> SUFFICES ASSUME IInv, [Next]_vars PROVE IInv'
  OBVIOUS
<1>0. badFree \in BOOLEAN /\ pc \in {"idle", "rehash", "store", "spin", "freed"}
  BY DEF IInv, TypeOK
<1>1. ASSUME NEW k \in Keys, NEW v \in Vals, NEW op \in {"set", "set_borrow"},
             BeginStore(op, k, v)
      PROVE  IInv'
  BY <1>1, BeginStoreIInv
<1>2. ASSUME NEW k \in Keys, Get(k) \/ Contains(k) PROVE IInv'
  BY <1>0, <1>2, TableUnchanged DEF Get, Contains, Read, table, loop
<1>3. ASSUME NEW k \in Keys, Remove(k) PROVE IInv'
  BY <1>3, RemoveIInv
<1>4. CASE RehashStep
  BY <1>4, RehashStepIInv
<1>5. CASE RehashDone
  BY <1>5, RehashDoneIInv
<1>6. CASE Store
  BY <1>6, StoreIInv
<1>7. CASE Len \/ Entries
  BY <1>0, <1>7, TableUnchanged DEF Len, Entries, table, loop
<1>8. CASE Reset
  BY <1>8, ResetIInv
<1>9. CASE Free
  <2>1. badFree' \in BOOLEAN
    BY <1>9 DEF Free
  <2> QED BY <1>9, <2>1, TableUnchanged DEF Free, loop
<1>10. CASE UNCHANGED vars
  <2>1. UNCHANGED <<cap, len, entries, borrowed, pc, arg, src, fresh, badFree>>
    BY <1>10 DEF vars
  <2>2. TypeOK'
    BY <2>1 DEF IInv, TypeOK
  <2>3. LenCountsLive' /\ RehashAccounts' /\ Room'
    BY <2>1 DEF IInv, LenCountsLive, RehashAccounts, Room, LiveSlots, Live
  <2>4. ProbeReach'
    BY <2>1 DEF IInv, ProbeReach, Reachable, LiveSlots, Live, At, Home
  <2> QED BY <2>2, <2>3, <2>4 DEF IInv
<1> QED BY <1>1, <1>2, <1>3, <1>4, <1>5, <1>6, <1>7, <1>8, <1>9, <1>10 DEF Next

-----------------------------------------------------------------------------
(* The table of runtime.c keeps its inductive invariant for every set of    *)
(* keys, every hash function and every capacity.                            *)
THEOREM TableInvariant == Spec => []IInv
BY InitIInv, NextIInv, PTL DEF Spec

(* The state stays well formed; in particular len never becomes negative   *)
(* when tinox_map_remove decrements it.                                    *)
THEOREM TypeCorrect == Spec => []TypeOK
<1>1. IInv => TypeOK
  BY DEF IInv
<1> QED BY <1>1, TableInvariant, PTL

(* len is the number of live slots, so tinox_map_keys and tinox_map_values *)
(* fill exactly the arrays they allocate.                                  *)
THEOREM LenIsExact == Spec => []LenCountsLive
<1>1. IInv => LenCountsLive
  BY DEF IInv
<1> QED BY <1>1, TableInvariant, PTL

(* No live entry hides behind an empty slot, in the table and in the copy  *)
(* map_rehash is filling.                                                  *)
THEOREM EntriesReachable == Spec => []ProbeReach
<1>1. IInv => ProbeReach
  BY DEF IInv
<1> QED BY <1>1, TableInvariant, PTL

(* The probe loop of tinox_map_set and tinox_map_set_borrow always ends.   *)
THEOREM StoreTerminates == Spec => []StoreEnds
<1>1. IInv => StoreEnds
  BY StoreLoopEnds DEF StoreEnds
<1> QED BY <1>1, TableInvariant, PTL

(* map_rehash copies exactly the live entries it has passed.               *)
THEOREM RehashLossless == Spec => []RehashAccounts
<1>1. IInv => RehashAccounts
  BY DEF IInv
<1> QED BY <1>1, TableInvariant, PTL
-----------------------------------------------------------------------------
(* The load check of a store keeps one slot free of live entries, also     *)
(* after the store it is made for: 3/4 of at least four slots.             *)
Spare == len < cap /\ (pc = "store" => len + 1 < cap)

(* The load check keeps the spare slot. *)
LEMMA NextSpare == IInv /\ Spare /\ [Next]_vars => Spare'
<1> SUFFICES ASSUME IInv, Spare, [Next]_vars PROVE Spare'
  OBVIOUS
<1>0. /\ cap \in Nat /\ cap >= 4 /\ len \in Nat /\ len < cap
      /\ pc = "store" => len + 1 < cap
  BY DEF IInv, TypeOK, Spare
<1>1. ASSUME NEW k \in Keys, NEW v \in Vals, NEW op \in {"set", "set_borrow"},
             BeginStore(op, k, v)
      PROVE  Spare'
  <2>1. UNCHANGED <<cap, len>> /\ (pc' = "store" => ~(len * 4 >= cap * 3))
    BY <1>1 DEF BeginStore, table, MustGrow
  <2>2. ~(len * 4 >= cap * 3) => len + 1 < cap
    BY <1>0
  <2> QED BY <1>0, <2>1, <2>2 DEF Spare
<1>2. ASSUME NEW k \in Keys, Get(k) \/ Contains(k) PROVE Spare'
  BY <1>0, <1>2 DEF Get, Contains, Read, table, Spare
<1>3. ASSUME NEW k \in Keys, Remove(k) PROVE Spare'
  BY <1>0, <1>3 DEF Remove, Spare
<1>4. CASE RehashStep
  BY <1>0, <1>4 DEF RehashStep, table, Spare
<1>5. CASE RehashDone
  BY <1>0, <1>5 DEF RehashDone, Spare
<1>6. CASE Store
  <2>1. cap' = cap /\ len' \in {len, len + 1} /\ pc' # "store"
    BY <1>6 DEF Store
  <2>2. len + 1 < cap
    BY <1>0, <1>6 DEF Store
  <2> QED BY <1>0, <2>1, <2>2 DEF Spare
<1>7. CASE Len \/ Entries
  BY <1>0, <1>7 DEF Len, Entries, table, Spare
<1>8. CASE Reset
  BY <1>0, <1>8 DEF Reset, Spare
<1>9. CASE Free
  BY <1>0, <1>9 DEF Free, Spare
<1>10. CASE UNCHANGED vars
  BY <1>0, <1>10 DEF vars, Spare
<1> QED BY <1>1, <1>2, <1>3, <1>4, <1>5, <1>6, <1>7, <1>8, <1>9, <1>10 DEF Next

(* Without tinox_map_remove nothing writes a tombstone.                    *)
NoTombs == \A i \in Slots(cap) : entries[i].key # Tomb

(* A table without tombstones gets none. *)
LEMMA NextNoTombs ==
  ASSUME IInv, NoTombs, "remove" \notin Ops, [Next]_vars
  PROVE  NoTombs'
<1>0. /\ cap \in Nat /\ cap >= 4 /\ entries \in [Slots(cap) -> Slot]
      /\ \A i \in Slots(cap) : entries[i].key # Tomb
  BY DEF IInv, TypeOK, NoTombs
<1>1. ASSUME UNCHANGED <<cap, entries>> PROVE NoTombs'
  BY <1>0, <1>1 DEF NoTombs
<1>2. ASSUME NEW k \in Keys, Remove(k) PROVE NoTombs'
  BY <1>2 DEF Remove
<1>3. CASE RehashDone
  BY <1>0, <1>3 DEF RehashDone, IInv, Room, NoTombs
<1>4. CASE Store
  <2> DEFINE k == arg.key
             i == SlotFor(k, cap, StoreStop(k))
  <2>1. /\ k \in Keys /\ Stops(k, cap, StoreStop(k)) # {}
        /\ cap' = cap
        /\ arg \in [op : {"set", "set_borrow"}, key : Keys, value : Vals]
    BY <1>4, StoreLoopEnds DEF Store, IInv, TypeOK
  <2>2. i \in Slots(cap)
    BY <1>0, <2>1, ProbeFirst
  <2>3. \/ entries' = [entries EXCEPT ![i].value = arg.value]
        \/ entries' = [entries EXCEPT ![i] = NewSlot]
    BY <1>4, <2>1 DEF Store
  <2>4. NewSlot.key # Tomb
    BY <2>1, MapAssumption DEF NewSlot
  <2>5. \A j \in Slots(cap) : entries'[j].key # Tomb
    BY <1>0, <2>2, <2>3, <2>4 DEF Slot
  <2> QED BY <2>1, <2>5 DEF NoTombs
<1>5. CASE Reset
  BY <1>0, <1>5, MapAssumption DEF Reset, NoTombs, Blank, EmptySlot
<1>6. CASE Len \/ Entries \/ Free \/ RehashStep \/ UNCHANGED vars
  BY <1>1, <1>6 DEF Len, Entries, Free, RehashStep, vars, table
<1>7. ASSUME NEW k \in Keys,
             Get(k) \/ Contains(k)
               \/ \E v \in Vals, op \in {"set", "set_borrow"} : BeginStore(op, k, v)
      PROVE  NoTombs'
  BY <1>1, <1>7 DEF Get, Contains, Read, BeginStore, table
<1> QED BY <1>2, <1>3, <1>4, <1>5, <1>6, <1>7 DEF Next

(* A table without tombstones that is not full stops every lookup.         *)
LEMMA EmptySlotEndsLookups ==
  ASSUME IInv, Spare, NoTombs, NEW k \in Keys
  PROVE  LookupEnds(k)
<1>1. cap \in Nat /\ cap >= 4 /\ entries \in [Slots(cap) -> Slot]
  BY DEF IInv, TypeOK
<1>2. Cardinality(LiveSlots(entries, cap)) < cap
  BY DEF IInv, LenCountsLive, Spare
<1>3. PICK i \in Slots(cap) : ~Live(entries, i)
  BY <1>1, <1>2, SomeNotLive
<1>4. i \in LookupStop(k)
  BY <1>1, <1>3 DEF LookupStop, Live, Slot, NoTombs
<1>5. LookupStop(k) \in SUBSET Slots(cap)
  BY DEF LookupStop
<1> QED BY <1>1, <1>4, <1>5, ProbeEnds DEF LookupEnds

(* The load factor leaves an empty slot, so in a map from which nothing is *)
(* removed (the per-thread header maps, the maps of most programs) every   *)
(* lookup loop of tinox_map_get and tinox_map_contains ends.               *)
THEOREM LookupsTerminate ==
  ASSUME "remove" \notin Ops
  PROVE  Spec => []LookupsEnd
<1>1. Init => Spare /\ NoTombs
  BY MapAssumption DEF Init, Spare, NoTombs, Blank, EmptySlot
<1>2. IInv /\ Spare /\ NoTombs /\ [Next]_vars => Spare' /\ NoTombs'
  BY NextSpare, NextNoTombs
<1>3. IInv /\ Spare /\ NoTombs => LookupsEnd
  BY EmptySlotEndsLookups DEF LookupsEnd
<1> QED BY <1>1, <1>2, <1>3, TableInvariant, PTL DEF Spec

-----------------------------------------------------------------------------
(* A map from which nothing is removed implements AbstractMap, for every    *)
(* set of keys, every hash function and every initial capacity: probing,    *)
(* collisions and growing the table cannot be seen by its user.             *)

(* No key is stored twice. *)
Unique(e, c) == \A i, j \in LiveSlots(e, c) : e[i].key = e[j].key => i = j

(* Table f holds the entries of e below slot n, and nothing else. *)
CopyOf(f, d, e, c, n) ==
  /\ \A i \in LiveSlots(e, c) : i < n => \E j \in LiveSlots(f, d) : f[j] = e[i]
  /\ \A j \in LiveSlots(f, d) : \E i \in LiveSlots(e, c) : i < n /\ f[j] = e[i]

(* map_rehash has copied what it has passed. *)
Copying ==
  pc = "rehash" => /\ Unique(fresh, 2 * cap)
                   /\ CopyOf(fresh, 2 * cap, entries, cap, src)

RInv == IInv /\ Spare /\ NoTombs /\ Unique(entries, cap) /\ Copying

-----------------------------------------------------------------------------
(* A lookup of a stored key stops at its entry, and one that answers that  *)
(* the key is there has met it.                                            *)
LEMMA LookupMeetsEntry ==
  ASSUME IInv, Unique(entries, cap), NEW k \in Keys
  PROVE  /\ \A j \in LiveSlots(entries, cap) :
               entries[j].key = k => Found(k) /\ SlotFor(k, cap, LookupStop(k)) = j
         /\ Found(k) => /\ SlotFor(k, cap, LookupStop(k)) \in LiveSlots(entries, cap)
                        /\ entries[SlotFor(k, cap, LookupStop(k))].key = k
<1> DEFINE stop == LookupStop(k)
           p == Probe(k, cap, stop)
           s == SlotFor(k, cap, stop)
<1>0. /\ cap \in Nat /\ cap >= 1 /\ entries \in [Slots(cap) -> Slot]
      /\ Reachable(entries, cap)
  BY DEF IInv, TypeOK, ProbeReach
<1>1. ASSUME Found(k)
      PROVE  s \in LiveSlots(entries, cap) /\ entries[s].key = k
  <2>1. Stops(k, cap, stop) # {} /\ entries[s].key = k
    BY <1>1 DEF Found, LookupEnds
  <2>2. s \in Slots(cap)
    BY <1>0, <2>1, ProbeFirst
  <2> QED BY <2>1, <2>2 DEF LiveSlots, Live
<1>2. ASSUME NEW j \in LiveSlots(entries, cap), entries[j].key = k
      PROVE  Found(k) /\ s = j
  <2>1. PICK d \in Slots(cap) :
            /\ At(k, d, cap) = j
            /\ \A x \in 0 .. d - 1 : entries[At(k, x, cap)].key # NoKey
    BY <1>0, <1>2 DEF Reachable
  <2>2. j \in Slots(cap) /\ j \in stop
    BY <1>2 DEF LiveSlots, LookupStop
  <2>3. Stops(k, cap, stop) # {} /\ d \in Stops(k, cap, stop)
    BY <2>1, <2>2 DEF Stops
  <2>4. /\ p \in Slots(cap) /\ s \in Slots(cap) /\ s \in stop /\ s = At(k, p, cap)
        /\ \A x \in Slots(cap) : x < p => At(k, x, cap) \notin stop
    BY <1>0, <2>3, ProbeFirst DEF SlotFor
  <2>5. p <= d
    BY <2>1, <2>2, <2>4
  <2>6. entries[s].key = k
    <3>1. CASE p = d
      BY <1>2, <2>1, <2>4, <3>1
    <3>2. CASE p # d
      <4>1. entries[s].key # NoKey
        BY <2>1, <2>4, <2>5, <3>2
      <4> QED BY <2>4, <4>1 DEF LookupStop
    <3> QED BY <3>1, <3>2
  <2>7. s \in LiveSlots(entries, cap)
    BY <2>4, <2>6 DEF LiveSlots, Live
  <2>8. s = j
    BY <1>2, <2>6, <2>7 DEF Unique
  <2> QED BY <2>3, <2>6, <2>8 DEF Found, LookupEnds
<1> QED BY <1>1, <1>2

(* The map a table stands for: the keys of its live entries, each with the *)
(* value beside it.                                                        *)
ContentIsTable ==
  /\ Content = [k \in DOMAIN Content |-> Content[k]]
  /\ DOMAIN Content = {entries[i].key : i \in LiveSlots(entries, cap)}
  /\ \A i \in LiveSlots(entries, cap) : Content[entries[i].key] = entries[i].value

(* When no key has two live slots the table stands for one map. *)
LEMMA ContentTable == RInv => ContentIsTable
<1> SUFFICES ASSUME RInv PROVE ContentIsTable
  OBVIOUS
<1>0. IInv /\ Unique(entries, cap)
  BY DEF RInv
<1>1. \A i \in LiveSlots(entries, cap) : entries[i].key \in Keys
  BY DEF LiveSlots, Live
<1>2. DOMAIN Content = {x \in Keys : Found(x)}
  BY DEF Content
<1>3. DOMAIN Content = {entries[i].key : i \in LiveSlots(entries, cap)}
  BY <1>0, <1>1, <1>2, LookupMeetsEntry
<1>4. ASSUME NEW i \in LiveSlots(entries, cap)
      PROVE  Content[entries[i].key] = entries[i].value
  <2> DEFINE k == entries[i].key
  <2>1. k \in Keys /\ Found(k) /\ SlotFor(k, cap, LookupStop(k)) = i
    BY <1>0, <1>1, LookupMeetsEntry
  <2>2. Lookup(k) = entries[i].value
    BY <2>1 DEF Lookup
  <2> QED BY <1>2, <2>1, <2>2 DEF Content
<1>5. Content = [k \in DOMAIN Content |-> Content[k]]
  BY DEF Content
<1> QED BY <1>3, <1>4, <1>5 DEF ContentIsTable

-----------------------------------------------------------------------------
(* The empty table. *)
LEMMA InitRInv == Init => RInv
<1> SUFFICES ASSUME Init PROVE RInv
  OBVIOUS
<1>1. LiveSlots(entries, cap) = {}
  BY MapAssumption DEF Init, LiveSlots, Live, Blank, EmptySlot
<1>2. Spare /\ NoTombs
  BY MapAssumption DEF Init, Spare, NoTombs, Blank, EmptySlot
<1>3. Unique(entries, cap) /\ Copying
  BY <1>1 DEF Unique, Copying, Init
<1> QED BY <1>2, <1>3, InitIInv DEF RInv

(* Without tombstones a store that stops at an empty slot has passed every *)
(* place its key could be at.                                              *)
LEMMA StoreMeetsEntry ==
  ASSUME RInv, pc = "store", NEW j \in LiveSlots(entries, cap),
         entries[j].key = arg.key
  PROVE  SlotFor(arg.key, cap, StoreStop(arg.key)) = j
<1>1. arg.key \in Keys
  BY StoreLoopEnds DEF RInv
<1>2. StoreStop(arg.key) = LookupStop(arg.key)
  BY DEF StoreStop, LookupStop, RInv, NoTombs
<1>3. IInv /\ Unique(entries, cap)
  BY DEF RInv
<1> QED BY <1>1, <1>2, <1>3, LookupMeetsEntry

(* A store leaves one live slot per key: it meets the entry of its key first. *)
LEMMA StoreUnique ==
  ASSUME RInv, Store
  PROVE  Unique(entries, cap)'
<1> DEFINE k == arg.key
           i == SlotFor(k, cap, StoreStop(k))
<1>1. /\ cap \in Nat /\ cap >= 1 /\ entries \in [Slots(cap) -> Slot]
      /\ k \in Keys /\ Stops(k, cap, StoreStop(k)) # {} /\ pc = "store"
      /\ cap' = cap /\ arg \in [op : {"set", "set_borrow"}, key : Keys, value : Vals]
      /\ Unique(entries, cap)
  BY StoreLoopEnds DEF RInv, IInv, TypeOK, Store
<1>2. i \in Slots(cap)
  BY <1>1, ProbeFirst
<1>3. CASE entries[i].key = k
  <2>1. entries' = [entries EXCEPT ![i].value = arg.value]
    BY <1>1, <1>3 DEF Store
  <2>2. \A j \in Slots(cap) : entries'[j].key = entries[j].key
    BY <1>1, <2>1 DEF Slot
  <2> QED BY <1>1, <2>2 DEF Unique, LiveSlots, Live
<1>4. CASE entries[i].key # k
  <2>1. entries' = [entries EXCEPT ![i] = NewSlot]
    BY <1>1, <1>4 DEF Store
  <2>2. NewSlot.key = k
    BY DEF NewSlot
  <2>3. \A j \in Slots(cap) : entries'[j] = IF j = i THEN NewSlot ELSE entries[j]
    BY <1>1, <2>1
  <2>4. \A j \in LiveSlots(entries, cap) : entries[j].key # k
    BY <1>1, <1>4, StoreMeetsEntry
  <2> QED BY <1>1, <2>2, <2>3, <2>4 DEF Unique, LiveSlots, Live
<1> QED BY <1>3, <1>4

(* One step of the copy loop copies one entry and loses none. *)
LEMMA RehashStepCopies ==
  ASSUME RInv, RehashStep
  PROVE  Copying'
<1> DEFINE k == entries[src].key
           c == 2 * cap
           free == {x \in Slots(c) : fresh[x].key = NoKey}
           j == SlotFor(k, c, free)
<1>1. /\ cap \in Nat /\ cap >= 4 /\ src \in Slots(cap) /\ src < cap /\ pc = "rehash"
      /\ entries \in [Slots(cap) -> Slot] /\ fresh \in [Slots(c) -> Slot]
      /\ src' = src + 1 /\ UNCHANGED <<cap, entries, pc>>
      /\ Unique(fresh, c) /\ CopyOf(fresh, c, entries, cap, src)
      /\ Unique(entries, cap)
  BY DEF RInv, IInv, TypeOK, RehashStep, table, Copying
<1>2. CASE ~Live(entries, src)
  <2>1. fresh' = fresh
    BY <1>2 DEF RehashStep
  <2>2. \A i \in LiveSlots(entries, cap) : i < src + 1 <=> i < src
    BY <1>1, <1>2 DEF LiveSlots
  <2>3. CopyOf(fresh, c, entries, cap, src + 1)
    BY <1>1, <2>2 DEF CopyOf
  <2> QED BY <1>1, <2>1, <2>3 DEF Copying, CopyOf, Unique, LiveSlots, Live
<1>3. CASE Live(entries, src)
  <2>1. k \in Keys /\ src \in LiveSlots(entries, cap) /\ c \in Nat /\ c >= 1
    BY <1>1, <1>3 DEF Live, LiveSlots
  <2>2. fresh' = [fresh EXCEPT ![j] = entries[src]]
    BY <1>3 DEF RehashStep
  <2>3. j \in Slots(c) /\ fresh[j].key = NoKey
    <3>1. Stops(k, c, free) # {}
      BY <1>1, <1>3, RehashFindsRoom DEF RInv
    <3>2. j \in Slots(c) /\ j \in free
      BY <2>1, <3>1, ProbeFirst
    <3> QED BY <3>2
  <2>4. \A x \in Slots(c) : fresh'[x] = IF x = j THEN entries[src] ELSE fresh[x]
    BY <1>1, <2>2
  <2>5. LiveSlots(fresh', c) = LiveSlots(fresh, c) \cup {j} /\ j \notin LiveSlots(fresh, c)
    BY <2>1, <2>3, <2>4, MapAssumption DEF LiveSlots, Live
  <2>6. \A x \in LiveSlots(fresh, c) : fresh'[x] = fresh[x]
    BY <2>4, <2>5 DEF LiveSlots
  <2>7. fresh'[j] = entries[src]
    BY <2>3, <2>4
  <2>8. \A x \in LiveSlots(fresh, c) : fresh[x].key # k
    BY <1>1, <2>1 DEF CopyOf, Unique
  <2>9. Unique(fresh', c)
    BY <1>1, <2>5, <2>6, <2>7, <2>8 DEF Unique
  <2>10. CopyOf(fresh', c, entries, cap, src + 1)
    <3>1. \A i \in LiveSlots(entries, cap) : i < src + 1 <=> i < src \/ i = src
      BY <1>1 DEF LiveSlots
    <3>2. ASSUME NEW i \in LiveSlots(entries, cap), i < src + 1
          PROVE  \E x \in LiveSlots(fresh', c) : fresh'[x] = entries[i]
      BY <1>1, <2>5, <2>6, <2>7, <3>1, <3>2 DEF CopyOf
    <3>3. ASSUME NEW x \in LiveSlots(fresh', c)
          PROVE  \E i \in LiveSlots(entries, cap) : i < src + 1 /\ fresh'[x] = entries[i]
      BY <1>1, <2>1, <2>5, <2>6, <2>7, <3>1, <3>3 DEF CopyOf
    <3> QED BY <3>2, <3>3 DEF CopyOf
  <2> QED BY <1>1, <2>9, <2>10 DEF Copying, CopyOf, Unique, LiveSlots, Live
<1> QED BY <1>2, <1>3

(* The invariant of the refinement is inductive while nothing is removed. *)
LEMMA NextRInv ==
  ASSUME RInv, "remove" \notin Ops, [Next]_vars
  PROVE  RInv'
<1>1. IInv' /\ Spare' /\ NoTombs'
  BY NextIInv, NextSpare, NextNoTombs DEF RInv
<1> SUFFICES Unique(entries, cap)' /\ Copying'
  BY <1>1 DEF RInv
<1>2. ASSUME UNCHANGED <<cap, entries>>
      PROVE  Unique(entries, cap)'
  BY <1>2 DEF RInv, Unique, LiveSlots, Live
<1>3. ASSUME pc' # "rehash" PROVE Copying'
  BY <1>3 DEF Copying
<1>4. ASSUME NEW k \in Keys, NEW v \in Vals, NEW op \in {"set", "set_borrow"},
             BeginStore(op, k, v)
      PROVE  Unique(entries, cap)' /\ Copying'
  <2>1. UNCHANGED <<cap, entries, src>> /\ (pc' = "rehash" => fresh' = Blank(2 * cap))
        /\ src = 0 /\ cap \in Nat
    BY <1>4 DEF BeginStore, table, RInv, IInv, TypeOK, Room
  <2>2. pc' = "rehash" => LiveSlots(fresh', 2 * cap') = {}
    BY <2>1, MapAssumption DEF LiveSlots, Live, Blank, EmptySlot
  <2>3. \A i \in LiveSlots(entries', cap') : ~(i < src')
    BY <2>1 DEF LiveSlots
  <2> QED BY <1>2, <2>1, <2>2, <2>3 DEF Copying, CopyOf, Unique
<1>5. ASSUME NEW k \in Keys, Get(k) \/ Contains(k)
      PROVE  Unique(entries, cap)' /\ Copying'
  BY <1>2, <1>3, <1>5 DEF Get, Contains, Read, table
<1>6. ASSUME NEW k \in Keys, Remove(k) PROVE FALSE
  BY <1>6 DEF Remove
<1>7. CASE RehashStep
  BY <1>2, <1>7, RehashStepCopies DEF RehashStep, table
<1>8. CASE RehashDone
  BY <1>3, <1>8 DEF RehashDone, RInv, Copying, Unique, LiveSlots, Live
<1>9. CASE Store
  <2>1. pc' = "idle" \/ pc' = "spin"
    BY <1>9 DEF Store
  <2> QED BY <1>3, <1>9, <2>1, StoreUnique
<1>10. CASE Len \/ Entries \/ Free
  BY <1>2, <1>3, <1>10 DEF Len, Entries, Free, table
<1>11. CASE Reset
  <2>1. LiveSlots(entries', cap') = {}
    BY <1>11, MapAssumption DEF Reset, LiveSlots, Live, Blank, EmptySlot
  <2> QED BY <1>3, <1>11, <2>1 DEF Reset, Unique
<1>12. CASE UNCHANGED vars
  BY <1>2, <1>12 DEF vars, RInv, Copying, CopyOf, Unique, LiveSlots, Live
<1> QED BY <1>4, <1>5, <1>6, <1>7, <1>8, <1>9, <1>10, <1>11, <1>12 DEF Next

-----------------------------------------------------------------------------
(* A step that leaves the table alone leaves the map alone. *)
LEMMA SameTableSameContent ==
  ASSUME UNCHANGED <<cap, entries>>
  PROVE  UNCHANGED Content
BY DEF Content, Found, Lookup, LookupEnds, Stops, LookupStop, SlotFor, Probe, At, Home

(* The end of map_rehash: the copy stands for the same map. *)
LEMMA RehashKeepsContent ==
  ASSUME RInv, RInv', RehashDone
  PROVE  UNCHANGED Content
<1>1. /\ cap \in Nat /\ pc = "rehash" /\ src = cap
      /\ entries' = fresh /\ cap' = 2 * cap
      /\ CopyOf(fresh, 2 * cap, entries, cap, cap)
  BY DEF RInv, IInv, TypeOK, RehashDone, Copying
<1>2. LiveSlots(entries', cap') = LiveSlots(fresh, 2 * cap)
  BY <1>1 DEF LiveSlots, Live
<1>3. ContentIsTable /\ ContentIsTable'
  <2>1. RInv' => ContentIsTable'
    BY ContentTable, PTL
  <2> QED BY <2>1, ContentTable
<1>4. DOMAIN Content' = DOMAIN Content
  <2>1. \A i \in LiveSlots(entries, cap) : i < cap
    BY <1>1 DEF LiveSlots
  <2> QED BY <1>1, <1>2, <1>3, <2>1 DEF ContentIsTable, CopyOf
<1>5. ASSUME NEW k \in DOMAIN Content PROVE Content'[k] = Content[k]
  <2>0. k \in DOMAIN Content'
    BY <1>4, <1>5
  <2>1. PICK j \in LiveSlots(fresh, 2 * cap) : fresh[j].key = k
    BY <1>1, <1>2, <1>3, <2>0 DEF ContentIsTable
  <2>2. PICK i \in LiveSlots(entries, cap) : fresh[j] = entries[i]
    BY <1>1 DEF CopyOf
  <2> QED BY <1>1, <1>2, <1>3, <2>1, <2>2 DEF ContentIsTable
<1> QED BY <1>3, <1>4, <1>5 DEF ContentIsTable

(* A store puts its value under its key and touches no other. *)
LEMMA StorePuts ==
  ASSUME RInv, RInv', Store
  PROVE  Abs!Put(arg.key, arg.value)
<1> DEFINE k == arg.key
           i == SlotFor(k, cap, StoreStop(k))
           put == [x \in DOMAIN Content \cup {k} |->
                     IF x = k THEN arg.value ELSE Content[x]]
<1>1. /\ cap \in Nat /\ cap >= 1 /\ entries \in [Slots(cap) -> Slot]
      /\ k \in Keys /\ Stops(k, cap, StoreStop(k)) # {} /\ pc = "store"
      /\ cap' = cap /\ arg \in [op : {"set", "set_borrow"}, key : Keys, value : Vals]
      /\ ret' = <<"void">>
  BY StoreLoopEnds DEF RInv, IInv, TypeOK, Store
<1>2. i \in Slots(cap) /\ i \in StoreStop(k)
  BY <1>1, ProbeFirst
<1>3. ContentIsTable /\ ContentIsTable'
  <2>1. RInv' => ContentIsTable'
    BY ContentTable, PTL
  <2> QED BY <2>1, ContentTable
<1>4. /\ entries'[i].key = k /\ entries'[i].value = arg.value
      /\ \A j \in Slots(cap) : j # i => entries'[j] = entries[j]
      /\ entries[i].key = k \/ entries[i].key \notin Keys
  <2>1. CASE entries[i].key = k
    <3>1. entries' = [entries EXCEPT ![i].value = arg.value]
      BY <1>1, <2>1 DEF Store
    <3> QED BY <1>1, <1>2, <2>1, <3>1 DEF Slot
  <2>2. CASE entries[i].key # k
    <3>1. entries' = [entries EXCEPT ![i] = NewSlot]
      BY <1>1, <2>2 DEF Store
    <3>2. entries[i].key \notin Keys
      BY <1>2, <2>2, MapAssumption DEF StoreStop
    <3> QED BY <1>1, <1>2, <3>1, <3>2 DEF NewSlot
  <2> QED BY <2>1, <2>2
<1>5. /\ LiveSlots(entries', cap') = LiveSlots(entries, cap) \cup {i}
      /\ i \in LiveSlots(entries', cap')
      /\ \A j \in LiveSlots(entries, cap) : j # i => entries'[j] = entries[j]
      /\ \A j \in LiveSlots(entries, cap) : j = i => entries[j].key = k
  BY <1>1, <1>2, <1>4 DEF LiveSlots, Live
<1>6. \A j \in LiveSlots(entries, cap) : j # i => entries[j].key # k
  BY <1>1, StoreMeetsEntry
<1>7. DOMAIN Content' = DOMAIN put
  BY <1>3, <1>4, <1>5 DEF ContentIsTable
<1>8. ASSUME NEW x \in DOMAIN put PROVE Content'[x] = put[x]
  <2>1. CASE x = k
    BY <1>3, <1>4, <1>5, <2>1 DEF ContentIsTable
  <2>2. CASE x # k
    <3>1. PICK j \in LiveSlots(entries, cap) : entries[j].key = x
      BY <1>3, <2>2 DEF ContentIsTable
    <3>2. j # i /\ j \in LiveSlots(entries', cap') /\ entries'[j] = entries[j]
      BY <1>5, <2>2, <3>1
    <3>3. Content'[x] = entries[j].value /\ Content[x] = entries[j].value
      BY <1>3, <3>1, <3>2 DEF ContentIsTable
    <3> QED BY <2>2, <3>3
  <2> QED BY <2>1, <2>2
<1>9. Content' = put
  <2>1. Content' = [x \in DOMAIN Content' |-> Content'[x]]
    BY <1>3 DEF ContentIsTable
  <2> QED BY <1>7, <1>8, <2>1
<1> QED BY <1>1, <1>9 DEF Abs!Put, Abs!Void

(* len, the number tinox_map_len answers, is the number of keys. *)
LEMMA LenCountsKeys ==
  ASSUME RInv
  PROVE  len = Cardinality(DOMAIN Content)
<1> DEFINE L == LiveSlots(entries, cap)
           f == [i \in L |-> entries[i].key]
<1>1. ContentIsTable /\ len = Cardinality(L) /\ cap \in Nat
  BY ContentTable DEF RInv, IInv, TypeOK, LenCountsLive
<1>2. IsFiniteSet(L)
  BY <1>1, LiveFinite
<1>3. f \in [L -> DOMAIN Content]
  BY <1>1 DEF ContentIsTable
<1>4. \A a, b \in L : f[a] = f[b] => a = b
  BY DEF RInv, Unique
<1>5. \A k \in DOMAIN Content : \E a \in L : f[a] = k
  BY <1>1 DEF ContentIsTable
<1> QED BY <1>1, <1>2, <1>3, <1>4, <1>5, OneToOneCount

(* An empty table stands for the empty map. *)
LEMMA EmptyContent ==
  ASSUME NEW f, DOMAIN f = {}, f = [x \in DOMAIN f |-> f[x]]
  PROVE  f = << >>
OBVIOUS

(* Every call is a call of the abstract map or, when it only moves entries *)
(* around, no step of it at all.                                           *)
LEMMA NextImplements ==
  ASSUME RInv, RInv', "remove" \notin Ops, [Next]_vars
  PROVE  [Abs!Next]_Abs!vars
<1>0. IInv /\ Spare /\ NoTombs /\ ContentIsTable
  BY ContentTable DEF RInv
<1>1. ASSUME NEW k \in Keys, NEW v \in Vals, NEW op \in {"set", "set_borrow"},
             BeginStore(op, k, v)
      PROVE  UNCHANGED Abs!vars
  <2>1. UNCHANGED <<cap, entries, ret>>
    BY <1>1 DEF BeginStore, table
  <2> QED BY <2>1, SameTableSameContent DEF Abs!vars
<1>2. ASSUME NEW k \in Keys, Get(k) PROVE Abs!Get(k)
  <2>1. UNCHANGED <<cap, entries>> /\ ret' = <<"get", Lookup(k)>>
    BY <1>0, <1>2, EmptySlotEndsLookups DEF Get, Read, table
  <2>2. Lookup(k) = IF k \in DOMAIN Content THEN Content[k] ELSE 0
    BY DEF Content, Lookup
  <2> QED BY <2>1, <2>2, SameTableSameContent DEF Abs!Get, Abs!Answers, Abs!Missing
<1>3. ASSUME NEW k \in Keys, Contains(k) PROVE Abs!Has(k)
  <2>1. UNCHANGED <<cap, entries>> /\ ret' = <<"contains", Found(k)>>
    BY <1>0, <1>3, EmptySlotEndsLookups DEF Contains, Read, table
  <2>2. Found(k) = (k \in DOMAIN Content)
    BY DEF Content, Found
  <2> QED BY <2>1, <2>2, SameTableSameContent DEF Abs!Has, Abs!Answers
<1>4. ASSUME NEW k \in Keys, Remove(k) PROVE FALSE
  BY <1>4 DEF Remove
<1>5. CASE RehashStep
  <2>1. UNCHANGED <<cap, entries, ret>>
    BY <1>5 DEF RehashStep, table
  <2> QED BY <2>1, SameTableSameContent DEF Abs!vars
<1>6. CASE RehashDone
  <2>1. UNCHANGED ret
    BY <1>6 DEF RehashDone
  <2> QED BY <1>6, <2>1, RehashKeepsContent DEF Abs!vars
<1>7. CASE Store
  <2>1. arg.key \in Keys /\ arg.value \in Vals
    BY <1>0, <1>7 DEF Store, IInv, TypeOK
  <2> QED BY <1>7, <2>1, StorePuts DEF Abs!Next
<1>8. CASE Len
  <2>1. UNCHANGED <<cap, entries>> /\ ret' = <<"len", len>>
    BY <1>8 DEF Len, table
  <2>2. Abs!Cardinality(DOMAIN Content) = Cardinality(DOMAIN Content)
    BY Zenon DEF Abs!Cardinality, Cardinality
  <2>3. Abs!Size
    BY <2>1, <2>2, LenCountsKeys, SameTableSameContent DEF Abs!Size, Abs!Answers
  <2> QED BY <2>3 DEF Abs!Next
<1>9. CASE Entries
  <2>1. /\ UNCHANGED <<cap, entries>>
        /\ ret' = <<"entries", {<<entries[i].key, entries[i].value>> :
                                   i \in LiveSlots(entries, cap)}>>
    BY <1>9 DEF Entries, table
  <2>2. {<<entries[i].key, entries[i].value>> : i \in LiveSlots(entries, cap)}
          = {<<k, Content[k]>> : k \in DOMAIN Content}
    BY <1>0 DEF ContentIsTable
  <2>3. Abs!Enumerate
    BY <2>1, <2>2, SameTableSameContent DEF Abs!Enumerate, Abs!Answers
  <2> QED BY <2>3 DEF Abs!Next
<1>10. CASE Reset
  <2>1. LiveSlots(entries', cap') = {} /\ ret' = <<"void">>
    BY <1>10, MapAssumption DEF Reset, LiveSlots, Live, Blank, EmptySlot
  <2>2. ContentIsTable'
    <3>1. RInv' => ContentIsTable'
      BY ContentTable, PTL
    <3> QED BY <3>1
  <2>3. DOMAIN Content' = {} /\ Content' = [x \in DOMAIN Content' |-> Content'[x]]
    BY <2>1, <2>2 DEF ContentIsTable
  <2>4. Content' = << >>
    BY <2>3, EmptyContent
  <2>5. Abs!Clear
    BY <2>1, <2>4 DEF Abs!Clear, Abs!Void
  <2> QED BY <2>5 DEF Abs!Next
<1>11. CASE Free
  <2>1. UNCHANGED <<cap, entries, ret>>
    BY <1>11 DEF Free
  <2> QED BY <2>1, SameTableSameContent DEF Abs!vars
<1>12. CASE UNCHANGED vars
  <2>1. UNCHANGED <<cap, entries, ret>>
    BY <1>12 DEF vars
  <2> QED BY <2>1, SameTableSameContent DEF Abs!vars
<1>13. ASSUME NEW k \in Keys, Abs!Get(k) \/ Abs!Has(k) PROVE Abs!Next
  BY <1>13 DEF Abs!Next
<1> QED
  BY <1>1, <1>2, <1>3, <1>4, <1>5, <1>6, <1>7, <1>8, <1>9, <1>10, <1>11, <1>12, <1>13 DEF Next

(* The hash table implements the finite map its user sees: gets, contains, *)
(* len, keys and values answer as that map would, and map_rehash, which    *)
(* moves every entry, is invisible.                                        *)
THEOREM TableImplementsMap ==
  ASSUME "remove" \notin Ops
  PROVE  Spec => ImplementsMap
<1>1. Init => RInv
  BY InitRInv
<1>2. RInv /\ [Next]_vars => RInv'
  BY NextRInv
<1>3. Init => Abs!Init
  <2> SUFFICES ASSUME Init PROVE Abs!Init
    OBVIOUS
  <2>1. ContentIsTable
    BY InitRInv, ContentTable
  <2>2. LiveSlots(entries, cap) = {} /\ ret = <<"void">>
    BY MapAssumption DEF Init, LiveSlots, Live, Blank, EmptySlot
  <2>3. DOMAIN Content = {} /\ Content = [x \in DOMAIN Content |-> Content[x]]
    BY <2>1, <2>2 DEF ContentIsTable
  <2>4. Content = << >>
    BY <2>3, EmptyContent
  <2> QED BY <2>2, <2>4 DEF Abs!Init, Abs!Void
<1>4. RInv /\ RInv' /\ [Next]_vars => [Abs!Next]_Abs!vars
  BY NextImplements
<1> QED BY <1>1, <1>2, <1>3, <1>4, PTL DEF Spec, ImplementsMap, Abs!Spec
=============================================================================
