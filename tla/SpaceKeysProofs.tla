-------------------------- MODULE SpaceKeysProofs --------------------------
(***************************************************************************)
(* The key table for every number of slots, addresses and keys: its slots  *)
(* stay in order, it implements the map of KeyMap under every fault, and,  *)
(* managed the way sync_central.py manages it, it is exactly the store.    *)
(***************************************************************************)
EXTENDS SpaceKeys, FiniteSetTheorems, WellFoundedInduction, TLAPS

-----------------------------------------------------------------------------
(* Searching.                                                              *)

\* The search finds the first of a set of slots: a set of naturals has a
\* least element, because finite sets have no infinite descent.
LEMMA FirstFact ==
  ASSUME NEW S \in SUBSET Nat, S # {}
  PROVE  First(S) \in S
<1> DEFINE Below(x) == S \cap 0..x
           T        == {Below(x) : x \in S}
<1>1. T \subseteq FiniteSubsetsOf(S) /\ T # {}
  <2>1. \A x \in S : IsFiniteSet(0..x)
    BY FS_Interval
  <2>2. \A x \in S : IsFiniteSet(Below(x))
    BY <2>1, FS_Subset
  <2> QED BY <2>2 DEF FiniteSubsetsOf
<1>2. PICK U \in T : \A V \in T : ~ (<<V, U>> \in StrictSubsetOrdering(S))
  <2> HIDE DEF T
  <2> QED BY <1>1, FS_StrictSubsetOrderingWellFounded, WFMin
<1>3. PICK x \in S : U = Below(x)
  BY <1>2
<1>4. \A y \in S : x <= y
  <2> SUFFICES ASSUME NEW y \in S, y < x PROVE FALSE
    OBVIOUS
  <2>1. Below(y) \subseteq Below(x) /\ Below(y) # Below(x)
    <3>1. x \in Below(x) /\ x \notin Below(y)
      OBVIOUS
    <3> QED BY <3>1
  <2>2. <<Below(y), U>> \in StrictSubsetOrdering(S)
    BY <1>3, <2>1 DEF StrictSubsetOrdering
  <2> QED BY <1>2, <2>2
<1> QED
  BY <1>4 DEF First

\* What a search for an address says about the table, slot by slot.
LEMMA LookupFact ==
  IInv => \A a \in Addrs :
    \/ /\ spacekey_lookup(a) \in Slot /\ spacekey_lookup(a) # NULL
       /\ keys[spacekey_lookup(a)].addr = a
       /\ KeyOf(a) = keys[spacekey_lookup(a)].key /\ KeyOf(a) # NoKey
    \/ /\ spacekey_lookup(a) = NULL /\ KeyOf(a) = NoKey
       /\ \A i \in Slot : keys[i].addr # a
<1> SUFFICES ASSUME IInv, NEW a \in Addrs
             PROVE  \/ /\ spacekey_lookup(a) \in Slot /\ spacekey_lookup(a) # NULL
                       /\ keys[spacekey_lookup(a)].addr = a
                       /\ KeyOf(a) = keys[spacekey_lookup(a)].key
                       /\ KeyOf(a) # NoKey
                    \/ /\ spacekey_lookup(a) = NULL /\ KeyOf(a) = NoKey
                       /\ \A i \in Slot : keys[i].addr # a
  OBVIOUS
<1>1. 0..largest_index_used \subseteq Slot /\ Slot \subseteq Nat /\ NULL \notin Slot
  BY SizeAssumption DEF IInv, TypeOK, Slot, NULL
<1>2. a # NoAddr
  BY AddrAssumption
<1>3. CASE Hits(a) = {}
  <2>1. \A i \in Slot : keys[i].addr # a
    BY <1>1, <1>2, <1>3 DEF Hits, IInv, SlotsInOrder, Slot
  <2> QED BY <1>3, <2>1 DEF spacekey_lookup, KeyOf
<1>4. CASE Hits(a) # {}
  <2>1. Hits(a) \in SUBSET Nat
    BY <1>1 DEF Hits
  <2>2. First(Hits(a)) \in Hits(a)
    BY <1>4, <2>1, FirstFact
  <2>3. spacekey_lookup(a) \in Slot /\ keys[spacekey_lookup(a)].addr = a
    BY <1>1, <1>4, <2>2 DEF spacekey_lookup, Hits
  <2>4. keys[spacekey_lookup(a)].key # NoKey
    BY <1>2, <2>3 DEF IInv, SlotsInOrder
  <2> QED BY <1>1, <2>3, <2>4 DEF KeyOf
<1> QED
  BY <1>3, <1>4

\* The key of an address is in one of its slots, if it has one.
LEMMA KeyFact ==
  IInv => \A a \in Addrs :
    \/ \E i \in Slot : keys[i].addr = a /\ KeyOf(a) = keys[i].key
    \/ KeyOf(a) = NoKey /\ \A i \in Slot : keys[i].addr # a
BY LookupFact

\* The same about the next state.
LEMMA KeyFactNext ==
  (IInv => \A a \in Addrs :
    \/ \E i \in Slot : keys[i].addr = a /\ KeyOf(a) = keys[i].key
    \/ KeyOf(a) = NoKey /\ \A i \in Slot : keys[i].addr # a)'
BY KeyFact, PTL

\* Where spacekey_lookup_add puts an address: nowhere if the table is full of
\* others, in its slot if it has one, else in a free slot.
LEMMA SlotFact ==
  ASSUME IInv, NEW a \in Addrs
  PROVE  \/ /\ spacekey_lookup_add(a) = NULL
            /\ KeyOf(a) = NoKey /\ Free = {}
         \/ /\ spacekey_lookup_add(a) \in Slot /\ spacekey_lookup_add(a) # NULL
            /\ keys[spacekey_lookup_add(a)].addr = a
            /\ KeyOf(a) = keys[spacekey_lookup_add(a)].key /\ KeyOf(a) # NoKey
         \/ /\ spacekey_lookup_add(a) \in Slot /\ spacekey_lookup_add(a) # NULL
            /\ keys[spacekey_lookup_add(a)].addr = NoAddr
            /\ KeyOf(a) = NoKey /\ Free # {}
<1>1. CASE spacekey_lookup(a) # NULL
  BY <1>1, LookupFact DEF spacekey_lookup_add
<1>2. CASE spacekey_lookup(a) = NULL /\ Free = {}
  BY <1>2, LookupFact DEF spacekey_lookup_add
<1>3. CASE spacekey_lookup(a) = NULL /\ Free # {}
  <2>1. Free \in SUBSET Nat /\ NULL \notin Free
    BY SizeAssumption DEF Free, Slot, NULL
  <2>2. First(Free) \in Free
    BY <1>3, <2>1, FirstFact
  <2> QED BY <1>3, <2>1, <2>2, LookupFact DEF spacekey_lookup_add, Free
<1> QED
  BY <1>1, <1>2, <1>3

-----------------------------------------------------------------------------
(* What the operations do to the table: one slot, which is a's or free,    *)
(* becomes e, whose address is a or none.                                  *)

Written(a, e) ==
  \E i \in Slot :
    /\ keys' = [keys EXCEPT ![i] = e]
    /\ e \in Entry /\ e.addr \in {a, NoAddr}
    /\ e.addr = a => e.key # NoKey /\ i <= largest_index_used'
    /\ keys[i].addr \in {a, NoAddr}
    /\ keys[i].addr = NoAddr => KeyOf(a) = NoKey
    /\ largest_index_used' \in Slot /\ largest_index_used <= largest_index_used'

\* Changing one field of a slot.
LEMMA FieldFact ==
  ASSUME NEW e \in Entry
  PROVE  /\ \A x : [e EXCEPT !.addr = x] = [addr |-> x, key |-> e.key]
         /\ \A x : [e EXCEPT !.key = x] = [addr |-> e.addr, key |-> x]
BY DEF Entry

\* Claiming a slot raises the bound of the searches to it.
LEMMA ClaimFact ==
  ASSUME IInv, NEW i \in Slot, Claim(i)
  PROVE  /\ largest_index_used' \in Slot
         /\ largest_index_used <= largest_index_used' /\ i <= largest_index_used'
BY SizeAssumption DEF IInv, TypeOK, Slot, Claim

\* An addition or a deletion of no address changes nothing.
LEMMA NoAddrFact ==
  ASSUME spacekey_del(NoAddr) \/ \E k \in Keys : spacekey_add(NoAddr, k)
  PROVE  /\ UNCHANGED <<keys, largest_index_used, store, todo, loaded>>
         /\ result' = "EINVAL"
BY DEF spacekey_add, spacekey_del

\* An addition that finds room writes the new key.
LEMMA AddWrites ==
  ASSUME IInv, NEW a \in Addrs, NEW k \in Keys, spacekey_add(a, k),
         spacekey_lookup_add(a) # NULL
  PROVE  Written(a, [addr |-> a, key |-> k])
<1> DEFINE i == spacekey_lookup_add(a)
<1>1. i \in Slot /\ keys[i].addr \in {a, NoAddr}
      /\ (keys[i].addr = NoAddr => KeyOf(a) = NoKey)
  BY SlotFact, AddrAssumption
<1>2. keys' = [keys EXCEPT ![i] = [addr |-> a, key |-> k]] /\ Claim(i)
  BY AddrAssumption DEF spacekey_add
<1>3. [addr |-> a, key |-> k] \in Entry /\ k # NoKey
  BY ValueAssumption DEF Entry
<1> HIDE DEF i
<1> QED
  BY <1>1, <1>2, <1>3, ClaimFact DEF Written

\* A deletion that finds the address clears the address of its slot.
LEMMA DelWrites ==
  ASSUME IInv, NEW a \in Addrs, spacekey_del(a), spacekey_lookup(a) # NULL
  PROVE  /\ \E k : Written(a, [addr |-> NoAddr, key |-> k])
         /\ KeyOf(a) # NoKey
<1> DEFINE i == spacekey_lookup(a)
<1>1. i \in Slot /\ keys[i].addr = a /\ KeyOf(a) # NoKey
  BY LookupFact
<1>2. keys' = [keys EXCEPT ![i].addr = NoAddr] /\ UNCHANGED largest_index_used
  BY AddrAssumption DEF spacekey_del
<1>3. keys[i] \in Entry /\ keys \in [Slot -> Entry]
  BY <1>1 DEF IInv, TypeOK
<1> HIDE DEF i
<1>4. [addr |-> NoAddr, key |-> keys[i].key] \in Entry
  BY <1>3 DEF Entry
<1>5. keys' = [keys EXCEPT ![i] = [addr |-> NoAddr, key |-> keys[i].key]]
  BY <1>2, <1>3, FieldFact
<1>6. largest_index_used \in Slot /\ largest_index_used <= largest_index_used
  BY SizeAssumption DEF IInv, TypeOK, Slot
<1> QED
  BY <1>1, <1>2, <1>4, <1>5, <1>6, AddrAssumption DEF Written

\* A delivered record that finds room writes its key, frees the slot, or,
\* when it cannot be read, leaves or spoils the key in it.
LEMMA SetWrites ==
  ASSUME IInv, NEW a \in Addrs, space_settings_set(a), spacekey_lookup_add(a) # NULL
  PROVE  \/ store[a] \in Keys /\ Written(a, [addr |-> a, key |-> store[a]])
         \/ store[a] \notin Keys /\ \E k : Written(a, [addr |-> NoAddr, key |-> k])
         \/ /\ "read" \in Faults /\ KeyOf(a) = NoKey
            /\ \E k : Written(a, [addr |-> NoAddr, key |-> k])
         \/ /\ "read" \in Faults /\ KeyOf(a) # NoKey
            /\ \E k \in {KeyOf(a), BadKey} : Written(a, [addr |-> a, key |-> k])
<1> DEFINE i == spacekey_lookup_add(a)
<1>1. i \in Slot /\ keys[i].addr \in {a, NoAddr}
      /\ (keys[i].addr = NoAddr <=> KeyOf(a) = NoKey)
      /\ (keys[i].addr = a => KeyOf(a) = keys[i].key /\ KeyOf(a) # NoKey)
  BY SlotFact, AddrAssumption
<1>2. ReadRecord(a, i) /\ Claim(i)
  BY DEF space_settings_set
<1>3. keys[i] \in Entry /\ keys \in [Slot -> Entry]
  BY <1>1 DEF IInv, TypeOK
<1>4. /\ largest_index_used' \in Slot
      /\ largest_index_used <= largest_index_used' /\ i <= largest_index_used'
  BY <1>1, <1>2, ClaimFact
<1> HIDE DEF i
<1>5. ASSUME store[a] = Deleted, keys' = [keys EXCEPT ![i].addr = NoAddr]
      PROVE  store[a] \notin Keys /\ Written(a, [addr |-> NoAddr, key |-> keys[i].key])
  <2>1. [addr |-> NoAddr, key |-> keys[i].key] \in Entry
    BY <1>3 DEF Entry
  <2>2. keys' = [keys EXCEPT ![i] = [addr |-> NoAddr, key |-> keys[i].key]]
    BY <1>3, <1>5, FieldFact
  <2> QED BY <1>1, <1>4, <1>5, <2>1, <2>2, AddrAssumption, ValueAssumption DEF Written
<1>6. ASSUME "read" \in Faults, NEW k \in {keys[i].key, BadKey},
             keys' = [keys EXCEPT ![i].key = k]
      PROVE  Written(a, [addr |-> keys[i].addr, key |-> k])
  <2>1. [addr |-> keys[i].addr, key |-> k] \in Entry
    BY <1>3 DEF Entry
  <2>2. keys' = [keys EXCEPT ![i] = [addr |-> keys[i].addr, key |-> k]]
    BY <1>3, <1>6, FieldFact
  <2>3. keys[i].addr = a => k # NoKey
    BY <1>1, ValueAssumption
  <2> QED BY <1>1, <1>4, <2>1, <2>2, <2>3, AddrAssumption DEF Written
<1>7. ASSUME store[a] \in Keys,
             keys' = [keys EXCEPT ![i] = [addr |-> a, key |-> store[a]]]
      PROVE  Written(a, [addr |-> a, key |-> store[a]])
  <2>1. [addr |-> a, key |-> store[a]] \in Entry /\ store[a] # NoKey
    BY <1>7, ValueAssumption DEF Entry
  <2> QED BY <1>1, <1>4, <1>7, <2>1, AddrAssumption DEF Written
<1>8. keys[i].addr = IF KeyOf(a) = NoKey THEN NoAddr ELSE a
  BY <1>1
<1>9. CASE "read" \in Faults
           /\ \E k \in {keys[i].key, BadKey} : keys' = [keys EXCEPT ![i].key = k]
  <2>1. PICK k \in {keys[i].key, BadKey} : keys' = [keys EXCEPT ![i].key = k]
    BY <1>9
  <2>2. Written(a, [addr |-> keys[i].addr, key |-> k])
    BY <1>6, <1>9, <2>1
  <2>3. CASE KeyOf(a) = NoKey
    BY <1>8, <1>9, <2>2, <2>3
  <2>4. CASE KeyOf(a) # NoKey
    BY <1>1, <1>8, <1>9, <2>1, <2>2, <2>4
  <2> QED BY <2>3, <2>4
<1> QED
  BY <1>2, <1>5, <1>7, <1>9 DEF ReadRecord

-----------------------------------------------------------------------------
(* The slots stay in order.                                                *)

\* Writing one slot keeps the slots in order.
LEMMA WrittenInOrder ==
  ASSUME IInv, NEW a \in Addrs, NEW e, Written(a, e)
  PROVE  /\ keys' \in [Slot -> Entry] /\ largest_index_used' \in Slot
         /\ SlotsInOrder'
<1>1. PICK i \in Slot :
        /\ keys' = [keys EXCEPT ![i] = e]
        /\ e \in Entry /\ e.addr \in {a, NoAddr}
        /\ e.addr = a => e.key # NoKey /\ i <= largest_index_used'
        /\ keys[i].addr \in {a, NoAddr}
        /\ keys[i].addr = NoAddr => KeyOf(a) = NoKey
        /\ largest_index_used' \in Slot /\ largest_index_used <= largest_index_used'
  BY DEF Written
<1>2. keys \in [Slot -> Entry] /\ largest_index_used \in Slot
  BY DEF IInv, TypeOK
<1>3. \A j \in Slot : keys'[j] = IF j = i THEN e ELSE keys[j]
  BY <1>1, <1>2
<1>4. \A j \in Slot \ {i} : keys[j].addr # a
  <2>1. CASE keys[i].addr = a
    BY <2>1, AddrAssumption DEF IInv, SlotsInOrder
  <2>2. CASE keys[i].addr = NoAddr
    <3>1. KeyOf(a) = NoKey
      BY <1>1, <2>2
    <3> QED BY <3>1, LookupFact
  <2> QED BY <1>1, <2>1, <2>2
<1>5. Slot \subseteq Nat
  BY SizeAssumption DEF Slot
<1>6. ASSUME NEW j \in Slot, keys'[j].addr # NoAddr
      PROVE  j <= largest_index_used' /\ keys'[j].key # NoKey
  <2>1. CASE j = i
    BY <1>1, <1>3, <1>6, <2>1
  <2>2. CASE j # i
    <3>1. keys[j].addr # NoAddr
      BY <1>3, <1>6, <2>2
    <3>2. j <= largest_index_used /\ keys[j].key # NoKey
      BY <3>1 DEF IInv, SlotsInOrder
    <3> QED BY <1>1, <1>2, <1>3, <1>5, <2>2, <3>2
  <2> QED BY <2>1, <2>2
<1>7. ASSUME NEW j \in Slot, keys'[j].addr # NoAddr,
             NEW m \in Slot, keys'[m].addr = keys'[j].addr
      PROVE  m = j
  <2>1. CASE j = i
    BY <1>1, <1>3, <1>4, <1>7, <2>1
  <2>2. CASE m = i
    BY <1>1, <1>3, <1>4, <1>7, <2>2
  <2>3. CASE j # i /\ m # i
    BY <1>3, <1>7, <2>3 DEF IInv, SlotsInOrder
  <2> QED BY <2>1, <2>2, <2>3
<1>8. keys' \in [Slot -> Entry]
  BY <1>1, <1>2
<1> QED
  BY <1>1, <1>6, <1>7, <1>8 DEF SlotsInOrder

\* The table after a reset.
LEMMA WipedInOrder ==
  ASSUME reboot
  PROVE  /\ keys' \in [Slot -> Entry] /\ largest_index_used' \in Slot
         /\ SlotsInOrder'
<1>1. 0 \in Slot
  BY SizeAssumption DEF Slot
<1>2. [addr |-> NoAddr, key |-> NoKey] \in Entry
  BY DEF Entry
<1> QED
  BY <1>1, <1>2 DEF reboot, SlotsInOrder

\* The table is empty when main starts.
LEMMA InitInv == Init => IInv
<1> SUFFICES ASSUME Init PROVE IInv
  OBVIOUS
<1>1. 0 \in Slot
  BY SizeAssumption DEF Slot
<1>2. [addr |-> NoAddr, key |-> NoKey] \in Entry
  BY DEF Entry
<1> QED
  BY <1>1, <1>2 DEF Init, IInv, TypeOK, SlotsInOrder

\* Every operation keeps the slots in order.
LEMMA NextInv ==
  ASSUME IInv, [Next]_vars
  PROVE  IInv'
<1>1. ASSUME NEW a \in Addrs, NEW k \in Keys, spacekey_add(a, k)
      PROVE  IInv'
  <2>1. CASE spacekey_lookup_add(a) = NULL
    BY <1>1, <2>1 DEF spacekey_add, IInv, TypeOK, SlotsInOrder
  <2>2. CASE spacekey_lookup_add(a) # NULL
    <3>1. /\ keys' \in [Slot -> Entry] /\ largest_index_used' \in Slot
          /\ SlotsInOrder'
      BY <1>1, <2>2, AddWrites, WrittenInOrder
    <3>2. store' \in [Addrs -> Keys \cup {NoKey, Deleted}] /\ result' = "ok"
          /\ UNCHANGED <<todo, loaded>> /\ todo = {}
      BY <1>1, <2>2, AddrAssumption DEF spacekey_add, SaveRecord, IInv, TypeOK
    <3> QED BY <3>1, <3>2 DEF IInv, TypeOK
  <2> QED BY <2>1, <2>2
<1>2. ASSUME NEW a \in Addrs, spacekey_del(a)
      PROVE  IInv'
  <2>1. CASE spacekey_lookup(a) = NULL
    BY <1>2, <2>1 DEF spacekey_del, IInv, TypeOK, SlotsInOrder
  <2>2. CASE spacekey_lookup(a) # NULL
    <3>1. /\ keys' \in [Slot -> Entry] /\ largest_index_used' \in Slot
          /\ SlotsInOrder'
      BY <1>2, <2>2, DelWrites, WrittenInOrder
    <3>2. store' \in [Addrs -> Keys \cup {NoKey, Deleted}] /\ result' = "ok"
          /\ UNCHANGED <<todo, loaded>> /\ todo = {}
      BY <1>2, <2>2, AddrAssumption
         DEF spacekey_del, settings_delete, SaveRecord, IInv, TypeOK
    <3> QED BY <3>1, <3>2 DEF IInv, TypeOK
  <2> QED BY <2>1, <2>2
<1>3. CASE settings_load
  <2>1. todo' \subseteq {a \in Addrs : store'[a] # NoKey}
    BY <1>3, ValueAssumption DEF settings_load
  <2> QED BY <1>3, <2>1 DEF settings_load, IInv, TypeOK, SlotsInOrder
<1>4. ASSUME NEW a \in Addrs, space_settings_set(a)
      PROVE  IInv'
  <2>1. todo' \subseteq todo /\ loaded' \in BOOLEAN /\ UNCHANGED <<store, result>>
    BY <1>4 DEF space_settings_set, IInv, TypeOK
  <2>2. /\ keys' \in [Slot -> Entry] /\ largest_index_used' \in Slot
        /\ SlotsInOrder'
    <3>1. CASE spacekey_lookup_add(a) = NULL
      BY <1>4, <3>1 DEF space_settings_set, IInv, TypeOK, SlotsInOrder
    <3>2. CASE spacekey_lookup_add(a) # NULL
      BY <1>4, <3>2, SetWrites, WrittenInOrder
    <3> QED BY <3>1, <3>2
  <2> QED BY <2>1, <2>2 DEF IInv, TypeOK
<1>5. CASE sys_reboot \/ \E failed \in EraseFails : cmd_settings_clear(failed)
  <2>1. reboot
    BY <1>5 DEF sys_reboot, cmd_settings_clear
  <2>2. store' \in [Addrs -> Keys \cup {NoKey, Deleted}]
    BY <1>5 DEF sys_reboot, cmd_settings_clear, IInv, TypeOK
  <2> QED BY <2>1, <2>2, WipedInOrder DEF reboot, IInv, TypeOK
<1>6. CASE UNCHANGED vars
  BY <1>6 DEF vars, IInv, TypeOK, SlotsInOrder
<1>7. CASE spacekey_del(NoAddr) \/ \E k \in Keys : spacekey_add(NoAddr, k)
  BY <1>7, NoAddrFact DEF IInv, TypeOK, SlotsInOrder
<1> QED
  BY <1>1, <1>2, <1>3, <1>4, <1>5, <1>6, <1>7 DEF Next, Commands, Storage

\* The slots stay in order in every execution, whatever fails.
THEOREM SlotsStayInOrder == Spec => []SlotsInOrder
<1>1. Spec => []IInv
  BY InitInv, NextInv, PTL DEF Spec
<1>2. IInv => SlotsInOrder
  BY DEF IInv
<1> QED
  BY <1>1, <1>2, PTL

\* Every variable of the table keeps its range.
THEOREM TableTypeCorrect == Spec => []TypeOK
<1>1. Spec => []IInv
  BY InitInv, NextInv, PTL DEF Spec
<1>2. IInv => TypeOK
  BY DEF IInv
<1> QED
  BY <1>1, <1>2, PTL

-----------------------------------------------------------------------------
(* The keys the slots stand for.                                           *)

\* Writing one slot changes the key of one address.
LEMMA WrittenKeys ==
  ASSUME IInv, IInv', NEW a \in Addrs, NEW e, Written(a, e)
  PROVE  /\ KeyOf(a)' = IF e.addr = a THEN e.key ELSE NoKey
         /\ \A b \in Addrs \ {a} : KeyOf(b)' = KeyOf(b)
<1>1. PICK i \in Slot :
        /\ keys' = [keys EXCEPT ![i] = e]
        /\ e \in Entry /\ e.addr \in {a, NoAddr}
        /\ keys[i].addr \in {a, NoAddr}
        /\ keys[i].addr = NoAddr => KeyOf(a) = NoKey
  BY DEF Written
<1>2. keys \in [Slot -> Entry] /\ keys' \in [Slot -> Entry]
  BY DEF IInv, TypeOK
<1>3. \A j \in Slot : keys'[j] = IF j = i THEN e ELSE keys[j]
  BY <1>1, <1>2
<1>4. \A j \in Slot \ {i} : keys[j].addr # a
  <2>1. CASE keys[i].addr = a
    BY <2>1, AddrAssumption DEF IInv, SlotsInOrder
  <2>2. CASE keys[i].addr = NoAddr
    BY <1>1, <2>2, LookupFact
  <2> QED BY <1>1, <2>1, <2>2
<1>5. a # NoAddr
  BY AddrAssumption
<1>6. \A b \in Addrs :
        \/ \E j \in Slot : keys'[j].addr = b /\ KeyOf(b)' = keys'[j].key
        \/ KeyOf(b)' = NoKey /\ \A j \in Slot : keys'[j].addr # b
  BY KeyFactNext
<1>7. KeyOf(a)' = IF e.addr = a THEN e.key ELSE NoKey
  BY <1>1, <1>3, <1>4, <1>5, <1>6
<1>8. ASSUME NEW b \in Addrs \ {a}
      PROVE  KeyOf(b)' = KeyOf(b)
  <2>1. b # NoAddr /\ b # a
    BY AddrAssumption
  <2>2. \A j \in Slot : keys'[j].addr = b <=> keys[j].addr = b
    BY <1>1, <1>3, <2>1
  <2>3. \A j \in Slot : keys[j].addr = b => j # i
    BY <1>1, <2>1
  <2>4. CASE \A j \in Slot : keys[j].addr # b
    BY <1>6, <2>2, <2>4, KeyFact
  <2>5. CASE \E j \in Slot : keys[j].addr = b
    <3>1. PICK j \in Slot : keys[j].addr = b
      BY <2>5
    <3>2. KeyOf(b) = keys[j].key
      BY <2>1, <3>1, KeyFact DEF IInv, SlotsInOrder
    <3>3. KeyOf(b)' = keys'[j].key
      <4>1. PICK m \in Slot : keys'[m].addr = b /\ KeyOf(b)' = keys'[m].key
        BY <1>6, <2>2, <3>1
      <4>2. m = j
        BY <2>1, <2>2, <3>1, <4>1 DEF IInv, SlotsInOrder
      <4> QED BY <4>1, <4>2
    <3> QED BY <1>3, <2>3, <3>1, <3>2, <3>3
  <2> QED BY <2>4, <2>5
<1> QED
  BY <1>7, <1>8

\* A table that is left alone has the same keys.
LEMMA KeptKeys ==
  ASSUME UNCHANGED <<keys, largest_index_used>>
  PROVE  \A a \in Addrs : KeyOf(a)' = KeyOf(a)
BY DEF KeyOf, spacekey_lookup, Hits

\* An empty table has no keys.
LEMMA WipedKeys ==
  ASSUME IInv', reboot
  PROVE  \A a \in Addrs : KeyOf(a)' = NoKey
<1>1. \A i \in Slot : keys'[i].addr = NoAddr
  BY DEF reboot
<1> QED
  BY <1>1, KeyFactNext, AddrAssumption

-----------------------------------------------------------------------------
(* The table implements the map.                                           *)

Known == {a \in Addrs : KeyOf(a) # NoKey}

\* The addresses with a key are as many as the used slots.
LEMMA KnownSlots ==
  ASSUME IInv
  PROVE  /\ IsFiniteSet(Known) /\ Cardinality(Known) \in Nat
         /\ Cardinality({i \in Slot : keys[i].addr # NoAddr}) = Cardinality(Known)
<1> DEFINE Used == {i \in Slot : keys[i].addr # NoAddr}
           f    == [a \in Known |-> spacekey_lookup(a)]
<1>1. IsFiniteSet(Slot) /\ Cardinality(Slot) = MaxPaired
  BY SizeAssumption, FS_Interval DEF Slot
<1>2. IsFiniteSet(Known) /\ IsFiniteSet(Used)
  BY <1>1, AddrAssumption, FS_Subset DEF Known
<1>3. f \in Bijection(Known, Used)
  <2>1. \A a \in Known : spacekey_lookup(a) \in Slot /\ keys[spacekey_lookup(a)].addr = a
    BY LookupFact DEF Known
  <2>2. f \in [Known -> Used]
    BY <2>1, AddrAssumption DEF Known
  <2>3. \A a, b \in Known : f[a] = f[b] => a = b
    BY <2>1
  <2>4. ASSUME NEW i \in Used
        PROVE  \E a \in Known : f[a] = i
    <3>1. keys[i].addr \in Addrs
      BY DEF IInv, TypeOK, Entry
    <3>2. KeyOf(keys[i].addr) # NoKey
      BY <3>1, LookupFact
    <3>3. keys[i].addr \in Known
      BY <3>1, <3>2 DEF Known
    <3>4. spacekey_lookup(keys[i].addr) = i
      BY <2>1, <3>3 DEF IInv, SlotsInOrder
    <3> QED BY <3>3, <3>4
  <2> HIDE DEF f
  <2> QED BY <2>2, <2>3, <2>4 DEF Bijection, Injection, Surjection, IsInjective
<1>4. Cardinality(Used) = Cardinality(Known)
  BY <1>2, <1>3, FS_Bijection DEF ExistsBijection
<1>5. Cardinality(Known) \in Nat
  BY <1>2, FS_CardinalityType
<1> QED
  BY <1>2, <1>4, <1>5

\* So the table is full exactly when the map is.
LEMMA KnownFact ==
  ASSUME IInv
  PROVE  /\ IsFiniteSet(Known) /\ Cardinality(Known) \in Nat
         /\ Free = {} => Cardinality(Known) = MaxPaired
         /\ Free # {} => Cardinality(Known) < MaxPaired
<1> DEFINE Used == {i \in Slot : keys[i].addr # NoAddr}
<1>1. IsFiniteSet(Slot) /\ Cardinality(Slot) = MaxPaired
  BY SizeAssumption, FS_Interval DEF Slot
<1>2. Used \subseteq Slot /\ (Free = {} <=> Used = Slot)
  BY DEF Free
<1>3. Cardinality(Used) <= Cardinality(Slot) /\ (Cardinality(Used) = Cardinality(Slot) => Used = Slot)
  BY <1>1, <1>2, FS_Subset
<1>4. Cardinality(Used) = Cardinality(Known)
  BY KnownSlots
<1> HIDE DEF Used
<1> QED
  BY <1>1, <1>2, <1>3, <1>4, KnownSlots, SizeAssumption

\* What the map of KeyMap is in terms of the table.
LEMMA MapFact ==
  ASSUME IInv
  PROVE  /\ Map!Present = Known
         /\ \A a \in Addrs : Map!Room(a) <=> KeyOf(a) # NoKey \/ Free # {}
<1>1. Map!Present = Known
  BY DEF Map!Present, Known
<1>2. \A a \in Addrs : a \in Known <=> KeyOf(a) # NoKey
  BY DEF Known
<1>3. Free # {} <=> Cardinality(Known) < MaxPaired
  BY KnownFact, SizeAssumption
<1>4. \A a \in Addrs :
        Map!Room(a) <=> a \in Map!Present \/ Cardinality(Map!Present) < MaxPaired
  BY Zenon DEF Map!Room, Map!Cardinality, Cardinality
<1> QED
  BY <1>1, <1>2, <1>3, <1>4

\* Writing a slot changes the map at one address.
LEMMA WrittenMap ==
  ASSUME IInv, IInv', NEW a \in Addrs, NEW k
  PROVE  /\ Written(a, [addr |-> a, key |-> k]) =>
              [b \in Addrs |-> KeyOf(b)]' = [[b \in Addrs |-> KeyOf(b)] EXCEPT ![a] = k]
         /\ Written(a, [addr |-> NoAddr, key |-> k]) =>
              [b \in Addrs |-> KeyOf(b)]' =
                [[b \in Addrs |-> KeyOf(b)] EXCEPT ![a] = NoKey]
<1>1. ASSUME Written(a, [addr |-> a, key |-> k])
      PROVE  KeyOf(a)' = k /\ \A b \in Addrs \ {a} : KeyOf(b)' = KeyOf(b)
  BY <1>1, WrittenKeys
<1>2. ASSUME Written(a, [addr |-> NoAddr, key |-> k])
      PROVE  KeyOf(a)' = NoKey /\ \A b \in Addrs \ {a} : KeyOf(b)' = KeyOf(b)
  BY <1>2, WrittenKeys, AddrAssumption
<1> QED
  BY <1>1, <1>2

\* Every step of the table is a step of the map or none.
LEMMA MapStep ==
  ASSUME IInv, IInv', [Next]_vars
  PROVE  [Map!Next]_Map!mapVars
<1> DEFINE map == [b \in Addrs |-> KeyOf(b)]
<1>1. ASSUME NEW a \in Addrs, NEW k \in Keys, spacekey_add(a, k)
      PROVE  Map!Put(a, k) \/ Map!Refuse(a)
  <2>1. CASE spacekey_lookup_add(a) = NULL
    <3>1. ~Map!Room(a)
      BY <2>1, SlotFact, MapFact
    <3>2. UNCHANGED map
      BY <1>1, <2>1, KeptKeys DEF spacekey_add
    <3> QED BY <1>1, <2>1, <3>1, <3>2, AddrAssumption DEF spacekey_add, Map!Refuse
  <2>2. CASE spacekey_lookup_add(a) # NULL
    <3>1. Map!Room(a)
      BY <2>2, SlotFact, MapFact
    <3>0. Written(a, [addr |-> a, key |-> k])
      BY <1>1, <2>2, AddWrites
    <3>2. map' = [map EXCEPT ![a] = k]
      BY <1>1, <2>2, <3>0, WrittenMap
    <3> QED BY <1>1, <2>2, <3>1, <3>2, AddrAssumption DEF spacekey_add, Map!Put
  <2> QED BY <2>1, <2>2
<1>2. ASSUME NEW a \in Addrs, spacekey_del(a)
      PROVE  Map!Remove(a) \/ Map!Missing(a)
  <2>1. CASE spacekey_lookup(a) = NULL
    <3>1. a \notin Map!Present
      BY <2>1, LookupFact, MapFact DEF Known
    <3>2. UNCHANGED map
      BY <1>2, <2>1, KeptKeys DEF spacekey_del
    <3> QED BY <1>2, <2>1, <3>1, <3>2, AddrAssumption DEF spacekey_del, Map!Missing
  <2>2. CASE spacekey_lookup(a) # NULL
    <3>1. a \in Map!Present
      BY <1>2, <2>2, DelWrites, MapFact DEF Known
    <3>2. PICK k : Written(a, [addr |-> NoAddr, key |-> k])
      BY <1>2, <2>2, DelWrites
    <3>3. map' = [map EXCEPT ![a] = NoKey]
      BY <3>2, WrittenMap, AddrAssumption
    <3> QED BY <1>2, <2>2, <3>1, <3>3, AddrAssumption DEF spacekey_del, Map!Remove
  <2> QED BY <2>1, <2>2
<1>3. ASSUME NEW a \in Addrs, space_settings_set(a)
      PROVE  \/ \E k \in Keys : Map!Record(a, k)
             \/ Map!Forget(a) \/ Map!Damage(a) \/ UNCHANGED Map!mapVars
  <2>1. UNCHANGED result
    BY <1>3 DEF space_settings_set
  <2>2. CASE spacekey_lookup_add(a) = NULL
    <3>1. UNCHANGED map
      BY <1>3, <2>2, KeptKeys DEF space_settings_set
    <3> QED BY <2>1, <3>1 DEF Map!mapVars
  <2>3. CASE spacekey_lookup_add(a) # NULL
    <3>1. CASE store[a] \in Keys /\ Written(a, [addr |-> a, key |-> store[a]])
      <4>1. map' = [map EXCEPT ![a] = store[a]]
        BY <3>1, WrittenMap
      <4>2. Map!Room(a)
        BY <2>3, SlotFact, MapFact
      <4> QED BY <2>1, <3>1, <4>1, <4>2 DEF Map!Record
    <3>2. CASE \E k : Written(a, [addr |-> NoAddr, key |-> k])
      <4>1. PICK k : Written(a, [addr |-> NoAddr, key |-> k])
        BY <3>2
      <4>2. map' = [map EXCEPT ![a] = NoKey]
        BY <4>1, WrittenMap, AddrAssumption
      <4> QED BY <2>1, <4>2 DEF Map!Forget
    <3>3. CASE /\ KeyOf(a) # NoKey
               /\ \E k \in {KeyOf(a), BadKey} : Written(a, [addr |-> a, key |-> k])
      <4>1. PICK k \in {KeyOf(a), BadKey} : Written(a, [addr |-> a, key |-> k])
        BY <3>3
      <4>2. map' = [map EXCEPT ![a] = k]
        BY <4>1, WrittenMap
      <4>3. CASE k = BadKey
        <5>1. a \in Map!Present
          BY <3>3, MapFact DEF Known
        <5> QED BY <2>1, <4>2, <4>3, <5>1 DEF Map!Damage
      <4>4. CASE k = KeyOf(a)
        BY <2>1, <4>2, <4>4 DEF Map!mapVars
      <4> QED BY <4>1, <4>3, <4>4
    <3> QED BY <1>3, <2>3, <3>1, <3>2, <3>3, SetWrites
  <2> QED BY <2>2, <2>3
<1>4. CASE settings_load
  <2>1. UNCHANGED <<map, result>>
    BY <1>4, KeptKeys DEF settings_load
  <2> QED BY <2>1 DEF Map!mapVars
<1>5. CASE sys_reboot \/ \E failed \in EraseFails : cmd_settings_clear(failed)
  <2>1. reboot
    BY <1>5 DEF sys_reboot, cmd_settings_clear
  <2>2. map' = [b \in Addrs |-> NoKey] /\ result' = "none"
    BY <2>1, WipedKeys DEF reboot
  <2>3. Map!Reset
    BY <2>2 DEF Map!Reset, Map!Empty
  <2> QED BY <2>3 DEF Map!Next
<1>6. CASE UNCHANGED vars
  <2>1. UNCHANGED <<map, result>>
    BY <1>6, KeptKeys DEF vars
  <2> QED BY <2>1 DEF Map!mapVars
<1>7. CASE spacekey_del(NoAddr) \/ \E k \in Keys : spacekey_add(NoAddr, k)
  <2>1. UNCHANGED map /\ result' = "EINVAL"
    BY <1>7, KeptKeys, NoAddrFact
  <2> QED BY <2>1 DEF Map!Invalid, Map!Next
<1> QED
  BY <1>1, <1>2, <1>3, <1>4, <1>5, <1>6, <1>7 DEF Next, Commands, Storage, Map!Next

\* The table starts as the empty map.
LEMMA MapInit == Init => Map!Init
<1> SUFFICES ASSUME Init PROVE Map!Init
  OBVIOUS
<1>1. IInv
  BY InitInv
<1>2. \A i \in Slot : keys[i].addr = NoAddr
  BY DEF Init
<1>3. \A a \in Addrs : KeyOf(a) = NoKey
  BY <1>1, <1>2, KeyFact, AddrAssumption
<1> QED
  BY <1>3 DEF Init, Map!Init, Map!Empty

\* For every number of slots, the array with its search bound is a map of that
\* many entries: an addition is refused exactly when the map is full, and a
\* deletion reports exactly whether the address was there.
THEOREM TableIsMap == Spec => ImplementsMap
<1>1. Init => Map!Init
  BY MapInit
<1>2. Init => IInv
  BY InitInv
<1>3. IInv /\ [Next]_vars => IInv'
  BY NextInv
<1>4. IInv /\ IInv' /\ [Next]_vars => [Map!Next]_Map!mapVars
  BY MapStep
<1> QED
  BY <1>1, <1>2, <1>3, <1>4, PTL DEF Spec, ImplementsMap, Map!Spec

-----------------------------------------------------------------------------
(* The table and the store, when no record is lost or unreadable.          *)

\* An addition puts the key into the table and the store, or into neither.
LEMMA AddEffect ==
  ASSUME Faults = {}, IInv, IInv', NEW a \in Addrs, NEW k \in Keys, spacekey_add(a, k)
  PROVE  /\ todo = {} /\ UNCHANGED <<todo, loaded>>
         /\ \A b \in Addrs \ {a} : KeyOf(b)' = KeyOf(b) /\ store'[b] = store[b]
         /\ \/ /\ KeyOf(a)' = k /\ store'[a] = k
               /\ KeyOf(a) # NoKey \/ Free # {}
            \/ KeyOf(a)' = KeyOf(a) /\ store'[a] = store[a]
<1>1. CASE spacekey_lookup_add(a) = NULL
  BY <1>1, KeptKeys DEF spacekey_add
<1>2. CASE spacekey_lookup_add(a) # NULL
  <2>1. KeyOf(a)' = k /\ \A b \in Addrs \ {a} : KeyOf(b)' = KeyOf(b)
    <3>1. Written(a, [addr |-> a, key |-> k])
      BY <1>2, AddWrites
    <3> QED BY <3>1, WrittenKeys
  <2>2. store' = [store EXCEPT ![a] = k]
    BY <1>2, AddrAssumption DEF spacekey_add, SaveRecord
  <2>3. store \in [Addrs -> Keys \cup {NoKey, Deleted}]
    BY DEF IInv, TypeOK
  <2> QED BY <1>2, <2>1, <2>2, <2>3, SlotFact DEF spacekey_add
<1> QED
  BY <1>1, <1>2

\* A deletion takes the key out of both, or finds nothing in the table.
LEMMA DelEffect ==
  ASSUME Faults = {}, IInv, IInv', NEW a \in Addrs, spacekey_del(a)
  PROVE  /\ todo = {} /\ UNCHANGED <<todo, loaded>>
         /\ \A b \in Addrs \ {a} : KeyOf(b)' = KeyOf(b) /\ store'[b] = store[b]
         /\ KeyOf(a)' = NoKey
         /\ \/ store'[a] = Deleted
            \/ KeyOf(a) = NoKey /\ store'[a] = store[a]
<1>1. CASE spacekey_lookup(a) = NULL
  BY <1>1, KeptKeys, LookupFact DEF spacekey_del
<1>2. CASE spacekey_lookup(a) # NULL
  <2>1. KeyOf(a)' = NoKey /\ \A b \in Addrs \ {a} : KeyOf(b)' = KeyOf(b)
    <3>1. PICK k : Written(a, [addr |-> NoAddr, key |-> k])
      BY <1>2, DelWrites
    <3> QED BY <3>1, WrittenKeys, AddrAssumption
  <2>2. store' = [store EXCEPT ![a] = Deleted]
    BY <1>2, AddrAssumption DEF spacekey_del, settings_delete, SaveRecord
  <2>3. store \in [Addrs -> Keys \cup {NoKey, Deleted}]
    BY DEF IInv, TypeOK
  <2> QED BY <1>2, <2>1, <2>2, <2>3 DEF spacekey_del
<1> QED
  BY <1>1, <1>2

\* A delivered record gives its address the stored key unless the table is full
\* of others.
LEMMA SetEffect ==
  ASSUME Faults = {}, IInv, IInv', NEW a \in Addrs, space_settings_set(a)
  PROVE  /\ a \in todo /\ todo' = todo \ {a} /\ UNCHANGED store
         /\ loaded' = (loaded \/ todo' = {})
         /\ \A b \in Addrs \ {a} : KeyOf(b)' = KeyOf(b)
         /\ \/ KeyOf(a)' = Stored(a)
            \/ Free = {} /\ KeyOf(a) = NoKey /\ KeyOf(a)' = NoKey
<1>1. /\ a \in todo /\ todo' = todo \ {a} /\ UNCHANGED store
      /\ loaded' = (loaded \/ todo' = {})
  BY DEF space_settings_set
<1>2. CASE spacekey_lookup_add(a) = NULL
  BY <1>1, <1>2, KeptKeys, SlotFact DEF space_settings_set
<1>3. CASE spacekey_lookup_add(a) # NULL
  <2>1. CASE store[a] \in Keys /\ Written(a, [addr |-> a, key |-> store[a]])
    <3>1. KeyOf(a)' = store[a] /\ \A b \in Addrs \ {a} : KeyOf(b)' = KeyOf(b)
      BY <2>1, WrittenKeys
    <3> QED BY <1>1, <2>1, <3>1 DEF Stored
  <2>2. CASE store[a] \notin Keys /\ \E k : Written(a, [addr |-> NoAddr, key |-> k])
    <3>1. PICK k : Written(a, [addr |-> NoAddr, key |-> k])
      BY <2>2
    <3>2. KeyOf(a)' = NoKey /\ \A b \in Addrs \ {a} : KeyOf(b)' = KeyOf(b)
      BY <3>1, WrittenKeys, AddrAssumption
    <3> QED BY <1>1, <2>2, <3>2 DEF Stored
  <2> QED BY <1>3, <2>1, <2>2, SetWrites
<1> QED
  BY <1>2, <1>3

Saved == \A a \in Addrs : KeyOf(a) \in {NoKey, Stored(a)}

\* Every operation keeps the table a part of the store.
LEMMA NextSaved ==
  ASSUME Faults = {}, IInv, IInv', Saved, [Next]_vars
  PROVE  Saved'
<1> SUFFICES ASSUME NEW b \in Addrs
             PROVE  KeyOf(b)' \in {NoKey, Stored(b)'}
  BY DEF Saved
<1>0. KeyOf(b) \in {NoKey, Stored(b)}
  BY DEF Saved
<1>1. ASSUME NEW a \in Addrs, NEW k \in Keys, spacekey_add(a, k)
      PROVE  KeyOf(b)' \in {NoKey, Stored(b)'}
  BY <1>0, <1>1, AddEffect DEF Stored
<1>2. ASSUME NEW a \in Addrs, spacekey_del(a)
      PROVE  KeyOf(b)' \in {NoKey, Stored(b)'}
  BY <1>0, <1>2, DelEffect DEF Stored
<1>3. CASE settings_load
  BY <1>0, <1>3, KeptKeys DEF settings_load, Stored
<1>4. ASSUME NEW a \in Addrs, space_settings_set(a)
      PROVE  KeyOf(b)' \in {NoKey, Stored(b)'}
  BY <1>0, <1>4, SetEffect DEF Stored
<1>5. CASE sys_reboot \/ \E failed \in EraseFails : cmd_settings_clear(failed)
  BY <1>5, WipedKeys DEF sys_reboot, cmd_settings_clear
<1>6. CASE UNCHANGED vars
  BY <1>0, <1>6, KeptKeys DEF vars, Stored
<1>7. CASE spacekey_del(NoAddr) \/ \E k \in Keys : spacekey_add(NoAddr, k)
  BY <1>0, <1>7, KeptKeys, NoAddrFact DEF Stored
<1> QED
  BY <1>1, <1>2, <1>3, <1>4, <1>5, <1>6, <1>7 DEF Next, Commands, Storage

\* The table starts empty.
LEMMA InitSaved == Init => Saved
<1> SUFFICES ASSUME Init, NEW a \in Addrs PROVE KeyOf(a) = NoKey
  BY DEF Saved
<1>1. \A i \in Slot : keys[i].addr = NoAddr
  BY DEF Init
<1> QED
  BY <1>1, InitInv, KeyFact, AddrAssumption

\* No key opens the door that is not in the store.
THEOREM NoKeyIsUnsaved == Spec => []NothingUnsaved
<1>1. Init => IInv /\ (Faults = {} => Saved)
  BY InitInv, InitSaved
<1>2. IInv /\ (Faults = {} => Saved) /\ [Next]_vars => (IInv /\ (Faults = {} => Saved))'
  BY NextInv, NextSaved
<1>3. IInv /\ (Faults = {} => Saved) => NothingUnsaved
  BY DEF NothingUnsaved, Saved
<1> QED
  BY <1>1, <1>2, <1>3, PTL DEF Spec

-----------------------------------------------------------------------------
(* A station that loads the store before it changes anything.              *)

Live == {a \in Addrs : store[a] \in Keys}

\* The stored keys fit into the table; once they are loaded, and while they
\* are being loaded, the table has all of those already delivered.
LoadInv ==
  /\ Cardinality(Live) <= MaxPaired
  /\ loaded => \A a \in Addrs : KeyOf(a) = Stored(a)
  /\ todo # {} => \A a \in Addrs \ todo : KeyOf(a) = Stored(a)

\* The stored addresses are finitely many.
LEMMA LiveFact ==
  IsFiniteSet(Live) /\ Cardinality(Live) \in Nat
BY AddrAssumption, FS_Subset, FS_CardinalityType DEF Live

\* The same in the next state.
LEMMA LiveFactNext ==
  (IsFiniteSet(Live) /\ Cardinality(Live) \in Nat)'
BY LiveFact, PTL

\* There is room for a stored key that the table does not have.
LEMMA RoomForStored ==
  ASSUME IInv, Saved, Cardinality(Live) <= MaxPaired,
         NEW a \in Addrs, store[a] \in Keys, KeyOf(a) = NoKey
  PROVE  Free # {}
<1>1. Known \subseteq Live \ {a} /\ a \in Live
  BY ValueAssumption DEF Known, Live, Saved, Stored
<1>2. IsFiniteSet(Live \ {a}) /\ Cardinality(Live \ {a}) = Cardinality(Live) - 1
  BY <1>1, LiveFact, FS_RemoveElement
<1>3. Cardinality(Known) <= Cardinality(Live) - 1
  BY <1>1, <1>2, FS_Subset
<1> QED
  BY <1>3, LiveFact, KnownFact, SizeAssumption

\* A new address stays within the table if the table found room for it.
LEMMA RoomForNew ==
  ASSUME IInv, Cardinality(Live) <= MaxPaired, \A a \in Addrs : KeyOf(a) = Stored(a),
         NEW a \in Addrs, KeyOf(a) # NoKey \/ Free # {}, Live' = Live \cup {a}
  PROVE  Cardinality(Live') <= MaxPaired
<1>1. CASE a \in Live
  <2>1. Live' = Live
    BY <1>1
  <2> QED BY <2>1
<1>2. CASE a \notin Live
  <2>1. Known = Live
    BY ValueAssumption DEF Known, Live, Stored
  <2>2. Free # {}
    BY <1>2, <2>1 DEF Known
  <2>3. Cardinality(Live) < MaxPaired
    BY <2>1, <2>2, KnownFact
  <2>4. Cardinality(Live \cup {a}) = Cardinality(Live) + 1
    BY <1>2, LiveFact, FS_AddElement
  <2> QED BY <2>3, <2>4, LiveFact, SizeAssumption
<1> QED
  BY <1>1, <1>2

\* Every step of a managed station keeps the table in step with the store.
LEMMA NextLoad ==
  ASSUME Faults = {}, IInv, IInv', Saved, LoadInv, [ManagedNext]_vars
  PROVE  LoadInv'
<1>0. /\ store \in [Addrs -> Keys \cup {NoKey, Deleted}]
      /\ store' \in [Addrs -> Keys \cup {NoKey, Deleted}]
      /\ Cardinality(Live) <= MaxPaired
  BY DEF IInv, TypeOK, LoadInv
<1>1. ASSUME loaded, NEW a \in Addrs, NEW k \in Keys, spacekey_add(a, k)
      PROVE  LoadInv'
  <2>1. \A b \in Addrs : KeyOf(b) = Stored(b)
    BY <1>1 DEF LoadInv
  <2>2. \A b \in Addrs : KeyOf(b)' = Stored(b)'
    BY <1>1, <2>1, AddEffect DEF Stored
  <2>3. Cardinality(Live') <= MaxPaired
    <3>1. CASE store'[a] = store[a]
      <4>1. Live' = Live
        BY <1>1, <3>1, AddEffect DEF Live
      <4> QED BY <1>0, <4>1
    <3>2. CASE store'[a] # store[a]
      <4>1. store'[a] = k /\ (KeyOf(a) # NoKey \/ Free # {})
        BY <1>1, <3>2, AddEffect
      <4>2. Live' = Live \cup {a}
        BY <1>1, <4>1, AddEffect DEF Live
      <4> QED BY <1>0, <2>1, <4>1, <4>2, RoomForNew
    <3> QED BY <3>1, <3>2
  <2>4. loaded' = loaded /\ todo' = {}
    BY <1>1, AddEffect
  <2> QED BY <2>2, <2>3, <2>4 DEF LoadInv
<1>2. ASSUME loaded, NEW a \in Addrs, spacekey_del(a)
      PROVE  LoadInv'
  <2>1. \A b \in Addrs : KeyOf(b)' = Stored(b)'
    BY <1>2, DelEffect, ValueAssumption DEF LoadInv, Stored
  <2>2. Live' \subseteq Live
    BY <1>2, DelEffect, ValueAssumption DEF Live
  <2>3. Cardinality(Live') <= Cardinality(Live)
    BY <2>2, LiveFact, FS_Subset
  <2>4. loaded' = loaded /\ todo' = {}
    BY <1>2, DelEffect
  <2> QED BY <1>0, <2>1, <2>3, <2>4, LiveFact, LiveFactNext, SizeAssumption DEF LoadInv
<1>3. CASE settings_load
  <2>1. PICK gone \in SUBSET {a \in Addrs : store[a] = Deleted} :
          todo' = gone \cup {a \in Addrs : store[a] \in Keys}
    BY <1>3 DEF settings_load
  <2>2. /\ UNCHANGED store /\ \A a \in Addrs : KeyOf(a)' = KeyOf(a)
        /\ loaded' = (loaded \/ todo' = {})
    BY <1>3, KeptKeys DEF settings_load
  <2>3. \A a \in Addrs \ todo' : KeyOf(a)' = Stored(a)'
    BY <2>1, <2>2 DEF Saved, Stored
  <2>4. loaded' => \A a \in Addrs : KeyOf(a)' = Stored(a)'
    BY <2>2, <2>3 DEF LoadInv, Stored
  <2>5. Live' = Live
    BY <2>2 DEF Live
  <2> QED BY <1>0, <2>3, <2>4, <2>5 DEF LoadInv
<1>4. ASSUME NEW a \in Addrs, space_settings_set(a)
      PROVE  LoadInv'
  <2>1. /\ a \in todo /\ todo' = todo \ {a} /\ UNCHANGED store
        /\ loaded' = (loaded \/ todo' = {})
        /\ \A b \in Addrs \ {a} : KeyOf(b)' = KeyOf(b)
    BY <1>4, SetEffect
  <2>2. KeyOf(a)' = Stored(a)
    <3>1. CASE KeyOf(a)' = Stored(a)
      BY <3>1
    <3>2. CASE Free = {} /\ KeyOf(a) = NoKey /\ KeyOf(a)' = NoKey
      <4>1. store[a] \notin Keys
        BY <1>0, <3>2, RoomForStored
      <4> QED BY <3>2, <4>1 DEF Stored
    <3> QED BY <1>4, <3>1, <3>2, SetEffect
  <2>3. \A b \in Addrs : Stored(b)' = Stored(b)
    BY <2>1 DEF Stored
  <2>4. \A b \in Addrs \ todo : KeyOf(b) = Stored(b)
    BY <2>1 DEF LoadInv
  <2>5. \A b \in Addrs \ todo' : KeyOf(b)' = Stored(b)'
    BY <2>1, <2>2, <2>3, <2>4
  <2>6. loaded' => \A b \in Addrs : KeyOf(b)' = Stored(b)'
    BY <2>1, <2>2, <2>3, <2>5 DEF LoadInv
  <2>7. Live' = Live
    BY <2>1 DEF Live
  <2> QED BY <1>0, <2>5, <2>6, <2>7 DEF LoadInv
<1>5. CASE sys_reboot
  <2>1. loaded' = FALSE /\ todo' = {} /\ Live' = Live
    BY <1>5 DEF sys_reboot, reboot, Live
  <2> QED BY <1>0, <2>1 DEF LoadInv
<1>6. CASE \E failed \in EraseFails : cmd_settings_clear(failed)
  <2>1. loaded' = FALSE /\ todo' = {} /\ (Live' = {} \/ Live' = Live)
    BY <1>6, ValueAssumption DEF cmd_settings_clear, reboot, Live
  <2> QED BY <1>0, <2>1, FS_EmptySet, SizeAssumption DEF LoadInv
<1>7. CASE UNCHANGED vars
  <2>1. /\ UNCHANGED <<loaded, todo, store>> /\ Live' = Live
        /\ \A a \in Addrs : KeyOf(a)' = KeyOf(a)
    BY <1>7, KeptKeys DEF vars, Live
  <2> QED BY <1>0, <2>1 DEF LoadInv, Stored
<1>8. CASE spacekey_del(NoAddr) \/ \E k \in Keys : spacekey_add(NoAddr, k)
  <2>1. /\ UNCHANGED <<loaded, todo, store>> /\ Live' = Live
        /\ \A a \in Addrs : KeyOf(a)' = KeyOf(a)
    BY <1>8, KeptKeys, NoAddrFact DEF Live
  <2> QED BY <1>0, <2>1 DEF LoadInv, Stored
<1> QED
  BY <1>1, <1>2, <1>3, <1>4, <1>5, <1>6, <1>7, <1>8 DEF ManagedNext, Commands, Storage

\* Main starts with nothing stored and nothing loaded.
LEMMA InitLoad == Init => LoadInv
<1> SUFFICES ASSUME Init PROVE LoadInv
  OBVIOUS
<1>1. Live = {}
  BY ValueAssumption DEF Init, Live
<1> QED
  BY <1>1, FS_EmptySet, SizeAssumption DEF Init, LoadInv

\* A station that loads before it changes anything has exactly the stored
\* keys once they are loaded: it never stores more than its table holds.
THEOREM TableMatchesStore == ManagedSpec => []TableIsStore
<1> DEFINE Inv == IInv /\ (Faults = {} => Saved /\ LoadInv)
<1>1. Init => Inv
  BY InitInv, InitSaved, InitLoad
<1>2. Inv /\ [ManagedNext]_vars => Inv'
  <2>1. [ManagedNext]_vars => [Next]_vars
    BY DEF ManagedNext, Next
  <2> QED BY <2>1, NextInv, NextSaved, NextLoad
<1>3. Inv => TableIsStore
  BY DEF TableIsStore, LoadInv
<1> QED
  BY <1>1, <1>2, <1>3, PTL DEF ManagedSpec

\* In such a station a deletion takes the coin out of the store.
THEOREM DeletionIsStored ==
  ASSUME Faults = {}
  PROVE  ManagedSpec => DeleteForgets
<1> DEFINE Inv  == IInv /\ Saved /\ LoadInv
           Gone == \A a \in Addrs : spacekey_del(a) => store'[a] \notin Keys
<1>1. Init => Inv
  BY InitInv, InitSaved, InitLoad
<1>2. Inv /\ [ManagedNext]_vars => Inv'
  <2>1. [ManagedNext]_vars => [Next]_vars
    BY DEF ManagedNext, Next
  <2> QED BY <2>1, NextInv, NextSaved, NextLoad
<1>3. Inv /\ Inv' /\ [ManagedNext]_vars => [Gone]_vars
  <2> SUFFICES ASSUME Inv, Inv', ManagedNext, NEW a \in Addrs, spacekey_del(a)
               PROVE  store'[a] \notin Keys
    OBVIOUS
  <2>1. todo = {} /\ todo' = {} /\ loaded' = loaded
        /\ result' \in {"ok", "ENOENT"}
    BY AddrAssumption DEF spacekey_del
  <2>2. loaded
    <3>1. ~settings_load \/ loaded
      <4>1. settings_load => loaded'
        BY <2>1 DEF settings_load
      <4> QED BY <2>1, <4>1
    <3>2. \A b \in Addrs : ~space_settings_set(b)
      BY <2>1 DEF space_settings_set
    <3>3. ~sys_reboot /\ \A failed \in EraseFails : ~cmd_settings_clear(failed)
      BY <2>1 DEF sys_reboot, cmd_settings_clear, reboot
    <3> QED BY <3>1, <3>2, <3>3 DEF ManagedNext, Storage
  <2>3. KeyOf(a) = Stored(a)
    BY <2>2 DEF LoadInv
  <2>4. CASE store'[a] = Deleted
    BY <2>4, ValueAssumption
  <2>5. CASE KeyOf(a) = NoKey /\ store'[a] = store[a]
    BY <2>3, <2>5, ValueAssumption DEF Stored
  <2> QED BY <2>4, <2>5, DelEffect
<1> HIDE DEF Inv, Gone
<1>4. ManagedSpec => [][Gone]_vars
  BY <1>1, <1>2, <1>3, PTL DEF ManagedSpec
<1> QED
  BY <1>4 DEF Gone, DeleteForgets

=============================================================================
