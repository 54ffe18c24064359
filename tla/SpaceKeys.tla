----------------------------- MODULE SpaceKeys -----------------------------
(***************************************************************************)
(* The base station's table of space keys, src/central-onchip/src/         *)
(* spaceauth.c, and the records it keeps in the settings storage.          *)
(*                                                                         *)
(* The storage is external: it holds the last record written for each      *)
(* address, and settings_load delivers the records one by one in an order  *)
(* of its own, the deleted ones perhaps not at all.  All of it runs in one *)
(* thread at a time, and a reset may come between any two steps.           *)
(***************************************************************************)
EXTENDS Integers, FiniteSets

CONSTANTS
  Addrs, NoAddr,      \* addresses; NoAddr: NO_ADDR, an unused slot
  Keys,               \* 32-byte keys
  NoKey,              \* no record, and the zeroed key of a table after a reset
  BadKey,             \* key bytes left by a read that failed half way
  Deleted,            \* the empty record settings_delete writes
  MaxPaired,          \* CONFIG_BT_MAX_PAIRED
  Faults              \* "save": a record is not written; "read": not read;
                      \* "erase": the storage is not erased

ASSUME AddrAssumption  == IsFiniteSet(Addrs) /\ NoAddr \notin Addrs
ASSUME ValueAssumption == /\ NoKey \notin Keys \cup {BadKey, Deleted}
                          /\ BadKey \notin Keys \cup {Deleted}
                          /\ Deleted \notin Keys
ASSUME SizeAssumption  == MaxPaired \in Nat \ {0}
ASSUME FaultAssumption == Faults \subseteq {"save", "read", "erase"}

VARIABLES
  keys,                 \* the table
  largest_index_used,
  store,                \* the last record of each address
  todo,                 \* addresses whose record settings_load has yet to deliver
  loaded,               \* history: the whole store was delivered since the reset
  result                \* history: what the last add or delete returned

vars == <<keys, largest_index_used, store, todo, loaded, result>>

Slot == 0..MaxPaired - 1
NULL == -1

Init ==
  /\ keys = [i \in Slot |-> [addr |-> NoAddr, key |-> NoKey]]
  /\ largest_index_used = 0
  /\ store = [a \in Addrs |-> NoKey]
  /\ todo = {} /\ loaded = FALSE /\ result = "none"

-----------------------------------------------------------------------------
(* The slots.                                                              *)

First(S) == CHOOSE i \in S : \A j \in S : i <= j

\* Mutant of Hits: the search stops one slot early.
HitsOneShort(a) == {i \in 0..largest_index_used - 1 : keys[i].addr = a}

Hits(a) == {i \in 0..largest_index_used : keys[i].addr = a}
Free    == {i \in Slot : keys[i].addr = NoAddr}

spacekey_lookup(a) == IF Hits(a) = {} THEN NULL ELSE First(Hits(a))

\* Mutant of spacekey_lookup_add: an address is always given a new slot.
AlwaysNewSlot(a) == IF Free = {} THEN NULL ELSE First(Free)

spacekey_lookup_add(a) ==
  IF spacekey_lookup(a) # NULL THEN spacekey_lookup(a)
  ELSE IF Free = {} THEN NULL ELSE First(Free)

\* Mutants of Claim: the index is not raised, or past the slot.
ClaimForgotten(i) == UNCHANGED largest_index_used
ClaimPast(i) ==
  largest_index_used' = IF i >= largest_index_used THEN i + 1 ELSE largest_index_used

\* What spacekey_lookup_add does besides finding slot i.
Claim(i) ==
  largest_index_used' = IF i > largest_index_used THEN i ELSE largest_index_used

-----------------------------------------------------------------------------
(* Changing the table and the store.                                       *)

\* Mutant of SaveRecord: only the table is changed.
SaveForgotten(a, record) == UNCHANGED store

\* settings_save_one, whose result is ignored.
SaveRecord(a, record) ==
  \/ store' = [store EXCEPT ![a] = record]
  \/ "save" \in Faults /\ UNCHANGED store

\* Mutant of settings_delete: the record stays.
DeleteForgotten(a) == UNCHANGED store

settings_delete(a) == SaveRecord(a, Deleted)

spacekey_add(a, k) ==
  LET i == spacekey_lookup_add(a) IN
  /\ todo = {}
  /\ IF a = NoAddr \/ i = NULL
     THEN /\ result' = IF a = NoAddr THEN "EINVAL" ELSE "ENOSPC"
          /\ UNCHANGED <<keys, largest_index_used, store>>
     ELSE /\ keys' = [keys EXCEPT ![i] = [addr |-> a, key |-> k]]
          /\ Claim(i)
          /\ SaveRecord(a, k)
          /\ result' = "ok"
  /\ UNCHANGED <<todo, loaded>>

spacekey_del(a) ==
  LET i == spacekey_lookup(a) IN
  /\ todo = {}
  /\ IF a = NoAddr \/ i = NULL
     THEN /\ result' = IF a = NoAddr THEN "EINVAL" ELSE "ENOENT"
          /\ UNCHANGED <<keys, store>>
     ELSE /\ settings_delete(a)
          /\ keys' = [keys EXCEPT ![i].addr = NoAddr]
          /\ result' = "ok"
  /\ UNCHANGED <<largest_index_used, todo, loaded>>

settings_load ==
  /\ todo = {}
  /\ \E gone \in SUBSET {a \in Addrs : store[a] = Deleted} :
       todo' = gone \cup {a \in Addrs : store[a] \in Keys}
  /\ loaded' = (loaded \/ todo' = {})
  /\ UNCHANGED <<keys, largest_index_used, store, result>>

\* The value of a's record is read into slot i, which takes the address only
\* if all of the key was read; a failed read may have spoiled the old key.
ReadRecord(a, i) ==
  \/ /\ store[a] = Deleted
     /\ keys' = [keys EXCEPT ![i].addr = NoAddr]
  \/ /\ "read" \in Faults
     /\ \E k \in {keys[i].key, BadKey} : keys' = [keys EXCEPT ![i].key = k]
  \/ /\ store[a] \in Keys
     /\ keys' = [keys EXCEPT ![i] = [addr |-> a, key |-> store[a]]]

space_settings_set(a) ==
  LET i == spacekey_lookup_add(a) IN
  /\ a \in todo
  /\ todo' = todo \ {a}
  /\ loaded' = (loaded \/ todo' = {})
  /\ IF i = NULL
     THEN UNCHANGED <<keys, largest_index_used>>
     ELSE ReadRecord(a, i) /\ Claim(i)
  /\ UNCHANGED <<store, result>>

\* A reset, at any time: the RAM is zeroed.
reboot ==
  /\ keys' = [i \in Slot |-> [addr |-> NoAddr, key |-> NoKey]]
  /\ largest_index_used' = 0
  /\ todo' = {} /\ loaded' = FALSE /\ result' = "none"

sys_reboot == reboot /\ UNCHANGED store

\* What flash_area_erase may do: fail or not.
EraseFails == {FALSE, "erase" \in Faults}

\* It resets the station even if the storage could not be erased.
cmd_settings_clear(failed) ==
  /\ todo = {}
  /\ store' = IF failed THEN store ELSE [a \in Addrs |-> NoKey]
  /\ reboot

Commands ==
  \/ \E a \in Addrs \cup {NoAddr}, k \in Keys : spacekey_add(a, k)
  \/ \E a \in Addrs \cup {NoAddr} : spacekey_del(a)

Storage ==
  \/ settings_load
  \/ \E a \in Addrs : space_settings_set(a)
  \/ sys_reboot
  \/ \E failed \in EraseFails : cmd_settings_clear(failed)

Next == Commands \/ Storage

Spec == Init /\ [][Next]_vars

\* The way sync_central.py uses the table: it loads the store before it adds
\* or deletes anything.
ManagedNext == (loaded /\ Commands) \/ Storage

ManagedSpec == Init /\ [][ManagedNext]_vars

-----------------------------------------------------------------------------
(* Properties.                                                             *)

Entry == [addr : Addrs \cup {NoAddr}, key : Keys \cup {NoKey, BadKey}]

\* The table, the store and the search bound keep their ranges: the bound of
\* the searches never leaves the table.
TypeOK ==
  /\ keys \in [Slot -> Entry]
  /\ largest_index_used \in Slot
  /\ store \in [Addrs -> Keys \cup {NoKey, Deleted}]
  /\ todo \subseteq {a \in Addrs : store[a] # NoKey}
  /\ loaded \in BOOLEAN
  /\ result \in {"none", "ok", "ENOSPC", "ENOENT", "EINVAL"}

\* No address is in two slots, and every used slot is within reach of
\* spacekey_lookup and holds a key: the searches, the claims and the slots
\* deleted in between fit together.
SlotsInOrder ==
  \A i \in Slot : keys[i].addr # NoAddr =>
    /\ i <= largest_index_used
    /\ keys[i].key # NoKey
    /\ \A j \in Slot : keys[j].addr = keys[i].addr => j = i

IInv == TypeOK /\ SlotsInOrder

\* What spaceauth_validate would use for an address.
KeyOf(a) == IF spacekey_lookup(a) = NULL THEN NoKey ELSE keys[spacekey_lookup(a)].key
Stored(a) == IF store[a] \in Keys THEN store[a] ELSE NoKey

\* The table implements the map of KeyMap with MaxPaired entries.
Map == INSTANCE KeyMap WITH Capacity <- MaxPaired, map <- [a \in Addrs |-> KeyOf(a)]

ImplementsMap == Map!Spec

\* No key opens the door that is not in the store, so none comes back with
\* the next reset that was deleted, and none is lost by it.
NothingUnsaved == Faults = {} => \A a \in Addrs : KeyOf(a) \in {NoKey, Stored(a)}

\* Once the store has been loaded, a station that loads before it changes
\* anything (ManagedSpec) has exactly the stored keys: the table never is too
\* small for them.
TableIsStore == Faults = {} /\ loaded => \A a \in Addrs : KeyOf(a) = Stored(a)

\* "delete a registered coin" (central-onchip/README.md:9): a deletion takes
\* the coin out of the store.
DeleteForgets ==
  [][\A a \in Addrs : spacekey_del(a) => store'[a] \notin Keys]_vars

=============================================================================
