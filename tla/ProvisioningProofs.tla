-------------------------- MODULE ProvisioningProofs --------------------------
(***************************************************************************)
(* Theorems about a station and the script that provisions it, for every   *)
(* table size, every data base and any number of restarts, power cuts and  *)
(* line failures.                                                          *)
(***************************************************************************)
EXTENDS Provisioning, SpaceKeysProofs

-----------------------------------------------------------------------------
(* The line.                                                               *)

\* The command the shell reads next.
LEMMA HeadFact ==
  ASSUME ProvInv, cmd # <<>>
  PROVE  /\ Head(cmd) = cmd[1] /\ 1 \in DOMAIN cmd /\ Head(cmd) \in Command
         /\ Tail(cmd) \in Seq(Command) /\ Len(Tail(cmd)) = Len(cmd) - 1
         /\ \A i \in DOMAIN Tail(cmd) : i + 1 \in DOMAIN cmd /\ Tail(cmd)[i] = cmd[i + 1]
BY DEF ProvInv, PTypeOK, LineTypeOK

\* The answer the host reads next.
LEMMA HeardFact ==
  ASSUME ProvInv, out # <<>>
  PROVE  /\ Head(out) = out[1] /\ 1 \in DOMAIN out /\ Head(out) \in Answers
         /\ Tail(out) \in Seq(Answers)
         /\ \A i \in DOMAIN Tail(out) : i + 1 \in DOMAIN out /\ Tail(out)[i] = out[i + 1]
BY DEF ProvInv, PTypeOK, LineTypeOK

-----------------------------------------------------------------------------
(* The table of space keys is used as ManagedSpec says.                    *)

LEMMA LoadStep ==
  ASSUME ProvInv, NEW for, LoadAll(for)
  PROVE  Storage
BY DEF LoadAll, Storage

LEMMA ShellIsManaged ==
  ASSUME ProvInv, Shell
  PROVE  [ManagedNext]_vars
<1> USE DEF ManagedNext, vars, keyVars, stationVars
<1>1. CASE cmd_settings_load
  BY <1>1, LoadStep DEF cmd_settings_load, Configures
<1>2. CASE deliver_key
  BY <1>2 DEF deliver_key, Storage
<1>3. CASE deliver_bond \/ settings_loaded \/ cmd_print \/ bt_keys_store \/ cmd_central_setup \/ save_irk
  BY <1>3 DEF deliver_bond, settings_loaded, cmd_print, bt_keys_store, cmd_central_setup,
              save_irk, Configures
<1>4. CASE cmd_coin_add
  <2>1. CASE ble_stack_running
    BY <1>4, <2>1 DEF cmd_coin_add, Configures
  <2>2. CASE ~ble_stack_running
    <3>1. Reads("add") /\ spacekey_add(Head(cmd).addr, Head(cmd).key)
      BY <1>4, <2>2 DEF cmd_coin_add, Configures
    <3>2. Head(cmd) = cmd[1] /\ 1 \in DOMAIN cmd /\ Head(cmd) \in Command
      BY <3>1, HeadFact DEF Reads
    <3>3. loaded /\ Head(cmd).addr \in Addrs /\ Head(cmd).key \in Keys
      BY <3>1, <3>2 DEF Reads, ProvInv, LoadedInv, Command
    <3> QED BY <3>1, <3>3 DEF Commands
  <2> QED BY <2>1, <2>2
<1>5. CASE cmd_coin_del
  BY <1>5 DEF cmd_coin_del, Configures
<1>6. CASE del_spacekey
  <2>1. job.op = "del" /\ spacekey_del(job.addr)
    BY <1>6 DEF del_spacekey
  <2>2. loaded /\ job.addr \in Addrs
    BY <2>1 DEF ProvInv, LoadedInv, PTypeOK, StationTypeOK, Job
  <2> QED BY <2>1, <2>2 DEF Commands
<1>7. CASE cmd_ble_start
  BY <1>7, LoadStep DEF cmd_ble_start
<1>8. CASE clear_storage
  BY <1>8 DEF clear_storage, Configures, Storage
<1>9. CASE cmd_reboot
  BY <1>9 DEF cmd_reboot, Storage
<1> QED BY <1>1, <1>2, <1>3, <1>4, <1>5, <1>6, <1>7, <1>8, <1>9 DEF Shell

\* Every step of the two is one of a station that is loaded before it is
\* changed.
LEMMA StepIsManaged ==
  ASSUME ProvInv, [PNext]_allVars
  PROVE  [ManagedNext]_vars
<1> USE DEF ManagedNext, vars, keyVars, stationVars
<1>1. CASE Shell
  BY <1>1, ShellIsManaged
<1>2. CASE watchdog \/ power_cut
  BY <1>2 DEF watchdog, power_cut, Storage
<1>3. CASE UNCHANGED stationVars
  BY <1>3
<1> QED BY <1>1, <1>2, <1>3 DEF PNext, line_dropped, host_restarted, allVars

LEMMA TableKept ==
  ASSUME ProvInv, [PNext]_allVars
  PROVE  IInv'
BY StepIsManaged, NextInv DEF ManagedNext, Next, ProvInv

-----------------------------------------------------------------------------
(* The other variables of the station.                                     *)

LEMMA BondedFact ==
  ASSUME ProvInv, NEW a \in Addrs
  PROVE  Bonded(a) \in [Slot -> Addrs \cup {NoAddr}]
<1>1. CASE {i \in Slot : bonds[i] = NoAddr} = {}
  BY <1>1 DEF Bonded, ProvInv, PTypeOK, StationTypeOK
<1>2. CASE {i \in Slot : bonds[i] = NoAddr} # {}
  <2>1. First({i \in Slot : bonds[i] = NoAddr}) \in Slot
    BY <1>2, FirstFact, SizeAssumption DEF Slot
  <2> QED BY <2>1 DEF Bonded, ProvInv, PTypeOK, StationTypeOK
<1> QED BY <1>1, <1>2

LEMMA RestartedStation ==
  ASSUME ProvInv, Restarted, bondstore' \subseteq Addrs, {id', irk'} \subseteq Ids \cup {NoId}
  PROVE  StationTypeOK'
BY DEF Restarted, StationTypeOK, NoBonds, Idle, Job, ProvInv, PTypeOK

LEMMA ShellStation ==
  ASSUME ProvInv, Shell
  PROVE  StationTypeOK'
<1> USE DEF StationTypeOK, idVars, bondVars
<1>0. StationTypeOK
  BY DEF ProvInv, PTypeOK
<1> USE <1>0
<1>1. CASE cmd_settings_load
  BY <1>1 DEF cmd_settings_load, Configures, LoadAll, Job, stationVars
<1>2. CASE deliver_key
  BY <1>2 DEF deliver_key
<1>3. CASE deliver_bond
  <2>1. PICK a \in bondtodo : bondtodo' = bondtodo \ {a} /\ bonds' = Bonded(a)
    BY <1>3 DEF deliver_bond
  <2>2. a \in Addrs
    BY <2>1
  <2>3. bonds' \in [Slot -> Addrs \cup {NoAddr}]
    BY <2>1, <2>2, BondedFact
  <2>4. UNCHANGED <<ble_stack_running, bondstore, job, id, irk>> /\ bondtodo' \subseteq bondtodo
    BY <1>3, <2>1 DEF deliver_bond
  <2> QED BY <2>3, <2>4
<1>4. CASE settings_loaded \/ cmd_print
  BY <1>4 DEF settings_loaded, cmd_print, Job, Idle, stationVars
<1>5. CASE cmd_coin_add
  <2>1. Head(cmd).op = "add" /\ Head(cmd) \in Command /\ job = Idle
    BY <1>5, HeadFact DEF cmd_coin_add, Configures, Reads
  <2>2. Head(cmd).addr \in Addrs
    BY <2>1 DEF Command
  <2> QED BY <1>5, <2>1, <2>2 DEF cmd_coin_add, Configures, Job, Idle, stationVars
<1>6. CASE bt_keys_store
  <2>1. job.addr \in Addrs
    BY <1>6 DEF bt_keys_store, Job
  <2>2. bonds' \in [Slot -> Addrs \cup {NoAddr}]
    BY <1>6, <2>1, BondedFact DEF bt_keys_store
  <2>3. /\ bondstore' \subseteq Addrs /\ UNCHANGED <<ble_stack_running, bondtodo, id, irk>>
        /\ bondtodo = {} /\ job' = Idle
    BY <1>6, <2>1 DEF bt_keys_store
  <2> QED BY <2>2, <2>3 DEF Job, Idle
<1>7. CASE cmd_coin_del
  <2>1. Head(cmd).op = "del" /\ Head(cmd) \in Command /\ job = Idle
    BY <1>7, HeadFact DEF cmd_coin_del, Configures, Reads
  <2>2. Head(cmd).addr \in Addrs
    BY <2>1 DEF Command
  <2> QED BY <1>7, <2>1, <2>2 DEF cmd_coin_del, Configures, Job, Idle, stationVars
<1>8. CASE del_spacekey
  BY <1>8 DEF del_spacekey, Job, Idle
<1>9. CASE cmd_central_setup
  <2>1. Head(cmd).op = "setup" /\ Head(cmd) \in Command /\ job = Idle
    BY <1>9, HeadFact DEF cmd_central_setup, Configures, Reads
  <2>2. Head(cmd).id \in Ids
    BY <2>1 DEF Command
  <2> QED BY <1>9, <2>1, <2>2 DEF cmd_central_setup, Configures, Job, Idle, stationVars
<1>10. CASE save_irk
  BY <1>10 DEF save_irk, Job, Idle
<1>11. CASE cmd_ble_start
  BY <1>11, IdAssumption DEF cmd_ble_start, LoadAll, Job
<1>12. CASE clear_storage
  BY <1>12, RestartedStation DEF clear_storage, Configures, stationVars
<1>13. CASE cmd_reboot
  BY <1>13, RestartedStation DEF cmd_reboot
<1> QED BY <1>1, <1>2, <1>3, <1>4, <1>5, <1>6, <1>7, <1>8, <1>9, <1>10, <1>11, <1>12, <1>13 DEF Shell

LEMMA StationKept ==
  ASSUME ProvInv, [PNext]_allVars
  PROVE  StationTypeOK'
<1>1. StationTypeOK
  BY DEF ProvInv, PTypeOK
<1>2. CASE Shell
  BY <1>2, ShellStation
<1>3. CASE watchdog \/ power_cut
  BY <1>1, <1>3, RestartedStation DEF watchdog, power_cut, idVars, StationTypeOK
<1>4. CASE UNCHANGED stationVars
  BY <1>1, <1>4 DEF StationTypeOK, stationVars, bondVars, idVars
<1> QED BY <1>2, <1>3, <1>4 DEF PNext, line_dropped, host_restarted, allVars

-----------------------------------------------------------------------------
(* What is under way on the line.                                          *)

LEMMA AnswerKept ==
  ASSUME ProvInv, NEW a \in Answers, Answer(a)
  PROVE  out' \in Seq(Answers)
BY DEF Answer, ProvInv, PTypeOK, LineTypeOK

LEMMA DoneKept ==
  ASSUME ProvInv, Done
  PROVE  out' \in Seq(Answers)
BY AnswerKept DEF Done, Answers

LEMMA SendKept ==
  ASSUME ProvInv, NEW c \in Command, Send(c)
  PROVE  cmd' \in Seq(Command)
BY DEF Send, ProvInv, PTypeOK, LineTypeOK

\* A listing of slots is as long as they are many.
LEMMA ListingFact ==
  ASSUME NEW slots \in SUBSET Slot, NEW used \in Listings(slots)
  PROVE  /\ Cardinality(slots) \in Nat /\ DOMAIN used = 1..Cardinality(slots)
         /\ \A n \in DOMAIN used : used[n] \in slots
<1>1. IsFiniteSet(slots)
  <2>1. MaxPaired - 1 \in Int
    BY SizeAssumption
  <2>2. IsFiniteSet(Slot)
    BY <2>1, FS_Interval DEF Slot
  <2> QED BY <2>2, FS_Subset
<1> QED BY <1>1, FS_CardinalityType DEF Listings

\* What the two listings print.
LEMMA BondsAnswer ==
  ASSUME ProvInv, print_bonds
  PROVE  \E used \in Listings({i \in Slot : bonds[i] # NoAddr}), list \in Seq(Addrs) :
           /\ list = [n \in DOMAIN used |-> bonds[used[n]]]
           /\ Answer([of |-> "bonds", list |-> list])
<1> DEFINE slots == {i \in Slot : bonds[i] # NoAddr}
<1>1. PICK used \in Listings(slots) :
        Answer([of |-> "bonds", list |-> [n \in DOMAIN used |-> bonds[used[n]]]])
  BY DEF print_bonds
<1>2. \A n \in DOMAIN used : bonds[used[n]] \in Addrs
  BY ListingFact DEF ProvInv, PTypeOK, StationTypeOK
<1>3. [n \in DOMAIN used |-> bonds[used[n]]] \in Seq(Addrs)
  BY <1>2, ListingFact
<1> HIDE DEF slots
<1> QED BY <1>1, <1>3 DEF slots

LEMMA KeysAnswer ==
  ASSUME ProvInv, spacekeys_print
  PROVE  \E used \in Listings({i \in 0..largest_index_used : keys[i].addr # NoAddr}),
             list \in Lines :
           /\ list = [n \in DOMAIN used |-> <<keys[used[n]].addr, FirstByte[keys[used[n]].key]>>]
           /\ Answer([of |-> "keys", list |-> list])
<1> DEFINE slots == {i \in 0..largest_index_used : keys[i].addr # NoAddr}
           line(i) == <<keys[i].addr, FirstByte[keys[i].key]>>
<1>1. PICK used \in Listings(slots) :
        Answer([of |-> "keys", list |-> [n \in DOMAIN used |-> line(used[n])]])
  BY DEF spacekeys_print
<1>2. slots \in SUBSET Slot
  BY SizeAssumption DEF ProvInv, IInv, TypeOK, Slot
<1>3. \A i \in slots : line(i) \in Addrs \X {FirstByte[k] : k \in Keys \cup {NoKey, BadKey}}
  BY <1>2 DEF ProvInv, IInv, TypeOK, Entry
<1>4. [n \in DOMAIN used |-> line(used[n])] \in Lines
  <2> HIDE DEF slots, line
  <2> QED BY <1>2, <1>3, ListingFact DEF Lines
<1>5. [n \in DOMAIN used |-> line(used[n])]
        = [n \in DOMAIN used |-> <<keys[used[n]].addr, FirstByte[keys[used[n]].key]>>]
  OBVIOUS
<1> HIDE DEF slots, line
<1> QED BY <1>1, <1>4, <1>5 DEF slots

LEMMA PrintKept ==
  ASSUME ProvInv, print_bonds \/ spacekeys_print
  PROVE  out' \in Seq(Answers)
<1>1. CASE print_bonds
  BY <1>1, BondsAnswer, AnswerKept DEF Answers
<1>2. CASE spacekeys_print
  BY <1>2, KeysAnswer, AnswerKept DEF Answers
<1> QED BY <1>1, <1>2

LEMMA RestartedLine ==
  ASSUME ProvInv, Restarted
  PROVE  LineTypeOK'
BY DEF Restarted, LineTypeOK, ProvInv, PTypeOK

LEMMA ShellLine ==
  ASSUME ProvInv, Shell
  PROVE  LineTypeOK'
<1>0. LineTypeOK
  BY DEF ProvInv, PTypeOK
<1> USE <1>0 DEF LineTypeOK, NextCmd
<1>1. CASE cmd_settings_load \/ cmd_coin_add \/ cmd_coin_del \/ cmd_central_setup \/ cmd_ble_start
  <2>1. cmd # <<>> /\ cmd' = Tail(cmd) /\ UNCHANGED <<out, port>>
    BY <1>1 DEF cmd_settings_load, cmd_coin_add, cmd_coin_del, cmd_central_setup, cmd_ble_start,
                Configures, Reads
  <2> QED BY <2>1, HeadFact
<1>2. CASE deliver_key \/ deliver_bond
  BY <1>2 DEF deliver_key, deliver_bond, lineVars
<1>3. CASE settings_loaded
  <2>1. [of |-> "load", id |-> id] \in Answers
    BY DEF ProvInv, PTypeOK, StationTypeOK, Answers
  <2> QED BY <1>3, <2>1, AnswerKept DEF settings_loaded
<1>4. CASE cmd_print
  <2>1. cmd # <<>> /\ cmd' = Tail(cmd) /\ UNCHANGED port /\ (print_bonds \/ spacekeys_print)
    BY <1>4 DEF cmd_print, Reads
  <2> QED BY <2>1, HeadFact, PrintKept
<1>5. CASE bt_keys_store \/ del_spacekey \/ save_irk
  <2>1. UNCHANGED <<cmd, port>> /\ Done
    BY <1>5 DEF bt_keys_store, del_spacekey, save_irk
  <2> QED BY <2>1, DoneKept
<1>6. CASE clear_storage
  <2>1. CASE ble_stack_running
    <3>1. cmd # <<>> /\ cmd' = Tail(cmd) /\ UNCHANGED <<out, port>>
      BY <1>6, <2>1 DEF clear_storage, Configures, Reads
    <3> QED BY <3>1, HeadFact
  <2>2. CASE ~ble_stack_running
    BY <1>6, <2>2, RestartedLine DEF clear_storage, Configures
  <2> QED BY <2>1, <2>2
<1>7. CASE cmd_reboot
  BY <1>7, RestartedLine DEF cmd_reboot
<1> QED BY <1>1, <1>2, <1>3, <1>4, <1>5, <1>6, <1>7 DEF Shell

-----------------------------------------------------------------------------
(* The host's end of the line, and what it keeps.                          *)

LEMMA HeardKept ==
  ASSUME ProvInv, out # <<>>, Heard
  PROVE  out' \in Seq(Answers) /\ UNCHANGED port
BY HeardFact DEF Heard

\* The data base has keys for the coins the host adds.
LEMMA DataFact ==
  ASSUME ProvInv
  PROVE  /\ db.id \in Ids
         /\ \A a \in Missing : a \in Addrs /\ db.coins[a] \in Keys
BY DataAssumption DEF ProvInv, PTypeOK, HostTypeOK, Missing

LEMMA AddNextKept ==
  ASSUME ProvInv, add_next
  PROVE  /\ cmd' \in Seq(Command) /\ pc' \in {"add", "end"}
         /\ present' \subseteq Addrs /\ config_mode' \in BOOLEAN
<1>0. config_mode \in BOOLEAN /\ present \subseteq Addrs
  BY DEF ProvInv, PTypeOK, HostTypeOK
<1>1. ASSUME NEW a \in Missing, present' = present \cup {a}, UNCHANGED config_mode,
             Await("add", [op |-> "add", addr |-> a, key |-> db.coins[a]])
      PROVE  /\ cmd' \in Seq(Command) /\ pc' \in {"add", "end"}
             /\ present' \subseteq Addrs /\ config_mode' \in BOOLEAN
  <2>1. a \in Addrs /\ db.coins[a] \in Keys
    BY DataFact
  <2>2. [op |-> "add", addr |-> a, key |-> db.coins[a]] \in Command
    BY <2>1 DEF Command
  <2> QED BY <1>0, <1>1, <2>1, <2>2, SendKept DEF Await
<1>2. CASE config_mode' = FALSE /\ Await("end", [op |-> "reboot"]) /\ UNCHANGED present
  <2>1. [op |-> "reboot"] \in Command
    BY DEF Command
  <2> QED BY <1>0, <1>2, <2>1, SendKept DEF Await
<1> QED BY <1>1, <1>2 DEF add_next

LEMMA CompareKept ==
  ASSUME ProvInv, compare_lengths
  PROVE  cmd' \in Seq(Command) /\ pc' = "zip"
<1>1. [op |-> "clear"] \in Command
  BY DEF Command
<1> QED BY <1>1, SendKept DEF compare_lengths, ProvInv, PTypeOK, LineTypeOK

LEMMA ConnectKept ==
  ASSUME ProvInv, connect, UNCHANGED boundVars
  PROVE  LineTypeOK' /\ HostTypeOK'
<1>0. LineTypeOK /\ HostTypeOK
  BY DEF ProvInv, PTypeOK
<1>1. FirstCommand \in {"reboot", "load", "ble"}
  BY DEF FirstCommand
<1>2. [op |-> FirstCommand] \in Command
  BY <1>1 DEF Command
<1>3. LineTypeOK'
  BY <1>0, <1>2 DEF connect, Flushed, LineTypeOK
<1>4. NothingSeen \in [id : Ids \cup {NoId}, bonds : Seq(Addrs), keys : Lines]
  BY DEF NothingSeen, Lines
<1>5. pc' \in {"reboot", "load", "run"}
  BY <1>1 DEF connect
<1>6. seen' = NothingSeen /\ at' = 1 /\ present' = {} /\ first_start' = FALSE /\ UNCHANGED <<config_mode, db>>
  BY DEF connect, LeftInMode
<1>7. pc' \in waiting /\ UNCHANGED <<starts, cuts, drops>>
  BY <1>5 DEF waiting, boundVars
<1>8. seen' \in [id : Ids \cup {NoId}, bonds : Seq(Addrs), keys : Lines]
  BY <1>4, <1>6
<1>9. at' \in Nat \ {0} /\ present' \subseteq Addrs
  BY <1>6
<1>10. first_start' \in BOOLEAN /\ config_mode' \in BOOLEAN /\ db' \in DataBases
  BY <1>0, <1>6 DEF HostTypeOK
<1>11. HostTypeOK'
  BY <1>0, <1>7, <1>8, <1>9, <1>10 DEF HostTypeOK
<1> QED BY <1>3, <1>11

LEMMA ReadKept ==
  ASSUME ProvInv, UNCHANGED boundVars, read_settings \/ request_bonds \/ request_spacekeys \/ set_up
  PROVE  LineTypeOK' /\ HostTypeOK'
<1>0. LineTypeOK /\ HostTypeOK
  BY DEF ProvInv, PTypeOK
<1> USE <1>0 DEF LineTypeOK, HostTypeOK, boundVars
<1>1. out # <<>> /\ out' \in Seq(Answers) /\ UNCHANGED port
  BY HeardKept DEF read_settings, request_bonds, request_spacekeys, set_up, Hears, HearsDone
<1>2. Head(out) \in Answers
  BY <1>1, HeardFact
<1>3. CASE read_settings
  <2>1. Head(out).id \in Ids \cup {NoId}
    BY <1>2, <1>3 DEF read_settings, Hears, Answers
  <2>2. [op |-> "bonds"] \in Command
    BY DEF Command
  <2>3. cmd' \in Seq(Command) /\ pc' = "bonds"
    BY <1>3, <2>2, SendKept DEF read_settings, Await
  <2> QED BY <1>1, <1>3, <2>1, <2>3 DEF read_settings, waiting
<1>4. CASE request_bonds
  <2>1. Head(out).list \in Seq(Addrs)
    BY <1>2, <1>4 DEF request_bonds, Hears, Answers
  <2>2. [op |-> "keys"] \in Command
    BY DEF Command
  <2>3. cmd' \in Seq(Command) /\ pc' = "keys"
    BY <1>4, <2>2, SendKept DEF request_bonds, Await
  <2> QED BY <1>1, <1>4, <2>1, <2>3 DEF request_bonds, waiting
<1>5. CASE request_spacekeys
  <2>1. Head(out).list \in Lines
    BY <1>2, <1>5 DEF request_spacekeys, Hears, Answers
  <2>2. [op |-> "clear"] \in Command /\ [op |-> "setup", id |-> db.id] \in Command
    BY DataFact DEF Command
  <2>3. cmd' \in Seq(Command) /\ pc' \in {"zip", "setup", "clear"}
    BY <1>5, <2>2, SendKept, CompareKept DEF request_spacekeys, Await
  <2> QED BY <1>1, <1>5, <2>1, <2>3 DEF request_spacekeys, waiting
<1>6. CASE set_up
  <2>1. cmd' \in Seq(Command) /\ pc' = "zip"
    BY <1>6, CompareKept DEF set_up
  <2> QED BY <1>1, <1>6, <2>1 DEF set_up
<1> QED BY <1>3, <1>4, <1>5, <1>6

\* A step of the loop over both lists reads an answer or leaves the line alone.
LEMMA ZipHears ==
  ASSUME zip
  PROVE  /\ pc \in {"zip", "zip_clear"} /\ UNCHANGED port
         /\ UNCHANGED out \/ (out # <<>> /\ Heard)
BY DEF zip, Judged, HearsDone, Heard

LEMMA ZipKept ==
  ASSUME ProvInv, UNCHANGED boundVars, zip \/ deleted \/ zip_ended \/ added
  PROVE  LineTypeOK' /\ HostTypeOK'
<1>0. LineTypeOK /\ HostTypeOK
  BY DEF ProvInv, PTypeOK
<1> USE <1>0 DEF LineTypeOK, HostTypeOK, boundVars
<1>1. CASE zip
  <2>1. Bond \in Addrs
    BY <1>1 DEF zip, Both, Bond
  <2>2. [op |-> "clear"] \in Command /\ [op |-> "del", addr |-> Bond] \in Command
    BY <2>1 DEF Command
  <2>3. cmd' \in Seq(Command) /\ pc' \in {"zip", "zip_clear", "del"}
    BY <1>1, <2>2, SendKept DEF zip, Await
  <2>4. at' \in Nat \ {0} /\ present' \subseteq Addrs
    BY <1>1, <2>1 DEF zip
  <2>5. out' \in Seq(Answers) /\ UNCHANGED port
    BY <1>1, ZipHears, HeardKept
  <2> QED BY <1>1, <2>3, <2>4, <2>5 DEF zip, waiting
<1>2. CASE deleted
  <2>1. out' \in Seq(Answers) /\ UNCHANGED port
    BY <1>2, HeardKept DEF deleted, HearsDone
  <2> QED BY <1>2, <2>1 DEF deleted
<1>3. CASE zip_ended
  BY <1>3, AddNextKept DEF zip_ended, waiting
<1>4. CASE added
  <2>1. out' \in Seq(Answers) /\ UNCHANGED port
    BY <1>4, HeardKept DEF added, HearsDone
  <2> QED BY <1>4, <2>1, AddNextKept DEF added, waiting
<1> QED BY <1>1, <1>2, <1>3, <1>4

LEMMA HostKept ==
  ASSUME ProvInv, Host, UNCHANGED boundVars
  PROVE  LineTypeOK' /\ HostTypeOK'
<1>0. LineTypeOK /\ HostTypeOK
  BY DEF ProvInv, PTypeOK
<1>1. CASE connect
  BY <1>1, ConnectKept
<1>2. CASE serial_exception
  BY <1>0, <1>2 DEF serial_exception, LineTypeOK, HostTypeOK, boundVars
<1>3. CASE skip_line
  BY <1>0, <1>3, HeardKept DEF skip_line, LineTypeOK, HostTypeOK, hostVars, boundVars
<1>4. CASE rebooted
  BY <1>0, <1>4, HeardKept DEF rebooted, HearsDone, LineTypeOK, HostTypeOK, boundVars, waiting
<1> QED BY <1>1, <1>2, <1>3, <1>4, ReadKept, ZipKept DEF Host

LEMMA EndsKept ==
  ASSUME ProvInv, [PNext]_allVars
  PROVE  LineTypeOK' /\ HostTypeOK'
<1>0. LineTypeOK /\ HostTypeOK
  BY DEF ProvInv, PTypeOK
<1> USE <1>0 DEF HostTypeOK, hostVars, boundVars
<1>1. CASE (Shell \/ watchdog) /\ UNCHANGED <<hostVars, boundVars>>
  BY <1>1, ShellLine, RestartedLine DEF watchdog
<1>2. CASE Host /\ UNCHANGED <<stationVars, boundVars>>
  BY <1>2, HostKept
<1>3. CASE power_cut
  BY <1>3, RestartedLine, BoundAssumption DEF power_cut
<1>4. CASE line_dropped
  BY <1>4, BoundAssumption DEF line_dropped, LineTypeOK
<1>5. CASE host_restarted
  BY <1>5, BoundAssumption DEF host_restarted, LineTypeOK, NothingSeen, Lines
<1>6. CASE UNCHANGED allVars
  BY <1>6 DEF allVars, LineTypeOK, lineVars
<1> QED BY <1>1, <1>2, <1>3, <1>4, <1>5, <1>6 DEF PNext

-----------------------------------------------------------------------------
(* Changes come to a loaded station.                                       *)

LEMMA RestartedLoaded ==
  ASSUME ProvInv, Restarted
  PROVE  LoadedInv'
<1>1. cmd' = <<>> /\ port' # "open" /\ job'.op = "idle"
  BY DEF Restarted, Idle
<1> QED BY <1>1 DEF LoadedInv

\* What a loaded station is asked for and answers.
LEMMA LoadedRead ==
  ASSUME ProvInv, loaded => loaded', UNCHANGED <<port, pc>>,
         cmd' = cmd \/ (cmd # <<>> /\ cmd' = Tail(cmd)),
         out' = out \/ (\E a \in Answers : (a.of = "load" => loaded) /\ Answer(a)),
         job'.op \in {"load", "ble"} /\ todo' = {} => loaded',
         job'.op = "del" => loaded'
  PROVE  LoadedInv'
<1>0. LoadedInv /\ LineTypeOK
  BY DEF ProvInv, PTypeOK
<1>1. \A i \in DOMAIN cmd' : cmd'[i].op \in {"add", "del"} => loaded'
  BY <1>0, HeadFact DEF LoadedInv
<1>2. port = "open" => \A i \in DOMAIN out' : out'[i].of = "load" => loaded'
  <2>1. CASE out' = out
    BY <1>0, <2>1 DEF LoadedInv
  <2>2. ASSUME NEW a \in Answers, a.of = "load" => loaded, Answer(a), port = "open",
               NEW i \in DOMAIN out', out'[i].of = "load"
        PROVE  loaded'
    <3>1. out' = Append(out, a)
      BY <2>2 DEF Answer
    <3>2. (i \in DOMAIN out /\ out'[i] = out[i]) \/ out'[i] = a
      BY <1>0, <2>2, <3>1 DEF LineTypeOK
    <3> QED BY <1>0, <2>2, <3>2 DEF LoadedInv
  <2> QED BY <2>1, <2>2
<1> QED BY <1>0, <1>1, <1>2 DEF LoadedInv

\* The end of a command.
LEMMA LoadedAnswer ==
  ASSUME ProvInv, UNCHANGED <<cmd, port, pc, loaded>>, job' = Idle,
         NEW a \in Answers, a.of = "load" => loaded, Answer(a)
  PROVE  LoadedInv'
<1>1. job'.op \notin {"load", "ble"} /\ job'.op # "del"
  BY DEF Idle
<1>2. loaded => loaded'
  OBVIOUS
<1>3. UNCHANGED <<port, pc>> /\ cmd' = cmd
  OBVIOUS
<1>4. \E b \in Answers : (b.of = "load" => loaded) /\ Answer(b)
  OBVIOUS
<1> QED BY <1>1, <1>2, <1>3, <1>4, LoadedRead

LEMMA ShellLoaded ==
  ASSUME ProvInv, Shell, UNCHANGED hostVars
  PROVE  LoadedInv'
<1>0. LoadedInv /\ UNCHANGED pc
  BY DEF ProvInv, hostVars
<1> USE DEF NextCmd, Configures, Reads
<1>1. CASE cmd_settings_load \/ cmd_ble_start
  <2>1. CASE ble_stack_running
    BY <1>0, <1>1, <2>1, LoadedRead DEF cmd_settings_load, cmd_ble_start, stationVars, keyVars, LoadedInv
  <2>2. CASE ~ble_stack_running
    <3>1. settings_load /\ job'.op \in {"load", "ble"} /\ UNCHANGED <<out, port>>
          /\ cmd # <<>> /\ cmd' = Tail(cmd)
      BY <1>1, <2>2 DEF cmd_settings_load, cmd_ble_start, LoadAll
    <3>2. (loaded => loaded') /\ (todo' = {} => loaded')
      BY <3>1 DEF settings_load, ProvInv, IInv, TypeOK
    <3> QED BY <1>0, <3>1, <3>2, LoadedRead
  <2> QED BY <2>1, <2>2
<1>2. CASE deliver_key
  <2>1. PICK a \in Addrs : space_settings_set(a)
    BY <1>2 DEF deliver_key
  <2>2. (loaded => loaded') /\ (todo' = {} => loaded')
    BY <2>1 DEF space_settings_set, ProvInv, IInv, TypeOK
  <2>3. UNCHANGED <<cmd, out, port, job>>
    BY <1>2 DEF deliver_key, lineVars
  <2> QED BY <1>0, <2>2, <2>3, LoadedRead DEF LoadedInv
<1>3. CASE deliver_bond
  BY <1>0, <1>3 DEF deliver_bond, lineVars, keyVars, LoadedInv
<1>4. CASE settings_loaded
  <2>1. UNCHANGED <<loaded, cmd, port>> /\ job' = Idle /\ loaded
    BY <1>0, <1>4 DEF settings_loaded, keyVars, LoadedInv
  <2> DEFINE a == [of |-> "load", id |-> id]
  <2>2. a \in Answers
    BY DEF ProvInv, PTypeOK, StationTypeOK, Answers
  <2>3. out' = out \/ Answer(a)
    BY <1>4 DEF settings_loaded
  <2> HIDE DEF a
  <2>4. CASE Answer(a)
    BY <1>0, <2>1, <2>2, <2>4, LoadedAnswer
  <2>5. CASE out' = out
    <3>1. job'.op \notin {"load", "ble"} /\ job'.op # "del"
      BY <2>1 DEF Idle
    <3> QED BY <1>0, <2>1, <2>5, <3>1, LoadedRead
  <2> QED BY <2>3, <2>4, <2>5
<1>5. CASE cmd_print
  <2>1. cmd # <<>> /\ cmd' = Tail(cmd) /\ UNCHANGED <<port, loaded, todo, job>>
    BY <1>5 DEF cmd_print, stationVars, keyVars
  <2>2. out' \in Seq(Answers) /\ (print_bonds \/ spacekeys_print)
    BY <1>5, PrintKept DEF cmd_print
  <2>3. PICK a : a.of # "load" /\ Answer(a)
    BY <2>2 DEF print_bonds, spacekeys_print
  <2>4. port = "open" => \A i \in DOMAIN out' : out'[i].of = "load" => loaded'
    <3>1. SUFFICES ASSUME port = "open", NEW i \in DOMAIN out', out'[i].of = "load"
                   PROVE  loaded'
      OBVIOUS
    <3>2. out' = Append(out, a)
      BY <2>3, <3>1 DEF Answer
    <3>3. (i \in DOMAIN out /\ out'[i] = out[i]) \/ out'[i] = a
      BY <3>1, <3>2 DEF ProvInv, PTypeOK, LineTypeOK
    <3> QED BY <1>0, <2>1, <2>3, <3>1, <3>3 DEF LoadedInv
  <2> QED BY <1>0, <2>1, <2>4, HeadFact DEF LoadedInv
<1>6. CASE cmd_coin_add \/ cmd_coin_del \/ cmd_central_setup
  <2>1. cmd # <<>> /\ cmd' = Tail(cmd) /\ UNCHANGED <<port, out, loaded>>
    BY <1>6 DEF cmd_coin_add, cmd_coin_del, cmd_central_setup, stationVars, keyVars, spacekey_add
  <2>2. 1 \in DOMAIN cmd /\ (cmd[1].op = "del" => loaded)
    BY <1>0, <2>1, HeadFact DEF LoadedInv
  <2>3. \/ UNCHANGED <<job, todo>>
        \/ job'.op \in {"add", "setup", "idle"}
        \/ job'.op = "del" /\ cmd[1].op = "del"
    BY <1>6, HeadFact DEF cmd_coin_add, cmd_coin_del, cmd_central_setup, stationVars, keyVars, Idle
  <2> QED BY <1>0, <2>1, <2>2, <2>3, LoadedRead DEF LoadedInv
<1>7. CASE bt_keys_store \/ del_spacekey \/ save_irk
  <2> DEFINE a == [of |-> "done"]
  <2>1. UNCHANGED <<loaded, cmd, port>> /\ job' = Idle /\ Answer(a)
    BY <1>7 DEF bt_keys_store, del_spacekey, save_irk, keyVars, spacekey_del, Done
  <2>2. a \in Answers /\ a.of # "load"
    BY DEF Answers
  <2> HIDE DEF a
  <2> QED BY <1>0, <2>1, <2>2, LoadedAnswer
<1>8. CASE clear_storage
  <2>1. CASE ble_stack_running
    BY <1>0, <1>8, <2>1, LoadedRead DEF clear_storage, stationVars, keyVars, LoadedInv
  <2>2. CASE ~ble_stack_running
    BY <1>8, <2>2, RestartedLoaded DEF clear_storage
  <2> QED BY <2>1, <2>2
<1>9. CASE cmd_reboot
  BY <1>9, RestartedLoaded DEF cmd_reboot
<1> QED BY <1>1, <1>2, <1>3, <1>4, <1>5, <1>6, <1>7, <1>8, <1>9 DEF Shell

\* What the host does once it has heard that the station is loaded.
LEMMA LoadedHost ==
  ASSUME ProvInv, UNCHANGED <<loaded, todo, job, port>>, port = "open" => loaded,
         port # "open" => UNCHANGED cmd, UNCHANGED out \/ (out # <<>> /\ Heard)
  PROVE  LoadedInv'
<1>0. LoadedInv
  BY DEF ProvInv
<1>1. \A i \in DOMAIN cmd' : cmd'[i].op \in {"add", "del"} => loaded'
  BY <1>0 DEF LoadedInv
<1>2. port = "open" => \A i \in DOMAIN out' : out'[i].of = "load" => loaded'
  OBVIOUS
<1> QED BY <1>0, <1>1, <1>2 DEF LoadedInv

LEMMA ConnectLoaded ==
  ASSUME ProvInv, connect, UNCHANGED stationVars
  PROVE  LoadedInv'
<1>1. FirstCommand \in {"reboot", "load", "ble"}
  BY DEF FirstCommand
<1>2. cmd' = Append(cmd, [op |-> FirstCommand]) /\ cmd \in Seq(Command)
  BY DEF connect, ProvInv, PTypeOK, LineTypeOK
<1>3. ASSUME NEW i \in DOMAIN cmd', cmd'[i].op \in {"add", "del"}
      PROVE  loaded
  <2>1. cmd'[i].op # FirstCommand
    BY <1>1, <1>3
  <2>2. i \in DOMAIN cmd /\ cmd'[i] = cmd[i]
    BY <1>2, <1>3, <2>1
  <2> QED BY <1>3, <2>2 DEF ProvInv, LoadedInv
<1>4. out' = <<>> /\ pc' \notin Told
  BY <1>1 DEF connect, Flushed, Told
<1>5. UNCHANGED <<loaded, todo, job>>
  BY DEF stationVars, keyVars
<1> QED BY <1>3, <1>4, <1>5 DEF ProvInv, LoadedInv

LEMMA HostLoaded ==
  ASSUME ProvInv, Host, UNCHANGED stationVars
  PROVE  LoadedInv'
<1>0. LoadedInv /\ LineTypeOK /\ UNCHANGED <<loaded, todo, job>>
  BY DEF ProvInv, PTypeOK, stationVars, keyVars
<1>1. CASE connect
  BY <1>1, ConnectLoaded
<1>2. CASE serial_exception
  BY <1>0, <1>2 DEF serial_exception, LoadedInv
<1>3. CASE skip_line \/ rebooted
  <2>1. /\ out # <<>> /\ out' = Tail(out) /\ UNCHANGED <<cmd, port>>
        /\ pc' = pc \/ pc' \in {"open", "run"}
    BY <1>3 DEF skip_line, rebooted, Heard, HearsDone, Hears, hostVars
  <2> QED BY <1>0, <2>1, HeardFact DEF LoadedInv, Told, waiting
<1>4. CASE read_settings \/ request_bonds \/ request_spacekeys \/ set_up \/ deleted \/ added
  <2>1. out # <<>> /\ Heard /\ UNCHANGED port
    BY <1>4 DEF read_settings, request_bonds, request_spacekeys, set_up, deleted, added,
                Hears, HearsDone, Heard
  <2>2. pc \in Told \/ (pc = "load" /\ Hears("load"))
    BY <1>4 DEF read_settings, request_bonds, request_spacekeys, set_up, deleted, added, Told, waiting
  <2>3. port = "open" => loaded
    BY <1>0, <2>2, HeardFact DEF LoadedInv, Hears
  <2>4. port # "open" => UNCHANGED cmd
    BY <1>4 DEF read_settings, request_bonds, request_spacekeys, set_up, deleted, added,
                compare_lengths, add_next, Await, Send
  <2> QED BY <1>0, <2>1, <2>3, <2>4, LoadedHost
<1>5. CASE zip \/ zip_ended
  <2>1. /\ pc \in {"zip", "zip_clear"} /\ UNCHANGED port
        /\ UNCHANGED out \/ (out # <<>> /\ Heard)
    BY <1>5, ZipHears DEF zip_ended
  <2>2. port = "open" => loaded
    BY <1>0, <2>1 DEF LoadedInv, Told, waiting
  <2>3. port # "open" => UNCHANGED cmd
    BY <1>5 DEF zip, zip_ended, add_next, Await, Send
  <2> QED BY <1>0, <2>1, <2>2, <2>3, LoadedHost
<1> QED BY <1>1, <1>2, <1>3, <1>4, <1>5 DEF Host

LEMMA LoadedKept ==
  ASSUME ProvInv, [PNext]_allVars
  PROVE  LoadedInv'
<1>0. LoadedInv
  BY DEF ProvInv
<1>1. CASE Shell /\ UNCHANGED <<hostVars, boundVars>>
  BY <1>1, ShellLoaded
<1>2. CASE watchdog \/ power_cut
  BY <1>2, RestartedLoaded DEF watchdog, power_cut
<1>3. CASE Host /\ UNCHANGED <<stationVars, boundVars>>
  BY <1>3, HostLoaded
<1>4. CASE line_dropped
  BY <1>0, <1>4 DEF line_dropped, stationVars, keyVars, LoadedInv
<1>5. CASE host_restarted
  BY <1>0, <1>5 DEF host_restarted, stationVars, keyVars, LoadedInv
<1>6. CASE UNCHANGED allVars
  BY <1>0, <1>6 DEF allVars, stationVars, keyVars, lineVars, hostVars, LoadedInv
<1> QED BY <1>1, <1>2, <1>3, <1>4, <1>5, <1>6 DEF PNext

-----------------------------------------------------------------------------
(* A station with Bluetooth on is rebooted before it is asked for anything. *)

\* The shell has read a command: the others move up.
LEMMA OffRead ==
  ASSUME ProvInv, cmd # <<>>, cmd' = Tail(cmd), Head(cmd).op # "reboot",
         ble_stack_running' => ble_stack_running \/ Head(cmd).op = "ble",
         NEW n \in 1..Len(cmd), OffAt(n + 1)
  PROVE  OffAt(n)'
<1>0. Len(cmd) \in Nat /\ Head(cmd) = cmd[1]
  BY HeadFact DEF ProvInv, PTypeOK, LineTypeOK
<1>1. \A i \in 1..n - 1 : cmd'[i] = cmd[i + 1]
  BY <1>0, HeadFact DEF ProvInv, PTypeOK, LineTypeOK
<1>2. ASSUME ble_stack_running'
      PROVE  \E i \in 1..n - 1 : cmd'[i].op = "reboot"
  <2>1. PICK i \in 1..n : cmd[i].op = "reboot"
    BY <1>2 DEF OffAt
  <2>2. i # 1 /\ i - 1 \in 1..n - 1 /\ (i - 1) + 1 = i
    BY <1>0, <2>1
  <2>3. cmd'[i - 1] = cmd[i]
    BY <1>1, <2>2
  <2> QED BY <2>1, <2>2, <2>3
<1>3. ASSUME NEW i \in 1..n - 1, cmd'[i].op = "ble"
      PROVE  \E j \in i + 1..n - 1 : cmd'[j].op = "reboot"
  <2>1. i + 1 \in 1..n /\ cmd[i + 1].op = "ble"
    BY <1>0, <1>1, <1>3
  <2>2. PICK j \in i + 2..n : cmd[j].op = "reboot"
    BY <1>0, <2>1 DEF OffAt
  <2>3. j - 1 \in i + 1..n - 1 /\ j - 1 \in 1..n - 1
    BY <1>0
  <2> QED BY <1>1, <2>2, <2>3
<1> QED BY <1>2, <1>3 DEF OffAt

LEMMA RefusedRead ==
  ASSUME ProvInv, cmd # <<>>, cmd' = Tail(cmd), Head(cmd).op # "reboot",
         ble_stack_running' => ble_stack_running \/ Head(cmd).op = "ble", UNCHANGED hostVars
  PROVE  RefusedInv'
<1>0. RefusedInv /\ Len(cmd) \in Nat /\ Len(cmd) # 0 /\ Len(cmd') = Len(cmd) - 1
  BY HeadFact DEF ProvInv, PTypeOK, LineTypeOK
<1>1. UNCHANGED <<first_start, config_mode, pc>>
  BY DEF hostVars
<1>2. ASSUME NEW n \in DOMAIN cmd', cmd'[n].op \notin {"reboot", "ble"}
      PROVE  OffAt(n)'
  <2>1. n \in 1..Len(cmd) /\ n + 1 \in DOMAIN cmd /\ cmd'[n] = cmd[n + 1]
    BY <1>0, HeadFact DEF ProvInv, PTypeOK, LineTypeOK
  <2>2. OffAt(n + 1)
    BY <1>0, <1>2, <2>1 DEF RefusedInv
  <2> QED BY <2>1, <2>2, OffRead
<1>3. ASSUME NEW n, n = Len(cmd), ~first_start, config_mode
      PROVE  OffAt(n)'
  <2>1. OffAt(n + 1) /\ n \in 1..Len(cmd)
    BY <1>0, <1>3 DEF RefusedInv
  <2> QED BY <2>1, OffRead
<1>4. ~first_start /\ config_mode => OffAt(Len(cmd) + 1)'
  <2> DEFINE n == Len(cmd)
  <2>1. Len(cmd') + 1 = n
    BY <1>0
  <2> HIDE DEF n
  <2> QED BY <1>3, <2>1 DEF OffAt, n
<1> QED BY <1>0, <1>1, <1>2, <1>4 DEF RefusedInv

\* The line and Bluetooth stay as they are.
LEMMA RefusedSame ==
  ASSUME ProvInv, UNCHANGED <<cmd, ble_stack_running>>,
         ~first_start' /\ config_mode' => ~first_start /\ config_mode,
         pc' \in (Told \ {"end"}) \cup {"load"} => ~first_start' /\ config_mode'
  PROVE  RefusedInv'
BY DEF ProvInv, RefusedInv, OffAt

LEMMA RestartedRefused ==
  ASSUME ProvInv, Restarted, UNCHANGED hostVars
  PROVE  RefusedInv'
<1>1. cmd' = <<>> /\ ~ble_stack_running'
  BY DEF Restarted
<1>2. UNCHANGED <<first_start, config_mode, pc>>
  BY DEF hostVars
<1> QED BY <1>1, <1>2 DEF ProvInv, RefusedInv, OffAt

LEMMA ShellRefused ==
  ASSUME ProvInv, Shell, UNCHANGED hostVars
  PROVE  RefusedInv'
<1>1. CASE cmd_settings_load \/ cmd_print \/ cmd_coin_add \/ cmd_coin_del \/ cmd_central_setup
  <2>1. /\ cmd # <<>> /\ cmd' = Tail(cmd) /\ Head(cmd).op # "reboot"
        /\ UNCHANGED ble_stack_running
    BY <1>1 DEF cmd_settings_load, cmd_print, cmd_coin_add, cmd_coin_del, cmd_central_setup,
                Configures, Reads, NextCmd, stationVars
  <2> QED BY <2>1, RefusedRead
<1>2. CASE deliver_key \/ deliver_bond \/ settings_loaded \/ bt_keys_store \/ del_spacekey \/ save_irk
  <2>1. UNCHANGED <<cmd, ble_stack_running>>
    BY <1>2 DEF deliver_key, deliver_bond, settings_loaded, bt_keys_store, del_spacekey, save_irk,
                lineVars
  <2> QED BY <2>1, RefusedSame DEF ProvInv, RefusedInv, hostVars
<1>3. CASE cmd_ble_start
  <2>1. cmd # <<>> /\ cmd' = Tail(cmd) /\ Head(cmd).op = "ble"
    BY <1>3 DEF cmd_ble_start, Reads, NextCmd
  <2> QED BY <2>1, RefusedRead
<1>4. CASE clear_storage
  <2>1. CASE ble_stack_running
    <3>1. /\ cmd # <<>> /\ cmd' = Tail(cmd) /\ Head(cmd).op # "reboot"
          /\ UNCHANGED ble_stack_running
      BY <1>4, <2>1 DEF clear_storage, Configures, Reads, NextCmd, stationVars
    <3> QED BY <3>1, RefusedRead
  <2>2. CASE ~ble_stack_running
    BY <1>4, <2>2, RestartedRefused DEF clear_storage, Configures
  <2> QED BY <2>1, <2>2
<1>5. CASE cmd_reboot
  BY <1>5, RestartedRefused DEF cmd_reboot
<1> QED BY <1>1, <1>2, <1>3, <1>4, <1>5 DEF Shell

\* A command at the end of the line changes nothing for those before it.
LEMMA OffSent ==
  ASSUME ProvInv, NEW c \in Command, cmd' = Append(cmd, c), UNCHANGED ble_stack_running,
         NEW n \in 1..Len(cmd) + 1, OffAt(n)
  PROVE  OffAt(n)'
<1>1. \A i \in 1..n - 1 : cmd'[i] = cmd[i]
  BY DEF ProvInv, PTypeOK, LineTypeOK
<1>2. \A i \in 1..n - 1 : i + 1..n - 1 \subseteq 1..n - 1
  BY DEF ProvInv, PTypeOK, LineTypeOK
<1> QED BY <1>1, <1>2 DEF OffAt

\* Behind a reboot Bluetooth is off, and behind another command it stays so.
LEMMA OffBehind ==
  ASSUME ProvInv, NEW c \in Command, cmd' = Append(cmd, c), UNCHANGED ble_stack_running,
         c.op = "reboot" \/ (c.op # "ble" /\ OffAt(Len(cmd) + 1)),
         NEW n, n = Len(cmd) + 2
  PROVE  OffAt(n)'
<1>1. Len(cmd) \in Nat /\ cmd'[n - 1] = c /\ n - 1 = Len(cmd) + 1
  BY DEF ProvInv, PTypeOK, LineTypeOK
<1>2. \A i \in 1..n - 2 : cmd'[i] = cmd[i]
  BY DEF ProvInv, PTypeOK, LineTypeOK
<1>3. CASE c.op = "reboot"
  <2>1. n - 1 \in 1..n - 1 /\ cmd'[n - 1].op = "reboot"
    BY <1>1, <1>3
  <2>2. \A i \in 1..n - 1 : cmd'[i].op = "ble" => n - 1 \in i + 1..n - 1
    BY <1>1, <1>3
  <2> QED BY <2>1, <2>2 DEF OffAt
<1>4. CASE c.op # "ble" /\ OffAt(Len(cmd) + 1)
  <2>1. ASSUME ble_stack_running
        PROVE  \E i \in 1..n - 1 : cmd'[i].op = "reboot"
    BY <1>1, <1>2, <1>4, <2>1 DEF OffAt
  <2>2. ASSUME NEW i \in 1..n - 1, cmd'[i].op = "ble"
        PROVE  \E j \in i + 1..n - 1 : cmd'[j].op = "reboot"
    <3>1. i \in 1..Len(cmd) /\ cmd[i].op = "ble"
      BY <1>1, <1>2, <1>4, <2>2
    <3>2. PICK j \in i + 1..Len(cmd) : cmd[j].op = "reboot"
      BY <1>1, <1>4, <3>1 DEF OffAt
    <3>3. j \in i + 1..n - 1 /\ cmd'[j] = cmd[j]
      BY <1>1, <1>2, <3>1
    <3> QED BY <3>2, <3>3
  <2> QED BY <2>1, <2>2 DEF OffAt
<1> QED BY <1>3, <1>4

\* One more command, sent at a place where Bluetooth is off unless it is for
\* that place to switch it.
LEMMA RefusedAppend ==
  ASSUME ProvInv, NEW c \in Command, cmd' = Append(cmd, c), UNCHANGED ble_stack_running,
         \/ c.op = "reboot"
         \/ c.op # "ble" /\ OffAt(Len(cmd) + 1)
         \/ c.op = "ble" /\ ~config_mode',
         pc' \in (Told \ {"end"}) \cup {"load"} => ~first_start' /\ config_mode'
  PROVE  RefusedInv'
<1>0. RefusedInv /\ Len(cmd) \in Nat
  BY DEF ProvInv, PTypeOK, LineTypeOK
<1>1. ASSUME NEW n \in DOMAIN cmd', cmd'[n].op \notin {"reboot", "ble"}
      PROVE  OffAt(n)'
  <2>1. /\ n \in 1..Len(cmd) + 1 /\ (n \in DOMAIN cmd => cmd'[n] = cmd[n])
        /\ n \in DOMAIN cmd \/ (n = Len(cmd) + 1 /\ cmd'[n] = c)
    BY DEF ProvInv, PTypeOK, LineTypeOK
  <2>2. OffAt(n)
    BY <1>0, <1>1, <2>1 DEF RefusedInv
  <2> QED BY <2>1, <2>2, OffSent
<1>2. ASSUME c.op # "ble" \/ config_mode'
      PROVE  OffAt(Len(cmd) + 1)'
  <2> DEFINE n == Len(cmd) + 2
  <2>1. Len(cmd') + 1 = n
    BY DEF ProvInv, PTypeOK, LineTypeOK
  <2>2. \A m : m = Len(cmd) + 2 => OffAt(m)'
    BY <1>2, OffBehind
  <2> HIDE DEF n
  <2> QED BY <2>1, <2>2 DEF OffAt, n
<1> QED BY <1>1, <1>2 DEF RefusedInv

\* What the host sends once it has a station with Bluetooth off.
LEMMA RefusedSend ==
  ASSUME ProvInv, NEW c \in Command, Send(c), c.op # "ble", ~first_start, config_mode,
         UNCHANGED <<first_start, ble_stack_running>>,
         pc' \in (Told \ {"end"}) \cup {"load"} => config_mode'
  PROVE  RefusedInv'
<1>1. CASE port # "open"
  <2>1. UNCHANGED cmd
    BY <1>1 DEF Send
  <2> QED BY <2>1, RefusedSame
<1>2. CASE port = "open"
  <2>1. cmd' = Append(cmd, c) /\ OffAt(Len(cmd) + 1)
    BY <1>2 DEF Send, ProvInv, RefusedInv
  <2> QED BY <2>1, RefusedAppend
<1> QED BY <1>1, <1>2

LEMMA ConnectRefused ==
  ASSUME ProvInv, connect, UNCHANGED ble_stack_running
  PROVE  RefusedInv'
<1> DEFINE c == [op |-> FirstCommand]
<1>1. /\ cmd' = Append(cmd, c) /\ first_start' = FALSE /\ UNCHANGED config_mode
      /\ pc' = IF FirstCommand = "ble" THEN "run" ELSE FirstCommand
  BY DEF connect, LeftInMode
<1>2. c \in Command /\ c.op = FirstCommand
  BY DEF Command, FirstCommand
<1> HIDE DEF c
<1>3. CASE first_start
  <2>1. c.op = "reboot" /\ pc' = "reboot"
    BY <1>1, <1>2, <1>3 DEF FirstCommand
  <2>2. pc' \notin (Told \ {"end"}) \cup {"load"}
    BY <2>1 DEF Told
  <2> QED BY <1>1, <1>2, <2>1, <2>2, RefusedAppend
<1>4. CASE ~first_start /\ config_mode
  <2>1. c.op # "ble" /\ OffAt(Len(cmd) + 1)
    BY <1>2, <1>4 DEF FirstCommand, ProvInv, RefusedInv
  <2> QED BY <1>1, <1>2, <1>4, <2>1, RefusedAppend
<1>5. CASE ~first_start /\ ~config_mode
  <2>1. c.op = "ble" /\ pc' = "run"
    BY <1>1, <1>2, <1>5 DEF FirstCommand
  <2>2. pc' \notin (Told \ {"end"}) \cup {"load"}
    BY <2>1 DEF Told
  <2> QED BY <1>1, <1>2, <1>5, <2>1, <2>2, RefusedAppend
<1> QED BY <1>3, <1>4, <1>5

LEMMA AddNextRefused ==
  ASSUME ProvInv, add_next, ~first_start, config_mode, UNCHANGED <<first_start, ble_stack_running>>
  PROVE  RefusedInv'
<1>1. ASSUME NEW a \in Missing, UNCHANGED config_mode,
             Await("add", [op |-> "add", addr |-> a, key |-> db.coins[a]])
      PROVE  RefusedInv'
  <2> DEFINE c == [op |-> "add", addr |-> a, key |-> db.coins[a]]
  <2>1. c \in Command /\ c.op # "ble"
    BY DataFact DEF Command
  <2>2. Send(c)
    BY <1>1 DEF Await
  <2> HIDE DEF c
  <2> QED BY <1>1, <2>1, <2>2, RefusedSend
<1>2. CASE Await("end", [op |-> "reboot"])
  <2> DEFINE c == [op |-> "reboot"]
  <2>1. c \in Command /\ c.op # "ble"
    BY DEF Command
  <2>2. Send(c) /\ pc' = "end"
    BY <1>2 DEF Await
  <2>3. pc' \notin (Told \ {"end"}) \cup {"load"}
    BY <2>2
  <2> HIDE DEF c
  <2> QED BY <2>1, <2>2, <2>3, RefusedSend
<1> QED BY <1>1, <1>2 DEF add_next

LEMMA CompareRefused ==
  ASSUME ProvInv, compare_lengths, ~first_start, config_mode,
         UNCHANGED <<first_start, config_mode, ble_stack_running>>
  PROVE  RefusedInv'
<1> DEFINE c == [op |-> "clear"]
<1>1. c \in Command /\ c.op # "ble"
  BY DEF Command
<1>2. Send(c) \/ UNCHANGED cmd
  BY DEF compare_lengths
<1> HIDE DEF c
<1> QED BY <1>1, <1>2, RefusedSend, RefusedSame

LEMMA HostRefused ==
  ASSUME ProvInv, Host, UNCHANGED stationVars
  PROVE  RefusedInv'
<1>0. RefusedInv /\ UNCHANGED ble_stack_running
  BY DEF ProvInv, stationVars
<1> DEFINE Busy == (Told \ {"end"}) \cup {"load"}
<1>1. CASE connect
  BY <1>0, <1>1, ConnectRefused
<1>2. CASE serial_exception \/ rebooted
  <2>1. UNCHANGED <<cmd, first_start, config_mode>> /\ pc' \in {"open", "run"}
    BY <1>2 DEF serial_exception, rebooted
  <2>2. pc' \notin Busy
    BY <2>1 DEF Told, waiting
  <2> QED BY <1>0, <2>1, <2>2, RefusedSame
<1>3. CASE skip_line
  BY <1>0, <1>3, RefusedSame DEF skip_line, hostVars, RefusedInv
<1>4. CASE read_settings \/ request_bonds \/ request_spacekeys \/ set_up \/ zip \/ deleted \/ zip_ended \/ added
  <2>1. pc \in Busy /\ UNCHANGED first_start
    BY <1>4, ZipHears
       DEF read_settings, request_bonds, request_spacekeys, set_up, zip, deleted, zip_ended,
           added, Told, waiting
  <2>2. ~first_start /\ config_mode
    BY <1>0, <2>1 DEF RefusedInv
  <2>3. CASE UNCHANGED <<cmd, config_mode>>
    BY <1>0, <2>1, <2>2, <2>3, RefusedSame
  <2>4. CASE add_next
    BY <1>0, <2>1, <2>2, <2>4, AddNextRefused
  <2>5. CASE compare_lengths /\ UNCHANGED config_mode
    BY <1>0, <2>1, <2>2, <2>5, CompareRefused
  <2>6. ASSUME NEW c \in Command, c.op # "ble", Send(c), UNCHANGED config_mode
        PROVE  RefusedInv'
    BY <1>0, <2>1, <2>2, <2>6, RefusedSend
  <2>7. CASE read_settings
    BY <2>6, <2>7 DEF read_settings, Await, Command
  <2>8. CASE request_bonds
    BY <2>6, <2>8 DEF request_bonds, Await, Command
  <2>9. CASE request_spacekeys
    <3>1. [op |-> "clear"] \in Command /\ [op |-> "setup", id |-> db.id] \in Command
      BY DataFact DEF Command
    <3> QED BY <2>5, <2>6, <2>9, <3>1 DEF request_spacekeys, Await
  <2>10. CASE zip
    <3>1. Bond \in Addrs
      BY <2>10 DEF zip, Both, Bond, ProvInv, PTypeOK, HostTypeOK
    <3>2. [op |-> "clear"] \in Command /\ [op |-> "del", addr |-> Bond] \in Command
      BY <3>1 DEF Command
    <3> QED BY <2>3, <2>6, <2>10, <3>2 DEF zip, Await
  <2>11. CASE set_up
    BY <2>5, <2>11 DEF set_up
  <2>12. CASE deleted
    BY <2>3, <2>12 DEF deleted
  <2>13. CASE zip_ended \/ added
    BY <2>4, <2>13 DEF zip_ended, added
  <2> QED BY <1>4, <2>7, <2>8, <2>9, <2>10, <2>11, <2>12, <2>13
<1> QED BY <1>1, <1>2, <1>3, <1>4 DEF Host

LEMMA RefusedKept ==
  ASSUME ProvInv, [PNext]_allVars
  PROVE  RefusedInv'
<1>1. CASE Shell /\ UNCHANGED <<hostVars, boundVars>>
  BY <1>1, ShellRefused
<1>2. CASE (watchdog /\ UNCHANGED <<hostVars, boundVars>>) \/ power_cut
  BY <1>2, RestartedRefused DEF watchdog, power_cut
<1>3. CASE Host /\ UNCHANGED <<stationVars, boundVars>>
  BY <1>3, HostRefused
<1>4. CASE line_dropped
  BY <1>4, RefusedSame DEF line_dropped, stationVars, hostVars, ProvInv, RefusedInv
<1>5. CASE host_restarted
  <2>1. pc' = "open" /\ first_start' /\ UNCHANGED <<cmd, ble_stack_running>>
    BY <1>5 DEF host_restarted, stationVars
  <2>2. pc' \notin (Told \ {"end"}) \cup {"load"}
    BY <2>1 DEF Told, waiting
  <2> QED BY <2>1, <2>2, RefusedSame
<1>6. CASE UNCHANGED allVars
  BY <1>6, RefusedSame DEF allVars, stationVars, lineVars, hostVars, ProvInv, RefusedInv
<1> QED BY <1>1, <1>2, <1>3, <1>4, <1>5, <1>6 DEF PNext

-----------------------------------------------------------------------------
(* The theorems.                                                           *)

LEMMA InitProvInv ==
  ASSUME PInit
  PROVE  ProvInv
<1>1. IInv /\ Init
  BY InitInv DEF PInit
<1>2. StationTypeOK
  BY DEF PInit, StationTypeOK, Job, Idle, NoBonds
<1>3. LineTypeOK
  BY DEF PInit, LineTypeOK
<1>4. HostTypeOK
  BY BoundAssumption DEF PInit, HostTypeOK, NothingSeen, Lines
<1>5. LoadedInv
  BY DEF PInit, LoadedInv, Idle
<1>6. RefusedInv
  BY DEF PInit, RefusedInv, Told, waiting, OffAt
<1> QED BY <1>1, <1>2, <1>3, <1>4, <1>5, <1>6 DEF ProvInv, PTypeOK, IInv

LEMMA NextProvInv ==
  ASSUME ProvInv, [PNext]_allVars
  PROVE  ProvInv'
BY TableKept, StationKept, EndsKept, LoadedKept, RefusedKept DEF ProvInv, PTypeOK, IInv

\* The station, the line and the host keep their ranges, changes meet a loaded
\* station and requests one with Bluetooth off: after any number of resets,
\* power cuts, line failures and restarts of the script.
THEOREM ProvisioningInvariance == PSpec => []ProvInv
<1>1. PInit => ProvInv
  BY InitProvInv
<1>2. ProvInv /\ [PNext]_allVars => ProvInv'
  BY NextProvInv
<1> QED BY <1>1, <1>2, PTL DEF PSpec

\* Every variable of the station and the script keeps its range, and nothing else
\* is ever under way on the line: no key outside the data bases, no address the
\* station does not know how to read.
THEOREM ProvisioningTypeCorrect == PSpec => []PTypeOK
BY ProvisioningInvariance, PTL DEF ProvInv

\* The script never changes the table of a station that has not loaded it: its
\* use of the shell is that of ManagedSpec, for which SpaceKeysProofs shows that
\* the table is what the store says.
THEOREM ScriptManages == PSpec => UsesManaged
<1>1. PInit => Init
  BY DEF PInit
<1>2. ProvInv /\ [PNext]_allVars => [ManagedNext]_vars
  BY StepIsManaged
<1> QED BY <1>1, <1>2, ProvisioningInvariance, PTL DEF PSpec, UsesManaged, ManagedSpec

\* A provisioned station whose table is loaded lets in the coins of its store,
\* each with its key there, whatever interrupted the script.
THEOREM ProvisionedTableIsStore == PSpec => []TableIsStore
BY ScriptManages, TableMatchesStore, PTL DEF UsesManaged

\* Whatever the script deletes is gone from the store, also for a station that
\* was reset or reloaded since the coin was added.
THEOREM ProvisionedDeletion ==
  ASSUME Faults = {}
  PROVE  PSpec => DeleteForgets
BY ScriptManages, DeletionIsStored, PTL DEF UsesManaged

\* The script never waits for the answer of a command that a station with
\* Bluetooth on refuses in silence.
THEOREM NoSilentRefusal == PSpec => []NeverRefused
<1>1. ProvInv => NeverRefused
  <2> SUFFICES ASSUME ProvInv, cmd # <<>>, ble_stack_running, Head(cmd).op \notin {"reboot", "ble"}
               PROVE  FALSE
    BY DEF NeverRefused
  <2>1. 1 \in DOMAIN cmd /\ Head(cmd) = cmd[1]
    BY HeadFact
  <2>2. OffAt(1)
    BY <2>1 DEF ProvInv, RefusedInv
  <2> QED BY <2>2 DEF OffAt
<1> QED BY <1>1, ProvisioningInvariance, PTL

=============================================================================
