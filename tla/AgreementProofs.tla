--------------------------- MODULE AgreementProofs ---------------------------
(***************************************************************************)
(* Theorems about a station the script believes synchronised: what it has  *)
(* is what the data base of the script wants, and without power cuts all   *)
(* of that.  The flash never fails to save a record.                       *)
(***************************************************************************)
EXTENDS SynchronisationProofs

-----------------------------------------------------------------------------
(* The lists of the script.                                                *)

\* A reset may find the shell in the middle of a command.
Untouched  == /\ UNCHANGED <<store, bondstore>>
              /\ job' = job \/ job'.op \in {"idle", "load", "ble", "setup"}
TableStep  == Untouched \/ StoreStep

\* Nothing new is stored.
Shrinks == /\ bondstore' \subseteq bondstore
           /\ \A a \in Addrs : store'[a] \in Keys => store'[a] = store[a]

LEMMA ShrinkFact ==
  ASSUME ProvInv, BondInv, TableStep
  PROVE  Shrinks \/ AddsKey \/ AddsBond
<1>1. CASE Untouched
  BY <1>1 DEF Untouched, Shrinks
<1>2. CASE DropsBond
  BY <1>2 DEF DropsBond, Shrinks
<1>3. CASE DropsKey
  BY <1>3 DEF DropsKey, Shrinks
<1>4. CASE Clears
  BY <1>4, ValueAssumption DEF Clears, Shrinks
<1>5. Quiet => Untouched
  BY DEF Quiet, Untouched
<1> QED BY <1>1, <1>2, <1>3, <1>4, <1>5 DEF TableStep, StoreStep

\* What is wanted of the bonds stays wanted.
LEMMA WantedKept ==
  ASSUME ProvInv, BondInv', StationTypeOK', Shrinks, UNCHANGED db
  PROVE  \A a \in bondstore' : a \in bondstore /\ (Wanted(a) => Wanted(a)') /\ store'[a] = store[a]
<1>1. \A a \in bondstore' : a \in bondstore /\ a \in Addrs /\ store'[a] \in Keys
  BY DEF Shrinks, BondInv, BondsKeyed, HasKey
<1> QED BY <1>1 DEF Shrinks, Wanted

LEMMA ComparedKept ==
  ASSUME ProvInv, BondInv', StationTypeOK', Shrinks, UNCHANGED hostVars, Compared
  PROVE  Compared'
<1>0. UNCHANGED <<db, seen, at>>
  BY DEF hostVars
<1>1. KeysListed(seen.keys)'
  <2>1. \A i \in DOMAIN seen.keys : seen.keys[i][1] \in Addrs
    BY DEF ProvInv, PTypeOK, HostTypeOK, Lines
  <2> QED BY <1>0, <2>1 DEF Shrinks, Compared, KeysListed
<1>2. \A a \in bondstore' : a \in bondstore /\ (Wanted(a) => Wanted(a)')
  BY <1>0, WantedKept
<1> QED BY <1>0, <1>1, <1>2 DEF Compared

\* Where the script waits for a list the station stores nothing.
LEMMA ListsStill ==
  ASSUME ProvInv, LineInv, StationTypeOK', TableStep, pc \in {"bonds", "keys"}
  PROVE  UNCHANGED <<store, bondstore>>
<1>1. job.op \in {"idle", "load"} /\ \A i \in DOMAIN cmd : cmd[i].op \in {"load", "bonds", "keys"}
  BY IdleFact DEF LineInv, BondsLine, KeysLine
<1>2. cmd # <<>> => cmd[1].op \in {"load", "bonds", "keys"}
  BY <1>1, HeadFact
<1> QED BY <1>1, <1>2
    DEF TableStep, StoreStep, Quiet, Untouched, AddsKey, AddsBond, DropsBond, DropsKey, Clears

\* Anything is added in one state only, and it is what the script wants.
LEMMA OnlyAddAdds ==
  ASSUME ProvInv, LineInv, ListInv, TableStep, AddsKey \/ AddsBond,
         pc \in Changing \/ ~config_mode
  PROVE  /\ pc = "add"
         /\ AddsKey => db.coins[cmd[1].addr] = cmd[1].key
         /\ AddsBond => store[job.addr] = db.coins[job.addr]
<1>1. AddsKey => cmd[1].op = "add" /\ 1 \in DOMAIN cmd
  BY HeadFact DEF AddsKey
<1>2. AddsBond => job.op = "add" /\ job # Idle
  BY DEF AddsBond, Idle
<1>3. config_mode
  BY <1>1, <1>2 DEF ListInv, Over
<1>4. ChangeLine
  BY <1>3 DEF LineInv
<1>5. AddsKey => pc = "add" /\ db.coins[cmd[1].addr] = cmd[1].key
  BY <1>1, <1>4 DEF ChangeLine, Awaited
<1>6. AddsBond => pc = "add" /\ store[job.addr] = db.coins[job.addr]
  BY <1>2, <1>4 DEF ChangeLine, ListInv
<1> QED BY <1>5, <1>6

\* While a coin is deleted the station deletes nothing else, and its "done"
\* comes after the bond has gone.
LEMMA DelKept ==
  ASSUME ProvInv, LineInv, LineTypeOK', StationTypeOK', BondInv, ListInv, TableStep, LineStep,
         UNCHANGED hostVars, pc = "del"
  PROVE  /\ job'.op = "del" => job'.addr = Bond
         /\ out' # <<>> => Bond \notin bondstore'
<1>1. ChangeLine /\ (job.op = "del" => job.addr = Bond) /\ (out # <<>> => Bond \notin bondstore)
  BY DEF LineInv, Changing, ListInv
<1>2. Shrinks
  BY ShrinkFact, OnlyAddAdds DEF Changing
<1>3. cmd # <<>> => cmd[1].op = "clear" \/ (cmd[1].op = "del" /\ cmd[1].addr = Bond)
  BY <1>1, HeadFact DEF ChangeLine, Awaited
<1>4. job # Idle => job.op = "del"
  BY <1>1 DEF ChangeLine
<1>5. job'.op = "del" => job' = job \/ (cmd # <<>> /\ cmd[1].op = "del" /\ job'.addr = cmd[1].addr)
  <2>1. job'.op # "idle" => job' # Idle
    BY IdleFact
  <2> QED BY <1>2, <1>3, <1>4, <2>1, IdleFact
      DEF TableStep, StoreStep, Quiet, Untouched, AddsKey, AddsBond, DropsBond, DropsKey, Clears, Restarted
<1>6. out' # <<>> => Bond \notin bondstore
  <2>1. CASE Silent \/ Begins \/ Restarted
    BY <1>1, <2>1 DEF Silent, lineVars, Begins, Restarted
  <2>2. CASE Prints
    BY <1>3, <2>2 DEF Prints
  <2>3. CASE Finishes
    BY <1>1, <1>4, <2>3 DEF Finishes, BondInv, BondsKeyed
  <2> QED BY <2>1, <2>2, <2>3 DEF LineStep
<1> QED BY <1>1, <1>2, <1>3, <1>5, <1>6 DEF Shrinks

\* A coin that is added has the key of the data base.
LEMMA AddKept ==
  ASSUME ProvInv, LineInv, LineTypeOK', StationTypeOK', BondInv, BondInv', ListInv, TableStep,
         UNCHANGED hostVars
  PROVE  /\ pc = "add" /\ job'.op = "add" => store'[job'.addr] = db.coins[job'.addr]
         /\ pc = "add" \/ ~config_mode => \A a \in bondstore' : Wanted(a)'
<1>0. UNCHANGED <<pc, db, config_mode>>
  BY DEF hostVars
<1>1. ASSUME pc = "add", job'.op = "add" PROVE store'[job'.addr] = db.coins[job'.addr]
  <2>1. job' # Idle
    BY <1>1, IdleFact
  <2>2. CASE AddsKey
    BY <2>1, <2>2, <1>1, OnlyAddAdds DEF AddsKey, Changing
  <2>3. CASE Untouched
    BY <1>1, <2>3 DEF Untouched, ListInv
  <2>4. Quiet => Untouched
    BY DEF Quiet, Untouched
  <2> QED BY <1>1, <2>1, <2>2, <2>3, <2>4 DEF TableStep, StoreStep, AddsBond, DropsBond, DropsKey, Clears, Restarted
<1>2. ASSUME pc = "add" \/ ~config_mode, NEW a \in bondstore' PROVE Wanted(a)'
  <2>0. \A b \in bondstore : Wanted(b)
    BY <1>2 DEF ListInv
  <2>1. a \in Addrs /\ store'[a] \in Keys
    BY DEF BondInv, BondsKeyed, HasKey
  <2>2. CASE Shrinks
    BY <1>0, <2>0, <2>2, WantedKept
  <2>3. CASE AddsKey
    <3>1. pc = "add" /\ db.coins[cmd[1].addr] = cmd[1].key
      BY <1>2, <2>3, OnlyAddAdds DEF Changing
    <3>2. CASE a = cmd[1].addr /\ ~UNCHANGED store
      BY <1>0, <2>1, <2>3, <3>1, <3>2, ValueAssumption DEF AddsKey, Wanted
    <3>3. CASE store'[a] = store[a]
      BY <1>0, <2>0, <2>3, <3>3 DEF AddsKey, Wanted
    <3> QED BY <2>1, <2>3, <3>2, <3>3 DEF AddsKey
  <2>4. CASE AddsBond
    <3>1. pc = "add" /\ store[job.addr] = db.coins[job.addr]
      BY <1>2, <2>4, OnlyAddAdds DEF Changing
    <3>2. UNCHANGED store /\ (a \in bondstore \/ a = job.addr)
      BY <2>4 DEF AddsBond
    <3> QED BY <1>0, <2>0, <2>1, <3>1, <3>2, ValueAssumption DEF Wanted
  <2> QED BY <2>2, <2>3, <2>4, ShrinkFact
<1> QED BY <1>1, <1>2

\* A script that has done its part is not undone by what is on its way.
LEMMA OverKept ==
  ASSUME ProvInv, LineTypeOK', StationTypeOK', LineStep, UNCHANGED hostVars, Over
  PROVE  Over'
<1>0. UNCHANGED <<pc, first_start>>
  BY DEF hostVars
<1>1. cmd # <<>> => 1 \in DOMAIN cmd /\ cmd[1].op \in {"reboot", "clear", "ble"}
  BY HeadFact DEF Over
<1>2. NextCmd /\ cmd # <<>> => \A i \in DOMAIN cmd' : i + 1 \in DOMAIN cmd /\ cmd'[i] = cmd[i + 1]
  BY HeadFact DEF NextCmd
<1>3. CASE Silent
  BY <1>0, <1>3 DEF Silent, lineVars, Over
<1>4. CASE Begins
  <2>1. job'.op \in {"idle", "ble"}
    BY <1>1, <1>4, IdleFact DEF Begins
  <2> QED BY <1>0, <1>2, <1>4, <2>1 DEF Begins, Over
<1>5. CASE Prints
  BY <1>1, <1>5 DEF Prints
<1>6. CASE Finishes \/ Restarted
  BY <1>0, <1>6, IdleFact DEF Finishes, Restarted, Over
<1> QED BY <1>3, <1>4, <1>5, <1>6 DEF LineStep

LEMMA ListStation ==
  ASSUME ProvInv, LineInv, LineInv', LineTypeOK', StationTypeOK', BondInv, BondInv', ListInv,
         TableStep, LineStep, Says, UNCHANGED hostVars
  PROVE  ListInv'
<1>0. UNCHANGED <<pc, first_start, config_mode, db, seen, at, present, Bond>>
  BY DEF hostVars, Bond
<1>1. (pc \in {"load", "bonds", "keys", "setup"} => at = 1 /\ present = {})'
  BY <1>0 DEF ListInv
<1>2. \/ UNCHANGED out
      \/ \E a \in Answers :
           /\ \A i \in DOMAIN out' : out'[i] = a \/ (i \in DOMAIN out /\ out'[i] = out[i])
           /\ pc = "bonds" /\ a.of = "bonds" => Enumerates(a.list, bondstore)
           /\ pc = "keys" /\ a.of = "keys" => KeysListed(a.list) /\ Len(a.list) = Cardinality(HasKey)
  <2>1. CASE UNCHANGED out
    BY <2>1
  <2>2. CASE ~UNCHANGED out
    <3>1. PICK a \in Answers :
            /\ out' = Append(out, a)
            /\ pc = "bonds" /\ a.of = "bonds" => Enumerates(a.list, bondstore)
            /\ pc = "keys" /\ a.of = "keys" => KeysListed(a.list) /\ Len(a.list) = Cardinality(HasKey)
      BY <2>2 DEF Says
    <3>2. \A i \in DOMAIN out' : out'[i] = a \/ (i \in DOMAIN out /\ out'[i] = out[i])
      BY <3>1, AppendFact, LenFact, DomFact DEF ProvInv, PTypeOK, LineTypeOK
    <3> QED BY <3>1, <3>2
  <2> QED BY <2>1, <2>2
<1>3. (pc = "bonds" =>
         \A i \in DOMAIN out : out[i].of = "bonds" => Enumerates(out[i].list, bondstore))'
  <2> SUFFICES ASSUME pc = "bonds", NEW i \in DOMAIN out', out'[i].of = "bonds"
               PROVE  Enumerates(out'[i].list, bondstore')
    BY <1>0
  <2>1. UNCHANGED bondstore
    BY ListsStill
  <2>2. Enumerates(out'[i].list, bondstore)
    BY <1>2 DEF ListInv
  <2> QED BY <2>1, <2>2
<1>4. ASSUME pc = "keys"
      PROVE  /\ Enumerates(seen.bonds, bondstore')
             /\ (\A i \in DOMAIN out :
                   KeysListed(out[i].list) /\ Len(out[i].list) = Cardinality(HasKey))'
  <2>1. UNCHANGED <<bondstore, store, HasKey>>
    BY <1>4, ListsStill DEF HasKey
  <2>2. \A i \in DOMAIN out' : out'[i].of = "keys"
    BY <1>0, <1>4 DEF LineInv, KeysLine
  <2>3. \A i \in DOMAIN out : KeysListed(out[i].list) /\ Len(out[i].list) = Cardinality(HasKey)
    BY <1>4 DEF ListInv
  <2>4. \A i \in DOMAIN out' : KeysListed(out'[i].list) /\ Len(out'[i].list) = Cardinality(HasKey)
    BY <1>2, <1>4, <2>2, <2>3
  <2> QED BY <1>4, <2>1, <2>4 DEF ListInv, KeysListed
<1>5. (pc \in {"setup", "zip", "del"} => Compared)'
  <2> SUFFICES ASSUME pc \in {"setup", "zip", "del"} PROVE Compared'
    BY <1>0
  <2>1. Shrinks
    BY ShrinkFact, OnlyAddAdds DEF Changing
  <2> QED BY <2>1, ComparedKept DEF ListInv
<1>6. pc = "del" => (job'.op = "del" => job'.addr = Bond) /\ (out' # <<>> => Bond \notin bondstore')
  BY DelKept
<1>7. /\ pc = "add" /\ job'.op = "add" => store'[job'.addr] = db.coins[job'.addr]
      /\ pc = "add" \/ ~config_mode => \A a \in bondstore' : Wanted(a)'
  BY AddKept
<1>8. (~config_mode => Over)'
  BY <1>0, OverKept DEF ListInv
<1>9. (pc = "keys" =>
       /\ Enumerates(seen.bonds, bondstore)
       /\ \A i \in DOMAIN out :
            KeysListed(out[i].list) /\ Len(out[i].list) = Cardinality(HasKey))'
  BY <1>0, <1>4
<1>10. (pc = "del" =>
       /\ at \in DOMAIN seen.bonds
       /\ job.op = "del" => job.addr = Bond
       /\ out # <<>> => Bond \notin bondstore)'
  BY <1>0, <1>6 DEF ListInv
<1>11. (pc = "run" => ~config_mode)'
  BY <1>0 DEF ListInv
<1> QED BY <1>0, <1>1, <1>3, <1>5, <1>7, <1>8, <1>9, <1>10, <1>11 DEF ListInv

\* The mode in which a station is configured is left at the end only.
LEMMA InMode ==
  ASSUME ListInv, pc \notin {"end", "open", "run"}
  PROVE  config_mode
BY DEF ListInv, Over

LEMMA ListConnects ==
  ASSUME ProvInv, LineInv, LineTypeOK', ListInv, UNCHANGED stationVars,
         connect \/ serial_exception \/ rebooted \/ skip_line
  PROVE  ListInv'
<1>0. UNCHANGED <<job, store, bondstore, HasKey>>
  BY DEF stationVars, keyVars, bondVars, HasKey
<1>1. CASE connect
  <2>1. /\ UNCHANGED <<db, config_mode>> /\ at' = 1 /\ present' = {} /\ first_start' = FALSE
        /\ pc' = (IF FirstCommand = "ble" THEN "run" ELSE FirstCommand) /\ pc = "open"
        /\ cmd' = Append(cmd, [op |-> FirstCommand])
    BY <1>1 DEF connect, LeftInMode
  <2>2. FirstCommand \in {"reboot", "load", "ble"} /\ (FirstCommand = "ble" => ~config_mode)
    BY DEF FirstCommand
  <2>3. ASSUME ~config_mode PROVE Over' /\ \A a \in bondstore : Wanted(a)
    <3>1. Over /\ \A a \in bondstore : Wanted(a)
      BY <2>3 DEF ListInv
    <3>2. FirstCommand = "ble"
      BY <2>3, <3>1 DEF Over, FirstCommand
    <3>3. PICK c \in Command : c = [op |-> "ble"]
      BY DEF Command
    <3>4. \A i \in DOMAIN cmd' : cmd'[i] = c \/ (i \in DOMAIN cmd /\ cmd'[i] = cmd[i])
      BY <2>1, <3>2, <3>3, AppendFact, LenFact, DomFact DEF ProvInv, PTypeOK, LineTypeOK
    <3>5. \A i \in DOMAIN cmd' : cmd'[i].op \in {"reboot", "clear", "ble"}
      BY <3>1, <3>3, <3>4 DEF Over
    <3> QED BY <1>0, <2>1, <3>1, <3>2, <3>5 DEF Over
  <2> QED BY <1>0, <2>1, <2>2, <2>3 DEF ListInv, Wanted
<1>2. CASE serial_exception \/ rebooted
  <2>1. UNCHANGED <<cmd, first_start, config_mode, db>> /\ pc' = "open"
    BY <1>2, NotMistaken DEF serial_exception, rebooted
  <2> QED BY <1>0, <2>1 DEF ListInv, Wanted, Over
<1>3. CASE skip_line
  <2>1. UNCHANGED <<cmd, hostVars>> /\ Heard /\ out # <<>> /\ pc \in {"load", "bonds", "keys"}
    BY <1>3 DEF skip_line
  <2>2. UNCHANGED <<pc, config_mode, db, seen, at, present>> /\ config_mode
    BY <2>1, InMode DEF hostVars
  <2>3. \A i \in DOMAIN out' : i + 1 \in DOMAIN out /\ out'[i] = out[i + 1]
    BY <2>1, RestFact
  <2>4. (pc = "bonds" =>
           \A i \in DOMAIN out : out[i].of = "bonds" => Enumerates(out[i].list, bondstore))'
    BY <1>0, <2>2, <2>3 DEF ListInv
  <2>5. (pc = "keys" =>
         /\ Enumerates(seen.bonds, bondstore)
         /\ \A i \in DOMAIN out :
              KeysListed(out[i].list) /\ Len(out[i].list) = Cardinality(HasKey))'
    BY <1>0, <2>2, <2>3 DEF ListInv, KeysListed
  <2> QED BY <1>0, <2>1, <2>2, <2>4, <2>5 DEF ListInv
<1> QED BY <1>1, <1>2, <1>3

\* Both lists come from a station that has not changed in between.
LEMMA ListReads ==
  ASSUME ProvInv, LineInv, BondInv, LineTypeOK', ListInv, UNCHANGED stationVars,
         read_settings \/ request_bonds \/ request_spacekeys \/ set_up
  PROVE  ListInv'
<1>0. UNCHANGED <<job, store, bondstore, HasKey>>
  BY DEF stationVars, keyVars, bondVars, HasKey
<1>1. CASE read_settings
  <2>1. /\ pc = "load" /\ out # <<>> /\ Heard /\ Head(out).of = "load" /\ pc' = "bonds"
        /\ UNCHANGED <<config_mode, at, present>>
    BY <1>1 DEF read_settings, Hears, Await
  <2>2. out[1].of = "load" /\ \A i \in DOMAIN out' : i + 1 \in DOMAIN out /\ out'[i] = out[i + 1]
    BY <2>1, RestFact
  <2>3. \A i \in DOMAIN out' : out'[i].of = "load"
    BY <2>1, <2>2 DEF LineInv, LoadLine, AfterLoad
  <2> QED BY <2>1, <2>3, InMode DEF ListInv
<1>2. CASE request_bonds
  <2>1. /\ pc = "bonds" /\ out # <<>> /\ Heard /\ Head(out).of = "bonds" /\ pc' = "keys"
        /\ seen' = [seen EXCEPT !.bonds = Head(out).list]
        /\ UNCHANGED <<config_mode, at, present>>
    BY <1>2 DEF request_bonds, Hears, Await
  <2>2. /\ out[1].of = "bonds" /\ 1 \in DOMAIN out /\ Head(out) = out[1]
        /\ \A i \in DOMAIN out' : i + 1 \in DOMAIN out /\ out'[i] = out[i + 1]
        /\ Len(out') = Len(out) - 1
    BY <2>1, RestFact
  <2>3. Len(out) = 1
    BY <2>1, <2>2 DEF LineInv, BondsLine
  <2>4. DOMAIN out' = {}
    BY <2>2, <2>3, DomFact
  <2>5. seen'.bonds = out[1].list
    BY <2>1, <2>2 DEF ProvInv, PTypeOK, HostTypeOK
  <2>6. Enumerates(out[1].list, bondstore)
    BY <2>1, <2>2 DEF ListInv
  <2> QED BY <1>0, <2>1, <2>4, <2>5, <2>6, InMode DEF ListInv
<1>3. CASE request_spacekeys
  <2>1. /\ pc = "keys" /\ out # <<>> /\ Heard
        /\ seen' = [seen EXCEPT !.keys = Head(out).list]
        /\ UNCHANGED <<config_mode, at, present, db>>
        /\ pc' \in {"zip", "setup", "clear"}
    BY <1>3 DEF request_spacekeys, Hears, Await, compare_lengths
  <2>2. 1 \in DOMAIN out /\ Head(out) = out[1]
    BY <2>1, RestFact
  <2>3. seen'.keys = out[1].list /\ seen'.bonds = seen.bonds
    BY <2>1, <2>2 DEF ProvInv, PTypeOK, HostTypeOK
  <2>4. /\ Enumerates(seen.bonds, bondstore) /\ KeysListed(out[1].list)
        /\ Len(out[1].list) = Cardinality(HasKey) /\ at = 1 /\ present = {}
    BY <2>1, <2>2 DEF ListInv
  <2>5. Cardinality(bondstore) <= Cardinality(HasKey)
    BY HasKeyFact, FS_Subset DEF BondInv, BondsKeyed
  <2>6. \A i \in DOMAIN seen.bonds : i >= 1
    BY DEF ProvInv, PTypeOK, HostTypeOK
  <2>7. KeysListed(seen'.keys)
    BY <2>3, <2>4
  <2>8. KeysListed(seen.keys)'
    BY <1>0, <2>7 DEF KeysListed
  <2>9. Compared'
    BY <1>0, <2>1, <2>3, <2>4, <2>5, <2>6, <2>8 DEF Compared, Enumerates
  <2> QED BY <2>1, <2>4, <2>9, InMode DEF ListInv
<1>4. CASE set_up
  <2>1. pc = "setup" /\ pc' = "zip" /\ UNCHANGED <<config_mode, at, present, db, seen>>
    BY <1>4, NotMistaken DEF set_up, compare_lengths
  <2>2. Compared'
    BY <1>0, <2>1 DEF ListInv, Compared, KeysListed, Wanted
  <2> QED BY <2>1, <2>2, InMode DEF ListInv
<1> QED BY <1>1, <1>2, <1>3, <1>4

\* The next coin to add, or the end.
LEMMA ListAdds ==
  ASSUME ProvInv, LineTypeOK', UNCHANGED stationVars, add_next, UNCHANGED <<db, seen, first_start>>,
         job = Idle, \A i \in DOMAIN cmd : cmd[i].op = "clear", pc \in {"zip", "add"}, config_mode,
         \A a \in bondstore : Wanted(a)
  PROVE  ListInv'
<1>0. UNCHANGED <<job, store, bondstore>> /\ job'.op = "idle"
  BY DEF stationVars, keyVars, bondVars, Idle
<1>1. \A a \in bondstore' : Wanted(a)'
  BY <1>0 DEF Wanted
<1>2. CASE pc' = "add" /\ UNCHANGED config_mode
  BY <1>0, <1>1, <1>2 DEF ListInv
<1>3. CASE config_mode' = FALSE /\ Await("end", [op |-> "reboot"])
  <2>1. PICK c \in Command : c = [op |-> "reboot"]
    BY DEF Command
  <2>2. Send(c) /\ pc' = "end"
    BY <1>3, <2>1 DEF Await
  <2>3. \A i \in DOMAIN cmd' : cmd'[i].op \in {"reboot", "clear"}
    BY <2>1, <2>2, SentFact
  <2>4. ~first_start
    BY DEF ProvInv, RefusedInv, Told, waiting
  <2>5. Over'
    BY <1>0, <2>2, <2>3, <2>4 DEF Over
  <2> QED BY <1>0, <1>1, <1>3, <2>2, <2>5 DEF ListInv
<1> QED BY <1>2, <1>3 DEF add_next, Await

LEMMA ListZips ==
  ASSUME ProvInv, LineInv, LineTypeOK', StationTypeOK', BondInv, ListInv, UNCHANGED stationVars,
         zip \/ deleted \/ zip_ended \/ added
  PROVE  ListInv'
<1>0. UNCHANGED <<job, store, bondstore>>
  BY DEF stationVars, keyVars, bondVars
<1>1. seen.bonds \in Seq(Addrs) /\ seen.keys \in Lines /\ at \in Nat \ {0}
  BY DEF ProvInv, PTypeOK, HostTypeOK
<1>2. CASE zip
  <2>0. /\ pc = "zip" /\ Both /\ Compared /\ config_mode /\ job.op = "idle" /\ out = <<>>
        /\ UNCHANGED <<db, seen, config_mode, out>>
    BY <1>2, NotMistaken, ChangeHeard, LenFact, InMode DEF zip, ListInv, Idle
  <2>1. at \in DOMAIN seen.bonds /\ at \in DOMAIN seen.keys
    BY <1>1, <2>0 DEF Both, Lines
  <2>2. CASE pc' = "zip_clear"
    BY <2>0, <2>2 DEF ListInv
  <2>3. CASE Bond = Key[1] /\ InDataBase /\ at' = at + 1 /\ pc' = "zip"
    <3>1. Bond \in bondstore => Wanted(Bond)
      <4>1. store[Key[1]] \in Keys => FirstByte[store[Key[1]]] = Key[2]
        BY <2>0, <2>1 DEF Compared, KeysListed, Key
      <4> QED BY <2>3, <4>1 DEF InDataBase, Wanted, BondInv, BondsKeyed, HasKey
    <3>2. \A a \in bondstore : Wanted(a) \/ \E i \in DOMAIN seen.bonds : i >= at + 1 /\ seen.bonds[i] = a
      <4>1. \A i \in DOMAIN seen.bonds : i \in Nat /\ (i = at => seen.bonds[i] = Bond)
        BY <1>1 DEF Bond
      <4> QED BY <1>1, <2>0, <3>1, <4>1 DEF Compared
    <3>3. Compared'
      BY <1>0, <2>0, <2>3, <3>2 DEF Compared, KeysListed, Wanted
    <3> QED BY <2>0, <2>3, <3>3 DEF ListInv
  <2>4. CASE pc' = "del" /\ UNCHANGED at
    <3>1. Compared'
      BY <1>0, <2>0, <2>4 DEF Compared, KeysListed, Wanted
    <3> QED BY <1>0, <2>0, <2>1, <2>4, <3>1 DEF ListInv
  <2> QED BY <1>2, <2>0, <2>2, <2>3, <2>4 DEF zip, Judged, Await
<1>3. CASE deleted
  <2>0. pc = "del" /\ out # <<>> /\ pc' = "zip" /\ at' = at + 1 /\ UNCHANGED <<config_mode, db, seen>>
    BY <1>3 DEF deleted, HearsDone
  <2>1. Compared /\ Bond \notin bondstore /\ config_mode
    BY <2>0, InMode DEF ListInv
  <2>2. \A a \in bondstore : Wanted(a) \/ \E i \in DOMAIN seen.bonds : i >= at + 1 /\ seen.bonds[i] = a
    <3>1. \A i \in DOMAIN seen.bonds : i \in Nat /\ (i = at => seen.bonds[i] = Bond)
      BY <1>1 DEF Bond
    <3> QED BY <1>1, <2>1, <3>1 DEF Compared
  <2>3. Compared'
    BY <1>0, <2>0, <2>1, <2>2 DEF Compared, KeysListed, Wanted
  <2> QED BY <2>0, <2>1, <2>3 DEF ListInv
<1>4. CASE zip_ended
  <2>0. pc = "zip" /\ ~Both /\ add_next /\ UNCHANGED <<db, seen, first_start>>
    BY <1>4 DEF zip_ended
  <2>1. Compared /\ config_mode
    BY <2>0, InMode DEF ListInv
  <2>2. \A a \in bondstore : Wanted(a)
    BY <1>1, <2>0, <2>1 DEF Compared, Both, Lines
  <2> QED BY <2>0, <2>1, <2>2, ChangeHeard, ListAdds
<1>5. CASE added
  <2>0. pc = "add" /\ out # <<>> /\ add_next /\ UNCHANGED <<db, seen, first_start>>
    BY <1>5 DEF added, HearsDone
  <2>1. config_mode /\ \A a \in bondstore : Wanted(a)
    BY <2>0, InMode DEF ListInv
  <2> QED BY <2>0, <2>1, ChangeHeard, ListAdds
<1> QED BY <1>2, <1>3, <1>4, <1>5

LEMMA ListKept ==
  ASSUME Faults = {}, ProvInv, ProvInv', LineInv, LineInv', TableInv, BondInv, BondInv', ListInv,
         [PatientNext]_allVars
  PROVE  ListInv'
<1>0. StationTypeOK' /\ LineTypeOK'
  BY DEF ProvInv, PTypeOK
<1>1. CASE Shell /\ UNCHANGED hostVars
  <2>1. TableStep
    BY <1>1, StoreKinds DEF TableStep
  <2>2. LineStep
    BY <1>1, ShellKinds DEF LineStep
  <2>3. Says
    BY <1>1, SaidFact
  <2> QED BY <1>0, <1>1, <2>1, <2>2, <2>3, ListStation
<1>2. CASE (watchdog /\ UNCHANGED hostVars) \/ power_cut
  <2>1. Restarted /\ sys_reboot /\ UNCHANGED bondstore /\ UNCHANGED hostVars
    BY <1>2 DEF watchdog, power_cut
  <2>2. TableStep
    BY <2>1 DEF TableStep, StoreStep, Untouched, Restarted, Idle, sys_reboot
  <2>3. LineStep /\ Says
    BY <2>1 DEF LineStep, Says, Restarted
  <2> QED BY <1>0, <2>1, <2>2, <2>3, ListStation
<1>3. CASE Host /\ UNCHANGED stationVars
  BY <1>0, <1>3, ListConnects, ListReads, ListZips DEF Host
<1>4. CASE line_dropped \/ UNCHANGED allVars
  <2>1. UNCHANGED <<job, cmd, out, store, bondstore, hostVars>>
    BY <1>4 DEF line_dropped, allVars, stationVars, keyVars, bondVars, lineVars
  <2>2. UNCHANGED <<pc, first_start, config_mode, db, seen, at, present, Bond, HasKey>>
    BY <2>1 DEF hostVars, Bond, HasKey
  <2>3. (\A a \in bondstore : Wanted(a))' <=> \A a \in bondstore : Wanted(a)
    BY <2>1, <2>2 DEF Wanted
  <2>4. Compared' <=> Compared
    BY <2>1, <2>2 DEF Compared, KeysListed, Wanted
  <2>5. Over' <=> Over
    BY <2>1, <2>2 DEF Over
  <2>6. (\A i \in DOMAIN out :
          KeysListed(out[i].list) /\ Len(out[i].list) = Cardinality(HasKey))'
        <=> \A i \in DOMAIN out :
              KeysListed(out[i].list) /\ Len(out[i].list) = Cardinality(HasKey)
    BY <2>1, <2>2 DEF KeysListed
  <2> QED BY <2>1, <2>2, <2>3, <2>4, <2>5, <2>6 DEF ListInv
<1>5. CASE host_restarted
  <2>1. pc' = "open" /\ config_mode' = TRUE
    BY <1>5 DEF host_restarted
  <2> QED BY <2>1 DEF ListInv
<1> QED BY <1>1, <1>2, <1>3, <1>4, <1>5 DEF PatientNext, PNext

LEMMA ListInit == PInit => ListInv
BY DEF PInit, ListInv

\* What the script has seen of a station is what the station has, and what it
\* has not come to yet is all that may be left of strangers.
THEOREM ListsAreTrue ==
  ASSUME Faults = {}
  PROVE  PatientSpec => []ListInv
<1>1. /\ ProvInv /\ ProvInv' /\ LineInv /\ LineInv' /\ (TableInv /\ BondInv) /\ (TableInv /\ BondInv)'
      /\ ListInv /\ [PatientNext]_allVars
      => ListInv'
  BY ListKept
<1> QED BY <1>1, ListInit, SessionInStep, BondsHaveKeys, PatientIsSpec, ProvisioningInvariance,
           PTL DEF PatientSpec

\* A station with Bluetooth on bonds no coin but those of the data base, and
\* none with a key the script could tell from that of the data base, however
\* often its power failed, the line failed or the script was stopped half way
\* through a change.
THEOREM NoStrangerLeft ==
  ASSUME Faults = {}
  PROVE  PatientSpec => []NoStranger
<1>1. ListInv => NoStranger
  BY DEF ListInv, NoStranger, Synced, Wanted
<1> QED BY <1>1, ListsAreTrue, PTL

\* The same of the tables in RAM, which decide when a coin connects: a bond is
\* one of the data base, and next to it lies the key that goes with it.
THEOREM OnlyKnownCoinsEnter ==
  ASSUME Faults = {}
  PROVE  PatientSpec => []OnlyKnownEnter
<1>1. ProvInv /\ TableInv /\ BondInv /\ ListInv => OnlyKnownEnter
  <2> SUFFICES ASSUME ProvInv, TableInv, BondInv, ListInv, Synced, loaded, NEW i \in Used
               PROVE  /\ db.coins[bonds[i]] # NoKey
                      /\ FirstByte[db.coins[bonds[i]]] = FirstByte[KeyOf(bonds[i])]
    BY DEF OnlyKnownEnter
  <2>1. bonds[i] \in bondstore /\ bonds[i] \in HasKey
    BY DEF BondInv, BondsKeyed
  <2>2. Wanted(bonds[i])
    BY <2>1 DEF ListInv, Synced
  <2>3. KeyOf(bonds[i]) = store[bonds[i]]
    BY <2>1 DEF TableInv, LoadInv, Stored, HasKey
  <2> QED BY <2>2, <2>3 DEF Wanted
<1> QED BY <1>1, ListsAreTrue, BondsHaveKeys, PatientIsSpec, ProvisioningInvariance, PTL

-----------------------------------------------------------------------------
(* Without power cuts nothing is left half done.                           *)

\* What a step does to the identity.
IdStays  == /\ UNCHANGED idVars
            /\ job' = job \/ (job.op # "setup" /\ job'.op # "setup")
SetsId   == /\ job = Idle /\ cmd # <<>> /\ cmd[1].op = "setup" /\ UNCHANGED <<irk, out>>
            /\ id' = cmd[1].id /\ job' = [op |-> "setup", id |-> cmd[1].id]
SavesIrk == job.op = "setup" /\ job' = Idle /\ irk' = job.id /\ UNCHANGED id
ClearsId == /\ job = Idle /\ cmd # <<>> /\ cmd[1].op = "clear" /\ job' = Idle
            /\ id' = NoId /\ irk' = NoId /\ cmd' = <<>>
IdStep   == IdStays \/ SetsId \/ SavesIrk \/ ClearsId

LEMMA IdKinds ==
  ASSUME ProvInv, StoreWhole, Shell
  PROVE  IdStep
<1>0. cmd # <<>> => Head(cmd) = cmd[1] /\ 1 \in DOMAIN cmd
  BY HeadFact
<1>1. CASE cmd_settings_load
  <2>1. Reads("load")
    BY <1>1 DEF cmd_settings_load, Configures
  <2>2. LoadAll("load") /\ UNCHANGED idVars
    BY <1>1, <2>1, NotRefused DEF cmd_settings_load, Configures
  <2> QED BY <2>1, <2>2 DEF Reads, Idle, LoadAll, IdStays, IdStep
<1>2. CASE deliver_key \/ deliver_bond \/ settings_loaded \/ cmd_print
  BY <1>2 DEF deliver_key, deliver_bond, settings_loaded, cmd_print, stationVars, Idle, IdStays, IdStep
<1>3. CASE cmd_coin_add
  <2>1. Reads("add")
    BY <1>3 DEF cmd_coin_add, Configures
  <2>2. UNCHANGED idVars /\ job'.op \in {"idle", "add"}
    BY <1>3, <2>1, NotRefused DEF cmd_coin_add, Configures, Idle
  <2> QED BY <2>1, <2>2 DEF Reads, Idle, IdStays, IdStep
<1>4. CASE bt_keys_store \/ del_spacekey
  BY <1>4 DEF bt_keys_store, del_spacekey, Idle, IdStays, IdStep
<1>5. CASE cmd_coin_del
  <2>1. Reads("del")
    BY <1>5 DEF cmd_coin_del, Configures
  <2>2. UNCHANGED idVars /\ job'.op = "del"
    BY <1>5, <2>1, NotRefused DEF cmd_coin_del, Configures
  <2> QED BY <2>1, <2>2 DEF Reads, Idle, IdStays, IdStep
<1>6. CASE cmd_central_setup
  <2>1. Reads("setup")
    BY <1>6 DEF cmd_central_setup, Configures
  <2> QED BY <1>0, <1>6, <2>1, NotRefused DEF cmd_central_setup, Configures, Reads, SetsId, IdStep
<1>7. CASE save_irk
  BY <1>7 DEF save_irk, SavesIrk, IdStep
<1>8. CASE cmd_ble_start
  <2>1. Reads("ble")
    BY <1>8 DEF cmd_ble_start
  <2>2. id # NoId
    BY <1>0, <2>1 DEF StoreWhole, Reads
  <2>3. UNCHANGED idVars /\ (job' = job \/ job'.op = "ble")
    BY <1>8, <2>2 DEF cmd_ble_start, LoadAll, idVars
  <2> QED BY <2>1, <2>3 DEF Reads, Idle, IdStays, IdStep
<1>9. CASE clear_storage
  <2>1. Reads("clear")
    BY <1>9 DEF clear_storage, Configures
  <2>2. /\ Restarted
        /\ UNCHANGED idVars \/ (id' = NoId /\ irk' = NoId)
    BY <1>9, <2>1, NotRefused DEF clear_storage, Configures
  <2> QED BY <1>0, <2>1, <2>2 DEF Restarted, Reads, Idle, IdStays, ClearsId, IdStep
<1>10. CASE cmd_reboot
  BY <1>10 DEF cmd_reboot, Restarted, Reads, IdStays, IdStep
<1> QED BY <1>1, <1>2, <1>3, <1>4, <1>5, <1>6, <1>7, <1>8, <1>9, <1>10 DEF Shell

\* No step of the station brings a command of its own.
LEMMA FewerCommands ==
  ASSUME ProvInv, LineTypeOK', LineStep
  PROVE  \A i \in DOMAIN cmd' : \E j \in DOMAIN cmd : cmd'[i] = cmd[j]
<1>1. NextCmd /\ cmd # <<>> => \A i \in DOMAIN cmd' : i + 1 \in DOMAIN cmd /\ cmd'[i] = cmd[i + 1]
  BY HeadFact DEF NextCmd
<1> QED BY <1>1 DEF LineStep, Silent, lineVars, Begins, Prints, Finishes, Restarted

\* Bonds and keys, and the two records of the identity.
LEMMA StoreWholeKept ==
  ASSUME ProvInv, ProvInv', BondInv, BondInv', StoreWhole, StoreStep, LineStep, IdStep
  PROVE  StoreWhole'
<1>0. /\ StationTypeOK /\ StationTypeOK' /\ LineTypeOK' /\ Idle.op = "idle"
      /\ cmd # <<>> => cmd[1] \in Command /\ 1 \in DOMAIN cmd
  BY HeadFact DEF ProvInv, PTypeOK, Idle
<1>1. bondstore' \cup Adding' = HasKey' \ Deleting'
  <2>0. bondstore \cup Adding = HasKey \ Deleting
    BY DEF StoreWhole
  <2>1. CASE Quiet
    <3>1. HasKey' = HasKey /\ UNCHANGED bondstore
      BY <2>1 DEF Quiet, HasKey
    <3>2. Adding' = Adding /\ Deleting' = Deleting
      BY <2>1 DEF Quiet, Adding, Deleting
    <3> QED BY <2>0, <3>1, <3>2
  <2>2. CASE AddsKey
    <3>1. Adding = {} /\ Deleting = {} /\ UNCHANGED bondstore
      BY <1>0, <2>2 DEF AddsKey, Adding, Deleting
    <3>2. CASE store'[cmd[1].addr] = cmd[1].key /\ job' = [op |-> "add", addr |-> cmd[1].addr]
      <4>1. cmd[1].addr \in Addrs /\ cmd[1].key \in Keys
        BY <1>0, <2>2 DEF AddsKey, Command
      <4>2. HasKey' = HasKey \cup {cmd[1].addr}
        BY <2>2, <3>2, <4>1 DEF AddsKey, HasKey
      <4>3. Adding' = {cmd[1].addr} /\ Deleting' = {}
        BY <3>2 DEF Adding, Deleting
      <4> QED BY <2>0, <3>1, <4>2, <4>3
    <3>3. CASE UNCHANGED store /\ job' = Idle
      <4>1. Adding' = {} /\ Deleting' = {} /\ HasKey' = HasKey
        BY <1>0, <3>3 DEF Adding, Deleting, HasKey
      <4> QED BY <2>0, <3>1, <4>1
    <3> QED BY <2>2, <3>2, <3>3 DEF AddsKey
  <2>3. CASE AddsBond
    <3>1. Adding = {job.addr} /\ Deleting = {} /\ Adding' = {} /\ Deleting' = {} /\ HasKey' = HasKey
      BY <1>0, <2>3 DEF AddsBond, Adding, Deleting, HasKey
    <3> QED BY <2>0, <2>3, <3>1 DEF AddsBond
  <2>4. CASE DropsBond
    <3>1. /\ Adding = {} /\ Deleting = {} /\ Adding' = {} /\ Deleting' = {cmd[1].addr}
          /\ HasKey' = HasKey
      BY <1>0, <2>4 DEF DropsBond, Adding, Deleting, HasKey
    <3> QED BY <2>0, <2>4, <3>1 DEF DropsBond
  <2>5. CASE DropsKey
    <3>1. Adding = {} /\ Deleting = {job.addr} /\ Adding' = {} /\ Deleting' = {}
      BY <1>0, <2>5 DEF DropsKey, Adding, Deleting
    <3>2. HasKey' = HasKey \ {job.addr}
      BY <2>5 DEF DropsKey, HasKey
    <3> QED BY <2>0, <2>5, <3>1, <3>2 DEF DropsKey
  <2>6. CASE Clears
    <3>1. Adding' = {} /\ Deleting' = {} /\ HasKey' = {}
      BY <1>0, <2>6, ValueAssumption DEF Clears, Restarted, Adding, Deleting, HasKey
    <3> QED BY <2>6, <3>1 DEF Clears
  <2> QED BY <2>1, <2>2, <2>3, <2>4, <2>5, <2>6 DEF StoreStep
<1>2. (irk = id \/ job.op = "setup")' /\ (job.op = "setup" => id = job.id)'
  <2>0. (irk = id \/ job.op = "setup") /\ (job.op = "setup" => id = job.id)
    BY DEF StoreWhole
  <2>1. CASE IdStays
    BY <2>0, <2>1 DEF IdStays, idVars
  <2>2. CASE SetsId
    BY <2>2 DEF SetsId
  <2>3. CASE SavesIrk \/ ClearsId
    BY <1>0, <2>0, <2>3 DEF SavesIrk, ClearsId
  <2> QED BY <2>1, <2>2, <2>3 DEF IdStep
<1>3. ASSUME NEW i \in DOMAIN cmd', cmd'[i].op = "ble" PROVE id' # NoId
  <2>1. id # NoId
    BY <1>0, <1>3, FewerCommands DEF StoreWhole
  <2>2. SetsId => cmd[1].id \in Ids
    BY <1>0 DEF SetsId, Command
  <2>3. ~ClearsId
    BY <1>3 DEF ClearsId
  <2> QED BY <2>1, <2>2, <2>3, IdAssumption DEF IdStep, IdStays, idVars, SetsId, SavesIrk
<1> QED BY <1>1, <1>2, <1>3 DEF StoreWhole

\* The identity a station has given does not change before the next command.
LEMMA IdentitySaid ==
  ASSUME ProvInv, LineInv, LineTypeOK', StationTypeOK', IdStep, Says, pc = "load",
         \A i \in DOMAIN out : out[i].of = "load" => out[i].id = id
  PROVE  \A i \in DOMAIN out' : out'[i].of = "load" => out'[i].id = id'
<1>1. ASSUME NEW i \in DOMAIN out, out[i].of = "load"
      PROVE  job.op \in {"idle", "load"} /\ \A j \in DOMAIN cmd : cmd[j].op = "load"
  <2>1. LoadLine /\ Len(out) + Unfinished <= 2
    BY DEF LineInv
  <2>2. CASE i = 1
    BY <1>1, <2>1, <2>2 DEF LoadLine, AfterLoad
  <2>3. CASE i # 1
    <3>1. Len(out) >= 2
      BY <1>1, <2>3, LenFact, DomFact
    <3>2. Len(cmd) = 0 /\ job = Idle
      BY <2>1, <3>1, LenFact DEF Unfinished
    <3> QED BY <3>2, LenFact, DomFact, IdleFact
  <2> QED BY <2>2, <2>3
<1>2. ASSUME job.op \in {"idle", "load"}, cmd # <<>> => cmd[1].op = "load" \/ job.op = "load"
      PROVE  UNCHANGED id
  BY <1>2 DEF IdStep, IdStays, idVars, SetsId, SavesIrk, ClearsId, Idle
<1>3. cmd # <<>> => 1 \in DOMAIN cmd
  BY HeadFact
<1>4. CASE UNCHANGED out
  BY <1>1, <1>2, <1>3, <1>4
<1>5. CASE ~UNCHANGED out
  <2>1. PICK a \in Answers : out' = Append(out, a) /\ (a.of = "load" => a.id = id /\ job.op = "load")
    BY <1>5 DEF Says
  <2>2. \A i \in DOMAIN out' : out'[i] = a \/ (i \in DOMAIN out /\ out'[i] = out[i])
    BY <2>1, AppendFact, LenFact, DomFact DEF ProvInv, PTypeOK, LineTypeOK
  <2> QED BY <1>1, <1>2, <1>3, <2>1, <2>2
<1> QED BY <1>4, <1>5

\* Where the script waits for a list, changes a coin or has done its part,
\* the identity stays.
LEMMA IdentityStays ==
  ASSUME ProvInv, LineInv, ListInv, WholeInv, LineTypeOK', StationTypeOK', IdStep,
         pc \in {"bonds", "keys", "zip", "del", "add"} \/ ~config_mode
  PROVE  UNCHANGED idVars
<1>1. job.op \in {"idle", "load", "ble", "add", "del"}
  <2>1. CASE pc \in {"bonds", "keys"}
    BY <2>1, IdleFact DEF LineInv, BondsLine, KeysLine
  <2>2. CASE pc \in {"zip", "del", "add"}
    BY <2>2, IdleFact, JobFact DEF LineInv, ChangeLine, Changing, ProvInv, PTypeOK, StationTypeOK
  <2>3. CASE ~config_mode
    BY <2>3 DEF ListInv, Over
  <2> QED BY <2>1, <2>2, <2>3
<1>2. cmd # <<>> => cmd[1].op \notin {"setup", "clear"}
  <2>0. cmd # <<>> => 1 \in DOMAIN cmd
    BY HeadFact
  <2>1. CASE pc \in {"bonds", "keys"}
    BY <2>0, <2>1 DEF LineInv, BondsLine, KeysLine
  <2>2. CASE pc \in {"zip", "del", "add"}
    BY <2>0, <2>2 DEF LineInv, ChangeLine, Changing, Awaited, WholeInv, NoClear
  <2>3. CASE ~config_mode
    BY <2>0, <2>3 DEF ListInv, Over, WholeInv, NoClear
  <2> QED BY <2>1, <2>2, <2>3
<1> QED BY <1>1, <1>2 DEF IdStep, IdStays, SetsId, SavesIrk, ClearsId

\* The "done" of a setup comes after both records.
LEMMA SetupKept ==
  ASSUME ProvInv, LineInv, WholeInv, LineTypeOK', StationTypeOK', IdStep, LineStep, UNCHANGED db,
         pc = "setup"
  PROVE  (out' # <<>> => IdIsDb') /\ (job'.op = "setup" => job'.id = db.id)
<1>1. /\ ChangeLine /\ (out # <<>> => IdIsDb) /\ (job.op = "setup" => job.id = db.id) /\ NoClear
      /\ StoreWhole
  BY DEF LineInv, Changing, WholeInv
<1>2. cmd # <<>> => cmd[1].op = "setup" /\ cmd[1].id = db.id /\ out = <<>>
  BY <1>1, HeadFact DEF ChangeLine, NoClear, Awaited
<1>3. job # Idle => job.op = "setup"
  BY <1>1 DEF ChangeLine
<1>4. CASE SetsId
  BY <1>2, <1>4 DEF SetsId
<1>5. CASE SavesIrk
  BY <1>1, <1>5, IdleFact DEF SavesIrk, IdIsDb, StoreWhole
<1>6. CASE ClearsId
  BY <1>2, <1>6 DEF ClearsId
<1>7. CASE IdStays
  <2>1. job' = job
    <3>1. job # Idle => job' = job
      BY <1>3, <1>7 DEF IdStays
    <3>2. ~Begins
      BY <1>2, <1>7, IdleFact DEF IdStays, Begins
    <3> QED BY <3>1, <3>2 DEF LineStep, Silent, Prints, Finishes, Restarted
  <2>2. UNCHANGED out
    <3>1. ~Prints /\ ~Finishes
      BY <1>2, <2>1 DEF Prints, Finishes
    <3> QED BY <3>1 DEF LineStep, Silent, lineVars, Begins, Restarted
  <2> QED BY <1>1, <1>7, <2>1, <2>2 DEF IdStays, idVars, IdIsDb
<1> QED BY <1>4, <1>5, <1>6, <1>7 DEF IdStep

\* While the script reads its lists nothing is stored, while it deletes a coin
\* only that goes.
LEMMA StoreSteady ==
  ASSUME ProvInv, LineInv, ListInv, WholeInv, StationTypeOK', StoreStep
  PROVE  /\ pc \in {"setup", "zip"} \/ ~config_mode => UNCHANGED <<store, bondstore>>
         /\ pc = "del" => UNCHANGED bondstore \/ bondstore' = bondstore \ {Bond}
<1>0. cmd # <<>> => 1 \in DOMAIN cmd
  BY HeadFact
<1>1. pc \in Changing => ChangeLine
  BY DEF LineInv
<1>2. pc \in {"setup", "zip", "del"} \/ ~config_mode => NoClear
  BY DEF WholeInv
<1>3. ASSUME pc \in {"setup", "zip"} \/ ~config_mode PROVE UNCHANGED <<store, bondstore>>
  <2>1. cmd # <<>> => cmd[1].op \notin {"add", "del", "clear"}
    BY <1>0, <1>1, <1>2, <1>3 DEF ChangeLine, Changing, Awaited, NoClear, ListInv, Over
  <2>2. job.op \notin {"add", "del"}
    BY <1>1, <1>3, IdleFact DEF ChangeLine, Changing, ListInv, Over
  <2> QED BY <2>1, <2>2 DEF StoreStep, Quiet, AddsKey, AddsBond, DropsBond, DropsKey, Clears
<1>4. ASSUME pc = "del" PROVE UNCHANGED bondstore \/ bondstore' = bondstore \ {Bond}
  <2>1. cmd # <<>> => cmd[1].op = "del" /\ cmd[1].addr = Bond
    BY <1>0, <1>1, <1>2, <1>4 DEF ChangeLine, Changing, Awaited, NoClear
  <2>2. job.op # "add"
    BY <1>1, <1>4, IdleFact DEF ChangeLine, Changing
  <2> QED BY <2>1, <2>2 DEF StoreStep, Quiet, AddsKey, AddsBond, DropsBond, DropsKey, Clears
<1> QED BY <1>3, <1>4

\* What the script counts as present is there, and what it has yet to come to.
LEMMA PresentKept ==
  ASSUME ProvInv, LineInv, ListInv, WholeInv, StationTypeOK', StoreStep
  PROVE  /\ pc \in {"zip", "del"} => present \subseteq bondstore'
         /\ pc \in {"setup", "zip", "del"} =>
              \A i \in DOMAIN seen.bonds :
                i > at \/ (i = at /\ pc # "del") => seen.bonds[i] \in bondstore'
<1>1. CASE pc \in {"setup", "zip"}
  <2>1. UNCHANGED bondstore
    BY <1>1, StoreSteady
  <2> QED BY <1>1, <2>1 DEF WholeInv
<1>2. CASE pc = "del"
  <2>0. seen.bonds \in Seq(Addrs) /\ at \in Nat
    BY DEF ProvInv, PTypeOK, HostTypeOK
  <2>1. /\ at \in DOMAIN seen.bonds /\ Compared /\ present \subseteq bondstore
        /\ \A a \in present : \E i \in DOMAIN seen.bonds : i < at /\ seen.bonds[i] = a
        /\ \A i \in DOMAIN seen.bonds : i > at => seen.bonds[i] \in bondstore
    BY <1>2 DEF ListInv, WholeInv
  <2>2. \A i \in DOMAIN seen.bonds : seen.bonds[i] = Bond => i = at
    BY <2>1 DEF Compared, Bond
  <2>3. Bond \notin present
    BY <2>0, <2>1, <2>2
  <2>4. \A b \in bondstore : b # Bond => b \in bondstore'
    BY <1>2, StoreSteady
  <2> QED BY <1>2, <2>0, <2>1, <2>2, <2>3, <2>4
<1> QED BY <1>1, <1>2

\* The coins added one by one.
LEMMA AddedKept ==
  ASSUME ProvInv, LineInv, ListInv, WholeInv, LineTypeOK', StationTypeOK', StoreStep, LineStep,
         pc = "add"
  PROVE  /\ out' # <<>> => present \subseteq bondstore'
         /\ cmd' # <<>> => present \subseteq bondstore' \cup {cmd'[Len(cmd')].addr}
         /\ job'.op = "add" => present \subseteq bondstore' \cup {job'.addr}
<1>0. /\ ChangeLine /\ NoClear
      /\ out # <<>> => present \subseteq bondstore
      /\ cmd # <<>> => present \subseteq bondstore \cup {cmd[Len(cmd)].addr}
      /\ job.op = "add" => present \subseteq bondstore \cup {job.addr}
  BY DEF LineInv, Changing, WholeInv
<1>1. cmd # <<>> => cmd[1].op = "add" /\ Len(cmd) = 1 /\ out = <<>>
  <2>1. \A i \in DOMAIN cmd : cmd[i].op = "add" /\ i = Len(cmd)
    BY <1>0 DEF ChangeLine, NoClear, Awaited
  <2> QED BY <1>0, <2>1, HeadFact DEF ChangeLine
<1>2. job # Idle => job.op = "add" /\ cmd = <<>>
  BY <1>0 DEF ChangeLine
<1>3. bondstore \subseteq bondstore'
  BY <1>1, <1>2, IdleFact DEF StoreStep, Quiet, AddsKey, AddsBond, DropsBond, DropsKey, Clears
<1>4. out' # <<>> => present \subseteq bondstore'
  <2>1. CASE Silent \/ Begins \/ Restarted
    BY <1>0, <1>3, <2>1 DEF Silent, lineVars, Begins, Restarted
  <2>2. CASE Prints
    BY <1>1, <2>2 DEF Prints
  <2>3. CASE Finishes
    <3>1. job # Idle /\ job.op = "add" /\ job' = Idle
      BY <1>2, <2>3 DEF Finishes
    <3>2. AddsBond
      BY <3>1 DEF StoreStep, Quiet, AddsKey, DropsBond, DropsKey, Clears
    <3> QED BY <1>0, <3>1, <3>2 DEF AddsBond
  <2> QED BY <2>1, <2>2, <2>3 DEF LineStep
<1>5. cmd' = cmd \/ cmd' = <<>>
  <2>1. NextCmd /\ cmd # <<>> => cmd' = <<>>
    BY <1>1, HeadFact, LenFact, DomFact DEF NextCmd
  <2> QED BY <2>1 DEF LineStep, Silent, lineVars, Begins, Prints, Finishes, Restarted
<1>6. job'.op = "add" => present \subseteq bondstore' \cup {job'.addr}
  <2>1. CASE job' = job
    BY <1>0, <1>3, <2>1
  <2>2. CASE job' # job /\ job'.op = "add"
    <3>1. AddsKey /\ job'.addr = cmd[1].addr /\ cmd # <<>>
      BY <2>2, IdleFact DEF StoreStep, Quiet, AddsKey, AddsBond, DropsBond, DropsKey, Clears, Restarted
    <3> QED BY <1>0, <1>1, <1>3, <3>1
  <2> QED BY <2>1, <2>2
<1> QED BY <1>0, <1>3, <1>4, <1>5, <1>6

LEMMA WholeStation ==
  ASSUME ProvInv, ProvInv', LineInv, BondInv, BondInv', ListInv, WholeInv,
         StoreStep, LineStep, IdStep, Says, UNCHANGED hostVars
  PROVE  WholeInv'
<1>0. UNCHANGED <<pc, config_mode, db, seen, at, present>> /\ StationTypeOK' /\ LineTypeOK'
  BY DEF hostVars, ProvInv, PTypeOK
<1>1. StoreWhole'
  BY StoreWholeKept DEF WholeInv
<1>2. (pc = "load" => \A i \in DOMAIN out : out[i].of = "load" => out[i].id = id)'
  BY <1>0, IdentitySaid DEF WholeInv
<1>3. (pc \in {"bonds", "keys"} => seen.id = id)'
  BY <1>0, IdentityStays DEF WholeInv, idVars
<1>4. (pc = "setup" => (out # <<>> => IdIsDb) /\ (job.op = "setup" => job.id = db.id))'
  BY <1>0, SetupKept
<1>5. (pc \in {"zip", "del", "add"} \/ ~config_mode => IdIsDb)'
  BY <1>0, IdentityStays DEF WholeInv, idVars, IdIsDb
<1>6. (pc \in {"setup", "zip", "del", "add"} \/ ~config_mode => NoClear)'
  BY <1>0, FewerCommands DEF WholeInv, NoClear
<1>7. (pc \in {"setup", "zip", "del"} =>
         /\ Len(seen.bonds) = Len(seen.keys)
         /\ \A i \in DOMAIN seen.bonds : i > at \/ (i = at /\ pc # "del") => seen.bonds[i] \in bondstore)'
  BY <1>0, PresentKept DEF WholeInv
<1>8. (pc \in {"zip", "del"} =>
         /\ present \subseteq bondstore
         /\ \A a \in present : \E i \in DOMAIN seen.bonds : i < at /\ seen.bonds[i] = a)'
  BY <1>0, PresentKept DEF WholeInv
<1>9. (pc = "add" =>
         /\ out # <<>> => present \subseteq bondstore
         /\ cmd # <<>> => present \subseteq bondstore \cup {cmd[Len(cmd)].addr}
         /\ job.op = "add" => present \subseteq bondstore \cup {job.addr})'
  BY <1>0, AddedKept
<1>10. (~config_mode => Agrees)'
  BY <1>0, StoreSteady DEF WholeInv, Agrees
<1> QED BY <1>1, <1>2, <1>3, <1>4, <1>5, <1>6, <1>7, <1>8, <1>9, <1>10 DEF WholeInv

\* What the script does leaves the station as it is, but for what is under way.
LEMMA HostLeavesWhole ==
  ASSUME UNCHANGED stationVars
  PROVE  /\ UNCHANGED <<id, irk, store, bondstore, job, HasKey, Adding, Deleting>>
         /\ StoreWhole /\ ((\E i \in DOMAIN cmd' : cmd'[i].op = "ble") => id # NoId) => StoreWhole'
         /\ UNCHANGED db => IdIsDb' = IdIsDb /\ Agrees' = Agrees
<1>1. UNCHANGED <<id, irk, store, bondstore, job, HasKey, Adding, Deleting>>
  BY DEF stationVars, keyVars, bondVars, idVars, HasKey, Adding, Deleting
<1>2. StoreWhole /\ ((\E i \in DOMAIN cmd' : cmd'[i].op = "ble") => id # NoId) => StoreWhole'
  BY <1>1 DEF StoreWhole
<1>3. UNCHANGED db => IdIsDb' = IdIsDb /\ Agrees' = Agrees
  BY <1>1 DEF IdIsDb, Agrees
<1> QED BY <1>1, <1>2, <1>3

\* A command other than that one changes nothing of it.
LEMMA SentWhole ==
  ASSUME ProvInv, LineTypeOK', StoreWhole, UNCHANGED stationVars,
         UNCHANGED cmd \/ \E c \in Command : Send(c) /\ c.op # "ble"
  PROVE  StoreWhole'
<1>1. ASSUME NEW i \in DOMAIN cmd', cmd'[i].op = "ble" PROVE id # NoId
  <2>1. i \in DOMAIN cmd /\ cmd[i].op = "ble"
    <3>1. CASE UNCHANGED cmd
      BY <1>1, <3>1
    <3>2. CASE ~UNCHANGED cmd
      <4>1. PICK c \in Command : Send(c) /\ c.op # "ble"
        BY <3>2
      <4> QED BY <1>1, <3>2, <4>1, SentFact
    <3> QED BY <3>1, <3>2
  <2> QED BY <2>1 DEF StoreWhole
<1> QED BY <1>1, HostLeavesWhole

LEMMA WholeConnects ==
  ASSUME ProvInv, LineInv, LineTypeOK', ListInv, WholeInv, UNCHANGED stationVars,
         connect \/ serial_exception \/ rebooted \/ skip_line
  PROVE  WholeInv'
<1>0. StoreWhole /\ UNCHANGED <<id, irk, store, bondstore, job>>
  BY HostLeavesWhole DEF WholeInv
<1>1. CASE connect
  <2>1. /\ UNCHANGED <<db, config_mode>> /\ pc' \in {"run", "reboot", "load"} /\ out' = <<>>
        /\ cmd' = Append(cmd, [op |-> FirstCommand]) /\ FirstCommand \in {"ble", "reboot", "load"}
        /\ FirstCommand = "ble" => ~config_mode
    <3>1. FirstCommand \in {"ble", "reboot", "load"} /\ (FirstCommand = "ble" => ~config_mode)
      BY DEF FirstCommand
    <3> QED BY <1>1, <3>1 DEF connect, LeftInMode, Flushed
  <2>2. PICK c \in Command : c = [op |-> FirstCommand]
    BY <2>1 DEF Command
  <2>3. \A i \in DOMAIN cmd' : cmd'[i] = c \/ (i \in DOMAIN cmd /\ cmd'[i] = cmd[i])
    BY <2>1, <2>2, AppendFact, LenFact, DomFact DEF ProvInv, PTypeOK, LineTypeOK
  <2>4. ~config_mode => IdIsDb /\ NoClear /\ Agrees
    BY DEF WholeInv
  <2>5. FirstCommand = "ble" => id # NoId
    BY <2>1, <2>4, DataFact, IdAssumption DEF IdIsDb
  <2>6. StoreWhole'
    <3>1. (\E i \in DOMAIN cmd' : cmd'[i].op = "ble") => id # NoId
      BY <1>0, <2>2, <2>3, <2>5 DEF StoreWhole
    <3> QED BY <1>0, <3>1, HostLeavesWhole
  <2>7. (~config_mode => IdIsDb /\ NoClear /\ Agrees)'
    <3>1. NoClear => NoClear'
      BY <2>1, <2>2, <2>3 DEF NoClear
    <3> QED BY <2>1, <2>4, <3>1, HostLeavesWhole
  <2> QED BY <2>1, <2>6, <2>7 DEF WholeInv
<1>2. CASE serial_exception \/ rebooted
  <2>1. UNCHANGED <<cmd, config_mode, db>> /\ pc' = "open"
    BY <1>2, NotMistaken DEF serial_exception, rebooted
  <2>2. StoreWhole'
    BY <1>0, <2>1, SentWhole
  <2>3. NoClear' = NoClear
    BY <2>1 DEF NoClear
  <2> QED BY <2>1, <2>2, <2>3, HostLeavesWhole DEF WholeInv
<1>3. CASE skip_line
  <2>1. UNCHANGED <<cmd, hostVars>> /\ Heard /\ out # <<>> /\ pc \in {"load", "bonds", "keys"}
    BY <1>3 DEF skip_line
  <2>2. UNCHANGED <<pc, config_mode, seen>> /\ config_mode
    BY <2>1, InMode DEF hostVars
  <2>3. \A i \in DOMAIN out' : i + 1 \in DOMAIN out /\ out'[i] = out[i + 1]
    BY <2>1, RestFact
  <2>4. StoreWhole'
    BY <1>0, <2>1, SentWhole
  <2>5. (pc = "load" => \A i \in DOMAIN out : out[i].of = "load" => out[i].id = id)'
    BY <1>0, <2>2, <2>3 DEF WholeInv
  <2> QED BY <1>0, <2>1, <2>2, <2>4, <2>5 DEF WholeInv
<1> QED BY <1>1, <1>2, <1>3

\* With as many bonds as keys the script has nothing to clear.
LEMMA WholeCompares ==
  ASSUME ProvInv, LineTypeOK', BondInv, UNCHANGED stationVars, StoreWhole, job = Idle,
         Len(cmd) = 0, compare_lengths, Len(seen'.bonds) = Len(seen'.keys), config_mode',
         IdIsDb', at' = 1, present' = {},
         \A i \in DOMAIN seen'.bonds : seen'.bonds[i] \in bondstore
  PROVE  WholeInv'
<1>1. pc' = "zip" /\ UNCHANGED cmd
  BY DEF compare_lengths
<1>2. StoreWhole' /\ UNCHANGED bondstore
  BY <1>1, SentWhole, HostLeavesWhole
<1>3. NoClear'
  BY <1>1, LenFact, DomFact DEF NoClear
<1> QED BY <1>1, <1>2, <1>3 DEF WholeInv

LEMMA WholeReads ==
  ASSUME ProvInv, LineInv, BondInv, LineTypeOK', StationTypeOK', ListInv, WholeInv,
         UNCHANGED stationVars,
         read_settings \/ request_bonds \/ request_spacekeys \/ set_up
  PROVE  WholeInv'
<1>0. StoreWhole /\ UNCHANGED <<id, irk, store, bondstore, job>>
  BY HostLeavesWhole DEF WholeInv
<1>1. CASE read_settings
  <2>1. /\ pc = "load" /\ out # <<>> /\ Heard /\ Head(out).of = "load" /\ pc' = "bonds"
        /\ Send([op |-> "bonds"]) /\ UNCHANGED config_mode
        /\ seen' = [seen EXCEPT !.id = Head(out).id]
    BY <1>1 DEF read_settings, Hears, Await
  <2>2. 1 \in DOMAIN out /\ Head(out) = out[1]
    BY <2>1, RestFact
  <2>3. seen'.id = id
    BY <2>1, <2>2 DEF WholeInv, ProvInv, PTypeOK, HostTypeOK
  <2>4. [op |-> "bonds"] \in Command
    BY DEF Command
  <2>5. StoreWhole'
    BY <1>0, <2>1, <2>4, SentWhole
  <2> QED BY <1>0, <2>1, <2>3, <2>5, InMode DEF WholeInv
<1>2. CASE request_bonds
  <2>1. /\ pc = "bonds" /\ pc' = "keys" /\ Send([op |-> "keys"]) /\ UNCHANGED config_mode
        /\ seen' = [seen EXCEPT !.bonds = Head(out).list]
    BY <1>2 DEF request_bonds, Await
  <2>2. seen'.id = id
    BY <2>1 DEF WholeInv, ProvInv, PTypeOK, HostTypeOK
  <2>3. [op |-> "keys"] \in Command
    BY DEF Command
  <2>4. StoreWhole'
    BY <1>0, <2>1, <2>3, SentWhole
  <2> QED BY <1>0, <2>1, <2>2, <2>4, InMode DEF WholeInv
<1>3. CASE request_spacekeys
  <2>1. /\ pc = "keys" /\ out # <<>> /\ Heard /\ UNCHANGED <<config_mode, at, present, db>>
        /\ seen' = [seen EXCEPT !.keys = Head(out).list]
    BY <1>3 DEF request_spacekeys, Hears
  <2>2. 1 \in DOMAIN out /\ Head(out) = out[1] /\ Len(out') = Len(out) - 1
    BY <2>1, RestFact
  <2>3. KeysLine
    BY <2>1 DEF LineInv
  <2>4. Len(out') = 0 /\ Len(cmd) = 0 /\ job = Idle
    BY <2>1, <2>2, <2>3, LenFact DEF KeysLine
  <2>5. seen'.keys = out[1].list /\ seen'.bonds = seen.bonds /\ seen.id = id
    BY <2>1, <2>2 DEF ProvInv, PTypeOK, HostTypeOK, WholeInv
  <2>6. /\ Enumerates(seen.bonds, bondstore) /\ Len(out[1].list) = Cardinality(HasKey)
        /\ at = 1 /\ present = {}
    BY <2>1, <2>2 DEF ListInv
  <2>7. bondstore = HasKey /\ irk = id
    BY <1>0, <2>4 DEF StoreWhole, Adding, Deleting, Idle
  <2>8. /\ Len(seen'.bonds) = Len(seen'.keys)
        /\ \A i \in DOMAIN seen'.bonds : seen'.bonds[i] \in bondstore
    BY <2>5, <2>6, <2>7 DEF Enumerates
  <2>9. config_mode'
    BY <2>1, InMode
  <2>10. CASE seen.id = db.id /\ compare_lengths
    <3>1. IdIsDb'
      BY <1>0, <2>1, <2>5, <2>7, <2>10 DEF IdIsDb
    <3> QED BY <1>0, <2>1, <2>4, <2>6, <2>8, <2>9, <2>10, <3>1, WholeCompares
  <2>11. CASE Await("setup", [op |-> "setup", id |-> db.id])
    <3>1. PICK c \in Command : c = [op |-> "setup", id |-> db.id]
      BY DataFact DEF Command
    <3>2. pc' = "setup" /\ Send(c)
      BY <2>11, <3>1 DEF Await
    <3>3. StoreWhole'
      BY <1>0, <3>1, <3>2, SentWhole
    <3>4. NoClear'
      <4>1. \A i \in DOMAIN cmd' : cmd'[i] = c
        BY <2>4, <3>2, SentFact, DomFact
      <4> QED BY <3>1, <4>1 DEF NoClear
    <3>5. out' = <<>> /\ job'.op # "setup"
      BY <1>0, <2>4, LenFact DEF Idle
    <3> QED BY <1>0, <2>8, <2>9, <3>2, <3>3, <3>4, <3>5 DEF WholeInv
  <2>12. CASE Await("clear", [op |-> "clear"])
    <3>1. [op |-> "clear"] \in Command
      BY DEF Command
    <3>2. StoreWhole' /\ pc' = "clear"
      BY <1>0, <2>12, <3>1, SentWhole DEF Await
    <3> QED BY <2>9, <3>2 DEF WholeInv
  <2> QED BY <1>3, <2>10, <2>11, <2>12 DEF request_spacekeys
<1>4. CASE set_up
  <2>1. /\ pc = "setup" /\ out # <<>> /\ UNCHANGED <<config_mode, at, present, db, seen>>
        /\ compare_lengths /\ Heard
    BY <1>4, NotMistaken DEF set_up, HearsDone
  <2>2. job = Idle /\ Len(cmd) = 0
    BY <2>1, ChangeHeard
  <2>3. /\ IdIsDb /\ Len(seen.bonds) = Len(seen.keys) /\ at = 1 /\ present = {}
        /\ \A i \in DOMAIN seen.bonds : i >= at => seen.bonds[i] \in bondstore
    <3>1. at \in Nat /\ seen.bonds \in Seq(Addrs)
      BY DEF ProvInv, PTypeOK, HostTypeOK
    <3>2. \A i \in DOMAIN seen.bonds : i >= at => i > at \/ i = at
      BY <3>1
    <3> QED BY <2>1, <3>2 DEF WholeInv, ListInv
  <2>4. \A i \in DOMAIN seen'.bonds : seen'.bonds[i] \in bondstore
    BY <2>1, <2>3 DEF ProvInv, PTypeOK, HostTypeOK
  <2>5. config_mode' /\ IdIsDb'
    BY <2>1, <2>3, InMode, HostLeavesWhole
  <2> QED BY <1>0, <2>1, <2>2, <2>3, <2>4, <2>5, WholeCompares
<1> QED BY <1>1, <1>2, <1>3, <1>4

\* The next coin to add, or the end, when all that counts as present is there.
LEMMA WholeAdds ==
  ASSUME ProvInv, BondInv, LineTypeOK', UNCHANGED stationVars, StoreWhole, add_next, UNCHANGED db,
         job = Idle, Len(cmd) = 0, Len(out') = 0, config_mode, IdIsDb, present \subseteq bondstore,
         \A a \in bondstore : Wanted(a)
  PROVE  WholeInv'
<1>0. /\ UNCHANGED <<id, irk, store, bondstore, job>> /\ job'.op = "idle"
      /\ out' = <<>> /\ IdIsDb' /\ (Agrees => Agrees')
  BY HostLeavesWhole, LenFact DEF Idle
<1>1. ASSUME NEW a \in Missing, Await("add", [op |-> "add", addr |-> a, key |-> db.coins[a]]),
             present' = present \cup {a}, UNCHANGED config_mode
      PROVE  WholeInv'
  <2>1. PICK c \in Command : c = [op |-> "add", addr |-> a, key |-> db.coins[a]]
    BY DataFact DEF Command
  <2>2. pc' = "add" /\ Send(c)
    BY <1>1, <2>1 DEF Await
  <2>3. StoreWhole'
    BY <2>1, <2>2, SentWhole
  <2>4. \A i \in DOMAIN cmd' : cmd'[i] = c
    BY <2>2, SentFact, DomFact
  <2>5. NoClear'
    BY <2>1, <2>4 DEF NoClear
  <2>6. cmd' # <<>> => cmd'[Len(cmd')].addr = a
    <3>1. cmd' # <<>> => Len(cmd') \in DOMAIN cmd'
      BY LenFact, DomFact
    <3> QED BY <2>1, <2>4, <3>1
  <2>7. (pc = "add" =>
           /\ out # <<>> => present \subseteq bondstore
           /\ cmd # <<>> => present \subseteq bondstore \cup {cmd[Len(cmd)].addr}
           /\ job.op = "add" => present \subseteq bondstore \cup {job.addr})'
    BY <1>0, <1>1, <2>6
  <2> QED BY <1>0, <1>1, <2>2, <2>3, <2>5, <2>7 DEF WholeInv
<1>2. ASSUME Missing = {}, Await("end", [op |-> "reboot"])
      PROVE  WholeInv'
  <2>1. PICK c \in Command : c = [op |-> "reboot"]
    BY DEF Command
  <2>2. pc' = "end" /\ Send(c)
    BY <1>2, <2>1 DEF Await
  <2>3. StoreWhole'
    BY <2>1, <2>2, SentWhole
  <2>4. NoClear'
    <3>1. \A i \in DOMAIN cmd' : cmd'[i] = c
      BY <2>2, SentFact, DomFact
    <3> QED BY <2>1, <3>1 DEF NoClear
  <2>5. Agrees
    BY <1>2 DEF Agrees, Missing, Wanted, BondInv, BondsKeyed, HasKey
  <2> QED BY <1>0, <2>2, <2>3, <2>4, <2>5 DEF WholeInv
<1> QED BY <1>1, <1>2 DEF add_next

LEMMA WholeZips ==
  ASSUME ProvInv, LineInv, BondInv, LineTypeOK', StationTypeOK', ListInv, WholeInv,
         UNCHANGED stationVars,
         zip \/ deleted \/ zip_ended \/ added
  PROVE  WholeInv'
<1>0. StoreWhole /\ UNCHANGED <<id, irk, store, bondstore, job>>
  BY HostLeavesWhole DEF WholeInv
<1>1. seen.bonds \in Seq(Addrs) /\ seen.keys \in Lines /\ at \in Nat \ {0}
  BY DEF ProvInv, PTypeOK, HostTypeOK
<1>2. ASSUME pc \in {"zip", "del", "add"}
      PROVE  config_mode /\ IdIsDb /\ NoClear
  BY <1>2, InMode DEF WholeInv
<1>3. ASSUME pc = "zip" \/ (pc \in {"del", "add"} /\ out # <<>>)
      PROVE  job = Idle /\ Len(cmd) = 0
  <2>1. job = Idle /\ \A i \in DOMAIN cmd : cmd[i].op = "clear"
    BY <1>3, ChangeHeard
  <2>2. ~(1 \in DOMAIN cmd)
    BY <1>2, <1>3, <2>1 DEF NoClear
  <2> QED BY <2>1, <2>2, LenFact, DomFact
<1>4. CASE zip
  <2>0. /\ pc = "zip" /\ Both /\ config_mode /\ IdIsDb /\ NoClear /\ Len(cmd) = 0
        /\ job.op = "idle" /\ out' = <<>>
        /\ UNCHANGED <<db, seen, config_mode>>
    BY <1>2, <1>3, <1>4, NotMistaken, ChangeHeard, LenFact DEF zip, Idle
  <2>1. /\ at \in DOMAIN seen.bonds /\ Len(seen.bonds) = Len(seen.keys)
        /\ \A i \in DOMAIN seen.bonds : i > at \/ i = at => seen.bonds[i] \in bondstore
        /\ present \subseteq bondstore
        /\ \A a \in present : \E i \in DOMAIN seen.bonds : i < at /\ seen.bonds[i] = a
    BY <1>1, <2>0 DEF Both, WholeInv
  <2>2. IdIsDb'
    BY <2>0, HostLeavesWhole
  <2>3. CASE Await("zip_clear", [op |-> "clear"])
    <3>1. [op |-> "clear"] \in Command
      BY DEF Command
    <3>2. StoreWhole' /\ pc' = "zip_clear"
      BY <1>0, <2>3, <3>1, SentWhole DEF Await
    <3> QED BY <2>0, <3>2 DEF WholeInv
  <2>4. CASE at' = at + 1 /\ present' = present \cup {Bond} /\ pc' = "zip" /\ UNCHANGED cmd
    <3>1. StoreWhole' /\ NoClear'
      BY <1>0, <2>0, <2>4, SentWhole DEF NoClear
    <3>2. \A i \in DOMAIN seen.bonds : i > at + 1 \/ i = at + 1 => seen.bonds[i] \in bondstore
      BY <1>1, <2>1
    <3>3. present' \subseteq bondstore
      BY <2>1, <2>4 DEF Bond
    <3>4. \A a \in present' : \E i \in DOMAIN seen.bonds : i < at + 1 /\ seen.bonds[i] = a
      <4>1. \A i \in DOMAIN seen.bonds : i < at => i < at + 1
        BY <1>1
      <4> QED BY <1>1, <2>1, <2>4, <4>1 DEF Bond
    <3> QED BY <1>0, <2>0, <2>1, <2>2, <2>4, <3>1, <3>2, <3>3, <3>4 DEF WholeInv
  <2>5. CASE Await("del", [op |-> "del", addr |-> Bond]) /\ UNCHANGED <<at, present>>
    <3>0. Bond \in Addrs
      BY <1>1, <2>1 DEF Bond
    <3>1. PICK c \in Command : c = [op |-> "del", addr |-> Bond]
      BY <3>0 DEF Command
    <3>2. pc' = "del" /\ Send(c)
      BY <2>5, <3>1 DEF Await
    <3>3. StoreWhole'
      BY <1>0, <3>1, <3>2, SentWhole
    <3>4. NoClear'
      <4>1. \A i \in DOMAIN cmd' : cmd'[i] = c
        BY <2>0, <3>2, SentFact, DomFact
      <4> QED BY <3>1, <4>1 DEF NoClear
    <3> QED BY <1>0, <2>0, <2>1, <2>2, <2>5, <3>2, <3>3, <3>4 DEF WholeInv
  <2> QED BY <1>4, <2>0, <2>3, <2>4, <2>5 DEF zip, Judged
<1>5. CASE deleted
  <2>0. /\ pc = "del" /\ out # <<>> /\ Heard /\ pc' = "zip" /\ at' = at + 1
        /\ UNCHANGED <<cmd, config_mode, db, seen, present>>
    BY <1>5 DEF deleted, HearsDone
  <2>1. StoreWhole' /\ NoClear' /\ IdIsDb'
    BY <1>0, <1>2, <2>0, SentWhole, HostLeavesWhole DEF NoClear
  <2>2. /\ Len(seen.bonds) = Len(seen.keys)
        /\ \A i \in DOMAIN seen.bonds : i > at => seen.bonds[i] \in bondstore
        /\ present \subseteq bondstore
        /\ \A a \in present : \E i \in DOMAIN seen.bonds : i < at /\ seen.bonds[i] = a
    BY <2>0 DEF WholeInv
  <2>3. /\ \A i \in DOMAIN seen.bonds : i > at + 1 \/ i = at + 1 => seen.bonds[i] \in bondstore
        /\ \A a \in present : \E i \in DOMAIN seen.bonds : i < at + 1 /\ seen.bonds[i] = a
    <3>1. \A i \in DOMAIN seen.bonds : (i > at + 1 \/ i = at + 1 => i > at) /\ (i < at => i < at + 1)
      BY <1>1
    <3> QED BY <2>2, <3>1
  <2> QED BY <1>0, <1>2, <2>0, <2>1, <2>2, <2>3 DEF WholeInv
<1>6. CASE zip_ended
  <2>0. pc = "zip" /\ ~Both /\ add_next /\ UNCHANGED <<db, out>>
    BY <1>6 DEF zip_ended
  <2>1. Compared /\ present \subseteq bondstore
    BY <2>0 DEF ListInv, WholeInv
  <2>2. \A a \in bondstore : Wanted(a)
    BY <1>1, <2>0, <2>1 DEF Compared, Both, Lines
  <2>3. Len(out') = 0
    BY <2>0, ChangeHeard
  <2> QED BY <1>0, <1>2, <1>3, <2>0, <2>1, <2>2, <2>3, WholeAdds
<1>7. CASE added
  <2>0. pc = "add" /\ out # <<>> /\ Heard /\ add_next /\ UNCHANGED db
    BY <1>7 DEF added, HearsDone
  <2>1. present \subseteq bondstore /\ \A a \in bondstore : Wanted(a)
    BY <2>0 DEF ListInv, WholeInv
  <2>2. Len(out) = 1 /\ Len(out') = Len(out) - 1
    BY <2>0, ChangeHeard, RestFact
  <2> QED BY <1>0, <1>2, <1>3, <2>0, <2>1, <2>2, WholeAdds
<1> QED BY <1>4, <1>5, <1>6, <1>7

LEMMA WholeKept ==
  ASSUME Faults = {}, ProvInv, ProvInv', LineInv, TableInv, BondInv, BondInv', ListInv, WholeInv,
         [PatientNext]_allVars, ~power_cut
  PROVE  WholeInv'
<1>0. StationTypeOK' /\ LineTypeOK' /\ StoreWhole
  BY DEF ProvInv, PTypeOK, WholeInv
<1>1. CASE Shell /\ UNCHANGED hostVars
  <2>1. StoreStep
    BY <1>1, StoreKinds
  <2>2. LineStep
    BY <1>1, ShellKinds DEF LineStep
  <2>3. Says /\ IdStep
    BY <1>0, <1>1, SaidFact, IdKinds
  <2> QED BY <1>1, <2>1, <2>2, <2>3, WholeStation
<1>2. CASE watchdog /\ UNCHANGED hostVars
  <2>1. Restarted /\ sys_reboot /\ UNCHANGED <<bondstore, idVars>> /\ job = Idle
    BY <1>2 DEF watchdog
  <2>2. StoreStep /\ IdStep
    BY <2>1 DEF StoreStep, Quiet, Restarted, sys_reboot, IdStep, IdStays
  <2>3. LineStep /\ Says
    BY <2>1 DEF LineStep, Says, Restarted
  <2> QED BY <1>2, <2>2, <2>3, WholeStation
<1>3. CASE Host /\ UNCHANGED stationVars
  BY <1>0, <1>3, WholeConnects, WholeReads, WholeZips DEF Host
<1>4. CASE line_dropped \/ UNCHANGED allVars
  <2>1. UNCHANGED <<stationVars, cmd, out, hostVars>>
    BY <1>4 DEF line_dropped, allVars, lineVars
  <2>2. UNCHANGED <<pc, config_mode, db, seen, at, present, id, irk, store, bondstore, job>>
    BY <2>1, HostLeavesWhole DEF hostVars
  <2>3. StoreWhole' /\ IdIsDb' = IdIsDb /\ Agrees' = Agrees /\ NoClear' = NoClear
    BY <1>0, <2>1, <2>2, SentWhole, HostLeavesWhole DEF NoClear
  <2> QED BY <2>1, <2>2, <2>3 DEF WholeInv
<1>5. CASE host_restarted
  <2>1. pc' = "open" /\ config_mode' = TRUE /\ UNCHANGED <<stationVars, cmd>>
    BY <1>5 DEF host_restarted
  <2>2. StoreWhole'
    BY <1>0, <2>1, SentWhole
  <2> QED BY <2>1, <2>2 DEF WholeInv
<1> QED BY <1>1, <1>2, <1>3, <1>4, <1>5 DEF PatientNext, PNext

\* A power cut is remembered.
LEMMA CutsCounted ==
  ASSUME ProvInv, [PatientNext]_allVars, cuts' = 0
  PROVE  cuts = 0 /\ ~power_cut
<1>1. cuts \in Nat
  BY DEF ProvInv, PTypeOK, HostTypeOK
<1>2. UNCHANGED cuts \/ cuts' = cuts + 1
  BY DEF PatientNext, PNext, boundVars, power_cut, line_dropped, host_restarted, allVars
<1>3. power_cut => cuts' = cuts + 1
  BY DEF power_cut
<1> QED BY <1>1, <1>2, <1>3

LEMMA WholeInit == PInit => WholeInv
<1> SUFFICES ASSUME PInit PROVE WholeInv
  OBVIOUS
<1>1. /\ store = [a \in Addrs |-> NoKey] /\ bondstore = {} /\ job.op = "idle" /\ cmd = <<>>
      /\ id = NoId /\ irk = NoId /\ pc = "open" /\ config_mode = TRUE
  BY DEF PInit, Init, Idle
<1>2. HasKey = {}
  BY <1>1, ValueAssumption DEF HasKey
<1> QED BY <1>1, <1>2 DEF WholeInv, StoreWhole, Adding, Deleting

\* A station that never lost its power has every coin of the data base when
\* the script believes so, no other, and its identity: whatever was under way
\* when the line failed or the script was stopped.
THEOREM AllThere ==
  ASSUME Faults = {}
  PROVE  PatientSpec => []SyncComplete
<1>1. /\ ProvInv /\ ProvInv' /\ LineInv /\ (TableInv /\ BondInv) /\ (TableInv /\ BondInv)'
      /\ ListInv /\ WholeIfNoCut /\ [PatientNext]_allVars
      => WholeIfNoCut'
  BY WholeKept, CutsCounted DEF WholeIfNoCut
<1>2. PInit => WholeIfNoCut
  BY WholeInit DEF WholeIfNoCut
<1>3. ListInv /\ WholeIfNoCut => SyncComplete
  BY DEF ListInv, WholeIfNoCut, WholeInv, SyncComplete, Synced, IdIsDb
<1> QED BY <1>1, <1>2, <1>3, ListsAreTrue, SessionInStep, BondsHaveKeys, PatientIsSpec,
           ProvisioningInvariance, PTL DEF PatientSpec

=============================================================================
