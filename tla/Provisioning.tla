---------------------------- MODULE Provisioning ----------------------------
(***************************************************************************)
(* How a station gets its coins: sync_central.py on the host compares the  *)
(* station's tables with its data base and corrects them with the shell    *)
(* commands of src/central-onchip/src/helper.c, over a serial line that    *)
(* dies with every reset of the station.                                   *)
(*                                                                         *)
(* The space keys are those of SpaceKeys.  The bonds are kept by the       *)
(* Bluetooth stack, in RAM and in records of the same storage.  Of what    *)
(* the shell prints only the lines the script looks for are modelled: one  *)
(* answer for each command that prints them, and every answer ends with    *)
(* "done" sooner or later.  Flash is erased at once.                       *)
(***************************************************************************)
EXTENDS SpaceKeys, Sequences

CONSTANTS
  Ids, NoId,          \* identities of a station; NoId: none
  OwnId,              \* one the stack makes up when it has none
  FirstByte,          \* what the host sees of a key
  DataBases,          \* the contents coins.txt and central.txt may have
  MaxStarts,          \* how often the host's program is started
  MaxCuts,            \* how often the station loses its power
  MaxDrops            \* how often the line alone fails

ASSUME IdAssumption    == NoId \notin Ids /\ OwnId \in Ids
ASSUME ByteAssumption  == DOMAIN FirstByte = Keys \cup {NoKey, BadKey}
ASSUME DataAssumption  == DataBases \subseteq [id : Ids, coins : [Addrs -> Keys \cup {NoKey}]]
ASSUME BoundAssumption == MaxStarts \in Nat \ {0} /\ {MaxCuts, MaxDrops} \subseteq Nat

VARIABLES
  ble_stack_running,
  bonds,              \* the stack's bonds in RAM, slot by slot
  bondstore,          \* addresses with a bond record
  bondtodo,           \* those settings_load has yet to deliver
  id, irk,            \* records bt/id, and whose bt/irk is
  job,                \* what the shell is in the middle of
  cmd,                \* commands it has not read yet
  out,                \* answers the host has not read yet
  port,               \* the host's end of the line
  pc, first_start, config_mode, db,     \* the host's program
  seen,               \* the answers it has collected
  at,                 \* its place in them
  present,            \* coins that need not be added any more
  starts, cuts, drops \* history, bounded

keyVars   == <<keys, largest_index_used, store, todo, loaded, result>>
bondVars  == <<bonds, bondstore, bondtodo>>
idVars    == <<id, irk>>
lineVars  == <<cmd, out, port>>
hostVars  == <<pc, first_start, config_mode, db, seen, at, present>>
boundVars == <<starts, cuts, drops>>
stationVars == <<keyVars, bondVars, idVars, ble_stack_running, job>>
allVars   == <<stationVars, lineVars, hostVars, boundVars>>

Idle        == [op |-> "idle"]
NothingSeen == [id |-> NoId, bonds |-> <<>>, keys |-> <<>>]
NoBonds     == [i \in Slot |-> NoAddr]

PInit ==
  /\ Init
  /\ ble_stack_running = FALSE /\ bonds = NoBonds /\ bondstore = {} /\ bondtodo = {}
  /\ id = NoId /\ irk = NoId /\ job = Idle
  /\ cmd = <<>> /\ out = <<>> /\ port = "closed"
  /\ pc = "open" /\ first_start = TRUE /\ config_mode = TRUE
  /\ db \in DataBases
  /\ seen = NothingSeen /\ at = 1 /\ present = {}
  /\ starts = 1 /\ cuts = 0 /\ drops = 0

-----------------------------------------------------------------------------
(* The shell of the station.                                               *)

\* The shell reads its next command when it is done with the last one.
Reads(op) == job = Idle /\ cmd # <<>> /\ Head(cmd).op = op

\* Mutant of Done: it is not printed.
NotDone    == UNCHANGED out

Answer(a)  == out' = IF port = "open" THEN Append(out, a) ELSE out
Done       == Answer([of |-> "done"])
NextCmd    == cmd' = Tail(cmd)

\* Slots in use, in the order of the table.
Listings(slots) ==
  {s \in [1..Cardinality(slots) -> slots] : \A i, j \in DOMAIN s : i < j => s[i] < s[j]}

print_bonds ==
  \E used \in Listings({i \in Slot : bonds[i] # NoAddr}) :
    Answer([of |-> "bonds", list |-> [n \in DOMAIN used |-> bonds[used[n]]]])

spacekeys_print ==
  \E used \in Listings({i \in 0..largest_index_used : keys[i].addr # NoAddr}) :
    Answer([of |-> "keys",
            list |-> [n \in DOMAIN used |-> <<keys[used[n]].addr, FirstByte[keys[used[n]].key]>>]])

\* The bond of a in a slot of its own, if there is one.
Bonded(a) ==
  LET free == {i \in Slot : bonds[i] = NoAddr} IN
  IF free = {} \/ \E i \in Slot : bonds[i] = a THEN bonds
  ELSE [bonds EXCEPT ![First(free)] = a]

\* All the records are about to be delivered, the space keys first.
LoadAll(for) ==
  /\ settings_load /\ bondtodo' = bondstore /\ job' = [op |-> for]
  /\ UNCHANGED <<bonds, bondstore>>

\* Commands that change the configuration are refused once Bluetooth runs,
\* and then print no "done".
Configures(op, does) ==
  /\ Reads(op)
  /\ IF ble_stack_running THEN NextCmd /\ UNCHANGED <<stationVars, out, port>>
                          ELSE does /\ UNCHANGED ble_stack_running

cmd_settings_load ==
  Configures("load", LoadAll("load") /\ NextCmd /\ UNCHANGED <<idVars, out, port>>)

deliver_key ==
  /\ \E a \in Addrs : space_settings_set(a)
  /\ UNCHANGED <<bondVars, idVars, ble_stack_running, job, lineVars>>

deliver_bond ==
  /\ todo = {}
  /\ \E a \in bondtodo : bondtodo' = bondtodo \ {a} /\ bonds' = Bonded(a)
  /\ UNCHANGED <<keyVars, bondstore, idVars, ble_stack_running, job, lineVars>>

\* The stack logs its identity, or that it has none.
settings_loaded ==
  /\ job.op \in {"load", "ble"} /\ todo = {} /\ bondtodo = {}
  /\ job' = Idle
  /\ IF job.op = "load" THEN Answer([of |-> "load", id |-> id]) ELSE UNCHANGED out
  /\ UNCHANGED <<keyVars, bondVars, idVars, ble_stack_running, cmd, port>>

cmd_print ==
  /\ \/ Reads("bonds") /\ print_bonds
     \/ Reads("keys")  /\ spacekeys_print
  /\ NextCmd /\ UNCHANGED <<stationVars, port>>

\* The space key first: without a slot for it there is neither a bond nor a
\* "done".
cmd_coin_add ==
  Configures("add",
    /\ spacekey_add(Head(cmd).addr, Head(cmd).key)
    /\ job' = IF result' = "ok" THEN [op |-> "add", addr |-> Head(cmd).addr] ELSE Idle
    /\ NextCmd /\ UNCHANGED <<bondVars, idVars, out, port>>)

bt_keys_store ==
  /\ job.op = "add" /\ job' = Idle
  /\ bondstore' = bondstore \cup {job.addr} /\ bonds' = Bonded(job.addr)
  /\ Done /\ UNCHANGED <<keyVars, bondtodo, idVars, ble_stack_running, cmd, port>>

\* Mutant of cmd_coin_del: the space key first.
cmd_coin_del_key_first ==
  Configures("del",
    /\ spacekey_del(Head(cmd).addr)
    /\ job' = [op |-> "del", addr |-> Head(cmd).addr]
    /\ NextCmd /\ UNCHANGED <<bondVars, idVars, out, port>>)

\* The bond first; an address the stack does not know is no reason to stop.
cmd_coin_del ==
  Configures("del",
    LET a == Head(cmd).addr
        slots == {i \in Slot : bonds[i] = a} IN
    /\ bonds' = [i \in Slot |-> IF i \in slots THEN NoAddr ELSE bonds[i]]
    /\ bondstore' = IF slots = {} THEN bondstore ELSE bondstore \ {a}
    /\ job' = [op |-> "del", addr |-> a]
    /\ NextCmd /\ UNCHANGED <<keyVars, bondtodo, idVars, out, port>>)

del_spacekey ==
  /\ job.op = "del" /\ job' = Idle
  /\ spacekey_del(job.addr)
  /\ Done /\ UNCHANGED <<bondVars, idVars, ble_stack_running, cmd, port>>

cmd_central_setup ==
  Configures("setup",
    /\ id' = Head(cmd).id
    /\ job' = [op |-> "setup", id |-> Head(cmd).id]
    /\ NextCmd /\ UNCHANGED <<keyVars, bondVars, irk, out, port>>)

save_irk ==
  /\ job.op = "setup" /\ job' = Idle
  /\ irk' = job.id
  /\ Done /\ UNCHANGED <<keyVars, bondVars, id, ble_stack_running, cmd, port>>

\* bt_ready_cb loads everything once more, and the stack gives a station
\* without an identity a new one.
cmd_ble_start ==
  /\ Reads("ble")
  /\ ble_stack_running' = TRUE
  /\ IF ble_stack_running
     THEN UNCHANGED <<keyVars, bondVars, idVars, job>>
     ELSE /\ LoadAll("ble")
          /\ id' \in IF id = NoId THEN {NoId, OwnId} ELSE {id}
          /\ UNCHANGED irk
  /\ NextCmd /\ UNCHANGED <<out, port>>

\* The station starts again: its RAM is empty and the line is dead.
Restarted ==
  /\ ble_stack_running' = FALSE /\ bonds' = NoBonds /\ bondtodo' = {} /\ job' = Idle
  /\ cmd' = <<>> /\ UNCHANGED out
  /\ port' = IF port = "open" THEN "dead" ELSE port

clear_storage ==
  Configures("clear", \E failed \in EraseFails :
    /\ cmd_settings_clear(failed) /\ Restarted
    /\ IF failed THEN UNCHANGED <<bondstore, idVars>>
                 ELSE bondstore' = {} /\ id' = NoId /\ irk' = NoId)

cmd_reboot == Reads("reboot") /\ sys_reboot /\ Restarted /\ UNCHANGED <<bondstore, idVars>>

\* A station that has served a coin resets itself.
watchdog ==
  /\ ble_stack_running /\ job = Idle
  /\ sys_reboot /\ Restarted /\ UNCHANGED <<bondstore, idVars>>

Shell ==
  \/ cmd_settings_load \/ deliver_key \/ deliver_bond \/ settings_loaded
  \/ cmd_print \/ cmd_coin_add \/ bt_keys_store \/ cmd_coin_del \/ del_spacekey
  \/ cmd_central_setup \/ save_irk \/ cmd_ble_start \/ clear_storage \/ cmd_reboot

-----------------------------------------------------------------------------
(* sync_central.py.                                                        *)

Send(c)  == cmd' = IF port = "open" THEN Append(cmd, c) ELSE cmd
Await(state, c) == pc' = state /\ Send(c)

\* The next answer, when it is the kind the host waits for; others are skipped.
Hears(kind) == out # <<>> /\ Head(out).of = kind
Heard       == out' = Tail(out) /\ UNCHANGED port

\* Any command's "done" will do for _wait_until_done, even that of another one
\* while the station resets ("clear", "zip_clear" and "end"): see NoFalseDone.
HearsDone == out # <<>>

waiting == {"reboot", "load", "bonds", "keys", "setup", "clear", "zip_clear", "del",
            "add", "end", "run"}

\* Mutants of FirstCommand: the station is not rebooted first, and it is not
\* loaded.
NoReboot == IF config_mode THEN "load" ELSE "ble"
NoLoad   == IF first_start THEN "reboot" ELSE IF config_mode THEN "bonds" ELSE "ble"

FirstCommand ==
  IF first_start THEN "reboot" ELSE IF config_mode THEN "load" ELSE "ble"

\* Mutant of LeftInMode: the synchronisation counts as done when it starts.
DoneTooEarly == first_start

\* What config_mode is once the connection has begun.
LeftInMode == config_mode

\* Opening the line drops what was in its buffer.
Flushed == out' = <<>>

connect ==
  /\ pc = "open" /\ port' = "open" /\ Flushed
  /\ seen' = NothingSeen /\ at' = 1 /\ present' = {}
  /\ cmd' = Append(cmd, [op |-> FirstCommand])
  /\ pc' = IF FirstCommand = "ble" THEN "run" ELSE FirstCommand
  /\ first_start' = FALSE /\ config_mode' = LeftInMode
  /\ UNCHANGED db

\* A read on a dead line raises SerialException.
serial_exception ==
  /\ pc \in waiting /\ port = "dead"
  /\ pc' = "open" /\ port' = "closed"
  /\ UNCHANGED <<cmd, out, first_start, config_mode, db, seen, at, present>>

skip_line ==
  /\ \E kind \in {"load", "bonds", "keys"} : pc = kind /\ out # <<>> /\ ~Hears(kind)
  /\ Heard
  /\ UNCHANGED <<cmd, hostVars>>

\* The answer to a reboot can only be a late one of another command: after the
\* first the line is opened once more, after the last comes the main event loop.
rebooted ==
  /\ pc \in {"reboot", "end"} /\ HearsDone /\ Heard
  /\ pc' = IF pc = "reboot" THEN "open" ELSE "run"
  /\ UNCHANGED <<cmd, first_start, config_mode, db, seen, at, present>>

read_settings ==
  /\ pc = "load" /\ Hears("load") /\ Heard
  /\ seen' = [seen EXCEPT !.id = Head(out).id]
  /\ Await("bonds", [op |-> "bonds"])
  /\ UNCHANGED <<first_start, config_mode, db, at, present>>

request_bonds ==
  /\ pc = "bonds" /\ Hears("bonds") /\ Heard
  /\ seen' = [seen EXCEPT !.bonds = Head(out).list]
  /\ Await("keys", [op |-> "keys"])
  /\ UNCHANGED <<first_start, config_mode, db, at, present>>

\* Different numbers of bonds and keys: clear, without waiting for it.
compare_lengths ==
  /\ pc' = "zip"
  /\ IF Len(seen'.bonds) # Len(seen'.keys) THEN Send([op |-> "clear"]) ELSE UNCHANGED cmd

request_spacekeys ==
  /\ pc = "keys" /\ Hears("keys") /\ Heard
  /\ seen' = [seen EXCEPT !.keys = Head(out).list]
  /\ \/ seen.id = db.id /\ compare_lengths
     \/ seen.id = NoId  /\ Await("setup", [op |-> "setup", id |-> db.id])
     \/ seen.id \notin {db.id, NoId} /\ Await("clear", [op |-> "clear"])
  /\ UNCHANGED <<first_start, config_mode, db, at, present>>

\* The identity is set, or, so it seems, the station cleared.
set_up ==
  /\ pc \in {"setup", "clear"} /\ HearsDone /\ Heard
  /\ UNCHANGED seen /\ compare_lengths
  /\ UNCHANGED <<first_start, config_mode, db, at, present>>

\* Line at of both lists, as long as both have one.
Both   == at <= Len(seen.bonds) /\ at <= Len(seen.keys)
Bond   == seen.bonds[at]
Key    == seen.keys[at]

\* Mutant of InDataBase: the keys are not compared.
AnyKey == db.coins[Bond] # NoKey

InDataBase == db.coins[Bond] # NoKey /\ FirstByte[db.coins[Bond]] = Key[2]

\* A line is judged at once, or, if it was out of order, after a "done".
Judged == IF pc = "zip" THEN Bond = Key[1] /\ UNCHANGED <<out, port>>
                        ELSE pc = "zip_clear" /\ HearsDone /\ Heard

\* The coin of this line stays, or is deleted; a table in another order is
\* cleared.
zip ==
  /\ Both
  /\ \/ /\ pc = "zip" /\ Bond # Key[1]
        /\ Await("zip_clear", [op |-> "clear"]) /\ UNCHANGED <<out, port, at, present>>
     \/ /\ Judged /\ InDataBase
        /\ pc' = "zip" /\ at' = at + 1 /\ present' = present \cup {Bond}
        /\ UNCHANGED cmd
     \/ /\ Judged /\ ~InDataBase
        /\ Await("del", [op |-> "del", addr |-> Bond]) /\ UNCHANGED <<at, present>>
  /\ UNCHANGED <<first_start, config_mode, db, seen>>

deleted ==
  /\ pc = "del" /\ HearsDone /\ Heard
  /\ pc' = "zip" /\ at' = at + 1
  /\ UNCHANGED <<cmd, first_start, config_mode, db, seen, present>>

Missing == {a \in Addrs : db.coins[a] # NoKey} \ present

\* The coins of the data base that are not present are added one by one.
add_next ==
  \/ \E a \in Missing : /\ Await("add", [op |-> "add", addr |-> a, key |-> db.coins[a]])
                        /\ present' = present \cup {a}
                        /\ UNCHANGED config_mode
  \/ /\ Missing = {}
     /\ config_mode' = FALSE
     /\ Await("end", [op |-> "reboot"])
     /\ UNCHANGED present

zip_ended ==
  /\ pc = "zip" /\ ~Both
  /\ add_next
  /\ UNCHANGED <<out, port, first_start, db, seen, at>>

\* Mutant of added: the next command is sent without waiting for "done".
AddedUnheard ==
  /\ pc = "add" /\ add_next
  /\ UNCHANGED <<out, port, first_start, db, seen, at>>

added ==
  /\ pc = "add" /\ HearsDone /\ Heard
  /\ add_next
  /\ UNCHANGED <<first_start, db, seen, at>>

Host ==
  \/ connect \/ serial_exception \/ skip_line \/ rebooted \/ read_settings \/ request_bonds
  \/ request_spacekeys \/ set_up \/ zip \/ deleted \/ zip_ended \/ added

-----------------------------------------------------------------------------
(* What nobody asked for.                                                  *)

power_cut ==
  /\ cuts < MaxCuts /\ cuts' = cuts + 1
  /\ sys_reboot /\ Restarted
  /\ UNCHANGED <<bondstore, idVars, hostVars, starts, drops>>

\* The line fails, and the station knows nothing of it.
line_dropped ==
  /\ drops < MaxDrops /\ drops' = drops + 1
  /\ port = "open" /\ port' = "dead"
  /\ UNCHANGED <<stationVars, cmd, out, hostVars, starts, cuts>>

\* The host's program is stopped at any point and started with other files.
host_restarted ==
  /\ starts < MaxStarts /\ starts' = starts + 1
  /\ db' \in DataBases
  /\ pc' = "open" /\ first_start' = TRUE /\ config_mode' = TRUE
  /\ seen' = NothingSeen /\ at' = 1 /\ present' = {}
  /\ port' = "closed"
  /\ UNCHANGED <<stationVars, cmd, out, cuts, drops>>

PNext ==
  \/ Shell /\ UNCHANGED <<hostVars, boundVars>>
  \/ watchdog /\ UNCHANGED <<hostVars, boundVars>>
  \/ Host /\ UNCHANGED <<stationVars, boundVars>>
  \/ power_cut
  \/ line_dropped
  \/ host_restarted

PSpec == PInit /\ [][PNext]_allVars

PFairSpec ==
  /\ PSpec
  /\ WF_allVars(Shell /\ UNCHANGED <<hostVars, boundVars>>)
  /\ WF_allVars(Host /\ UNCHANGED <<stationVars, boundVars>>)

-----------------------------------------------------------------------------
\* The host believes the station synchronised, and has started Bluetooth.
Synced == pc = "run" /\ ble_stack_running

\* NoStranger, SyncComplete and NoFalseDone hold for any number of failures if
\* the shell catches up before the script opens the line again (PatientSpec of
\* Synchronisation), and for two failures of the line (MaxDrops) if not: with
\* three in a row and a shell that has yet to answer, the late answers do for a
\* whole session that never spoke to it.

\* A coin the station lets in is one of the data base, with the key of the
\* data base as far as the host can see keys: deletions that were interrupted,
\* late answers and tables in another order do not leave a stranger behind.
NoStranger ==
  Synced => \A a \in bondstore : store[a] \in Keys =>
    /\ db.coins[a] # NoKey
    /\ FirstByte[db.coins[a]] = FirstByte[store[a]]

Agrees ==
  \A a \in Addrs : IF db.coins[a] = NoKey THEN ~(a \in bondstore /\ store[a] \in Keys)
                   ELSE a \in bondstore /\ store[a] \in Keys

\* Without power cuts the station has all of the data base.
SyncComplete == Synced /\ cuts = 0 => Agrees /\ id = db.id /\ irk = db.id

\* sync_central.py: "status: synchronizing database", then "status: central
\* connected and scanning": the same, whatever was cut off in between.
SyncRestores == Synced => Agrees

\* The way the script uses the shell is that of ManagedSpec: the station's
\* table is loaded before it is changed.
UsesManaged == ManagedSpec

\* The host never asks a station with Bluetooth on for a command it refuses
\* without an answer: each session with a station of unknown state begins with
\* its reboot (first_start).
NeverRefused ==
  cmd # <<>> /\ ble_stack_running => Head(cmd).op \in {"reboot", "ble"}

\* While the host waits for the end of a station it has cleared or rebooted,
\* no late "done" of another command makes it believe that it got one: it would
\* go on with the tables it has just had erased (_wait_until_done).
NoFalseDone == pc \in {"clear", "zip_clear", "end"} => out = <<>>

\* The host is never left waiting: it comes back to the main event loop for
\* ever, unless its data base has more coins than the station has slots; then
\* it waits for the "done" that cmd_coin_add does not print.
Fits == Cardinality({a \in Addrs : db.coins[a] # NoKey}) <= MaxPaired

SyncEnds == []<>(Fits => pc = "run")

-----------------------------------------------------------------------------
(* The invariant of ProvisioningProofs.                                    *)

Command ==
  [op : {"load", "bonds", "keys", "clear", "reboot", "ble"}] \cup [op : {"setup"}, id : Ids]
    \cup [op : {"del"}, addr : Addrs] \cup [op : {"add"}, addr : Addrs, key : Keys]
Job ==
  [op : {"idle", "load", "ble"}] \cup [op : {"setup"}, id : Ids]
    \cup [op : {"add", "del"}, addr : Addrs]
Lines   == Seq(Addrs \X {FirstByte[k] : k \in Keys \cup {NoKey, BadKey}})
Answers ==
  [of : {"done"}] \cup [of : {"load"}, id : Ids \cup {NoId}]
    \cup [of : {"bonds"}, list : Seq(Addrs)] \cup [of : {"keys"}, list : Lines]

StationTypeOK ==
  /\ ble_stack_running \in BOOLEAN /\ job \in Job
  /\ bonds \in [Slot -> Addrs \cup {NoAddr}] /\ bondstore \subseteq Addrs
  /\ bondtodo \subseteq bondstore
  /\ bondtodo # {} => job.op \in {"load", "ble"}
  /\ {id, irk} \subseteq Ids \cup {NoId}

LineTypeOK ==
  cmd \in Seq(Command) /\ out \in Seq(Answers) /\ port \in {"closed", "open", "dead"}

HostTypeOK ==
  /\ pc \in waiting \cup {"open", "zip"}
  /\ first_start \in BOOLEAN /\ config_mode \in BOOLEAN /\ db \in DataBases
  /\ seen \in [id : Ids \cup {NoId}, bonds : Seq(Addrs), keys : Lines]
  /\ at \in Nat \ {0} /\ present \subseteq Addrs
  /\ starts \in 1..MaxStarts /\ cuts \in 0..MaxCuts /\ drops \in 0..MaxDrops

\* Every variable keeps its range, and so does what is under way on the line.
PTypeOK == TypeOK /\ StationTypeOK /\ LineTypeOK /\ HostTypeOK

\* Where the host has heard that the station is loaded.
Told == (waiting \ {"reboot", "load", "run"}) \cup {"zip"}

\* Changes are sent by who has heard it, and a station that forgets it drops
\* the line with everything on it.
LoadedInv ==
  /\ \A i \in DOMAIN cmd : cmd[i].op \in {"add", "del"} => loaded
  /\ port = "open" /\ pc \in Told => loaded
  /\ port = "open" => \A i \in DOMAIN out : out[i].of = "load" => loaded
  /\ job.op \in {"load", "ble"} /\ todo = {} => loaded
  /\ job.op = "del" => loaded

\* Bluetooth is off when the shell comes to its n-th command.
OffAt(n) ==
  /\ ble_stack_running => \E i \in 1..n - 1 : cmd[i].op = "reboot"
  /\ \A i \in 1..n - 1 : cmd[i].op = "ble" => \E j \in i + 1..n - 1 : cmd[j].op = "reboot"

\* What a station with Bluetooth on refuses comes after a reboot.
RefusedInv ==
  /\ \A n \in DOMAIN cmd : cmd[n].op \notin {"reboot", "ble"} => OffAt(n)
  /\ ~first_start /\ config_mode => OffAt(Len(cmd) + 1)
  /\ pc \in (Told \ {"end"}) \cup {"load"} => ~first_start /\ config_mode

ProvInv == IInv /\ PTypeOK /\ LoadedInv /\ RefusedInv

=============================================================================
