# Verification of ble-coin

TLA+ models of ble-coin, a door lock for a space: Bluetooth key fobs (*coins*)
that prove to a base station (*central*) that they hold a key. The models are
written from the sources (`src/...` below), checked with TLC on small instances
and proved with TLAPS for every value of the constants.

Contents: 1 the system, 2 the modules, 3 the runs, 4 where code and
documentation disagree, 5 fairness, 6 proofs, 7 what is not modelled, 8 plan.

## 1. The system

### Parts, their state and their operations

| Part | Source | State it keeps | Operations |
|---|---|---|---|
| base station: connection handlers | `central-onchip/src/main.c` | `default_conn`, `security_established`, the ATT parameter blocks, `challenge`, `response`, the timeout | `cmd_ble_start`, `bt_ready_cb`, `device_found`, `connected_cb`, `security_changed_cb`, `discover_func`, `write_completed_func`, `notify_func`, `read_completed_func`, `disconnected_cb`, `timeout` |
| base station: watchdog | `central-onchip/src/main.c` | `i_want_to_die`, feeding timer, watchdog | `watchdog_timer_expiry_function`, reset |
| base station: LEDs | `central-onchip/src/leds.c` | three pins | `led0_set`, `led1_set` |
| base station: key table | `central-onchip/src/spaceauth.c` | `keys[]`, `largest_index_used`, records in flash | `spacekey_add`, `spacekey_del`, `space_settings_set`, `spaceauth_validate` |
| base station: shell | `central-onchip/src/helper.c` | `ble_stack_running` | `coin add`, `coin del`, `settings load`, `settings clear`, `reboot`, `central_setup`, `stats` |
| coin: connection and power | `coin/src/main.c` | `default_conn`, `shutdown_timer`, forced power state | `main`, `bt_ready`, `connected`, `disconnected`, `shutdown`, `sys_pm_notify_power_state_entry` |
| coin: LED and button | `coin/src/io.c` | `sos_index`, `blink_counter`, `blink_timer`, the pin | `set_blink_intensity`, `blink_expiry_function` |
| coin: challenge and response | `coin/src/spaceauth.c` | `challenge`, `response`, `ccc_value`, `auth_key` | `write_challenge`, `read_response`, `ccc_cfg_changed`, `set` |
| coin: battery | `coin/src/bas.c` | one byte | one ADC reading |
| host | `prod/sync_central.py` | `first_start`, `config_mode`, `bonds`, `spacekeys` as read, the data base | synchronises the station's tables with the data base over the serial line, reconnects, starts Bluetooth |
| host | `prod/gen_bond.py`, `prod/analyze_fcb.py` | files | make and read storage images |

### How they interact

* **Coin and station** share nothing but the radio. A coin is asleep until its
  button is pressed, then advertises. The station scans, connects to the first
  bonded coin it sees, requests encryption at level 4, discovers the service,
  its two characteristics and the CCC descriptor, subscribes, draws a challenge
  of 64 bytes and writes it. The coin digests it with its key (BLAKE2s) and
  indicates as many bytes of the response as fit; the station reads the rest,
  compares it with its own digest, shows the result and disconnects. Both ends
  have a timeout that ends the connection.
* **Handlers and stack.** All code of the station runs in callbacks of the
  Zephyr Bluetooth stack, of timers and of the shell. The parameter blocks
  (`read_params`, `write_params`, `discover_params`, `subscribe_params`), the
  two buffers and `default_conn` are static and shared between the callbacks.
* **Watchdog.** A periodic timer feeds the watchdog until the first
  disconnection sets `i_want_to_die`; the station then resets and is silent
  until it gets the next `ble_start`.
* **Shell, table and storage.** `coin add` and `coin del` change the table in
  RAM and the record in flash; `settings load` and `ble_start` deliver the
  records of the flash to the table. Once `ble_start` was given, the
  configuration commands are refused until the next reset.
* **Host and station** share a serial line that dies with every reset of the
  station. The script writes a command and reads until it sees what it waits
  for: a log line, or any line `done`. It reads both tables, walks them side by
  side, deletes and adds coins, reboots the station and gives `ble_start`.
* **Coin: four contexts.** `main` runs in a preemptible thread, `bt_ready` and
  `shutdown` in the work queue, `connected` and `disconnected` in the stack's
  receive thread, the blinking in the clock's interrupt; all of them use
  `default_conn`, the LED and the forced power state.

### What is hard, and what makes each part correct

PROJECT.json lists the hazards with their lines. In short:

| Part | Hard behaviour | Correct means |
|---|---|---|
| station: exchange | the indication may overtake the write response, security is reported several times, static buffers outlive a connection, every stack call may fail | no parameter block in use twice; nothing before encryption; **the door opens only for the right digest of this connection's challenge** |
| station: connections | one connection object, one scanner, references by hand, nothing retried | the reference count is exact; scanning or connected as long as scans start; the timeout belongs to the connection |
| station: time | feeding against window, timeout against reset | no watchdog reset while the first connection is served; every connection ends |
| key table | search bound that only grows, holes, records that fail, resets between any two steps, changes before the store is loaded | it is a map with `CONFIG_BT_MAX_PAIRED` entries; no key is in use that is not stored, deleted keys do not come back |
| coin: power | callbacks before `bt_conn_cb_register`, one-shot timer against connection, failing disconnect | it always goes back to sleep; the reference count is exact |
| coin: light | the distress signal ignores `BI_OFF` and the pin keeps its level in deep sleep | a sleeping coin is dark, a distress signal is shown to its end |
| coin: challenge | pieces at any offset, indication cut to the MTU, CCC, nothing retried | what is indicated and read is one whole digest of one whole challenge; a genuine coin on a good radio opens the door |
| host | commands sent without waiting, answers that are not matched with requests, resets and power cuts in between, tables compared by position and keys by one byte | no stranger on a synchronised station; changes only after loading; no request that is refused in silence; the synchronisation ends |

## 2. The modules

| Module | Models | Lines of code |
|---|---|---|
| `Central` | the station's handlers, timers, watchdog and resets | `main.c`, `spaceauth_validate`, `cmd_reboot`, `helper_ble_running` |
| `DoorLock` | abstract: what the station promises about the door | |
| `CentralProofs` | theorems of `Central` | |
| `SpaceKeys` | the key table, its records and the commands that change it | `spaceauth.c`, parts of `helper.c` |
| `KeyMap` | abstract: a map with a capacity | |
| `SpaceKeysProofs` | theorems of `SpaceKeys` | |
| `CoinLight` | LED, blink timer and distress signal, on the clock | coin `io.c` |
| `Coin` | the coin's life from button to deep sleep; extends `CoinLight` | coin `main.c` |
| `CoinProofs` | theorems of `Coin` | |
| `CoinAuth` | the coin's half of the authentication, as operations on its five variables | coin `spaceauth.c` |
| `Keyfob` | `Central` and `CoinAuth` at the two ends of a link with an MTU; extends `Central` | the coin's calls and `main.c`'s, together |
| `KeyfobProofs` | theorems of `Keyfob` | |
| `Provisioning` | shell, bonds, serial line and the script; extends `SpaceKeys` | `helper.c`, `sync_central.py` |
| `ProvisioningProofs` | theorems of `Provisioning`: ranges, order of loading, refusals | |
| `Synchronisation` | what holds at every step of a session of the script, part by part; `PatientSpec`; extends `Provisioning` | |
| `SynchronisationProofs` | theorems about the line and about bonds and their keys | |
| `AgreementProofs` | theorems about the lists and the tables the script leaves behind | |
| `MCCentral`, `MCSpaceKeys`, `MCCoin`, `MCKeyfob`, `MCProvisioning` | small instances for TLC | |

Definitions have the names of the functions and variables they stand for; the
map in PROJECT.json names the lines. A definition whose comment begins with
"Mutant of" is not used: it is a plausible bug of that code, and every property
is known to be violated when the mutant of its entry in PROJECT.json replaces
the code's definition.

**Atomicity.** The stack's receive thread and the system work queue are
cooperative, so a handler runs to its end before the next one: one action per
handler, every call it makes into the stack included. The coin's `main` is
preemptible; it is three actions, cut where what the others do matters (before
and after `bt_enable`, and before `bt_conn_cb_register`). The station's shell is
preemptible too: `ble_start` is two actions, `cmd_ble_start` up to `bt_enable`
and `bt_conn_cb_register`. Timer callbacks that run in an interrupt touch the
watchdog or the LED only.

### Central

The Bluetooth stack is external and is modelled as main.c observes it: the one
connection object (`conn`, `link`), the references to it, the scanner, a queue
`att` of requests that are answered in order, and the registered subscription.
A request made on a link that is being torn down fails. A call fails at will if
its name is in `Faults`. Answers carry what the code distinguishes: found or
not found, level reached or not, how many blocks of a response.

* **Data.** A random number is its age: `zero`, `fresh` (drawn in this
  connection) or `stale`. A digest is the pair (key, challenge). The response
  buffer is `RespLen` blocks, each with the digest it was copied from, so a
  buffer pieced together from two digests can be told from a whole one. A key
  is a model value; `SpaceKey` and `CoinKey` say what station and coin have.
* **Coins** of the checked instance: one in order, one with another key, one
  with a bond and no key, one stranger.
* `connected_cb` of main.c is two actions, `connected_err` and `connected_cb`;
  `discover_func` is `discover_next` and `discover_ccc`. Answers on which no
  handler acts are the single action `write_completed_func`.
* **Time** is counted in ticks. `FeedPeriod < WdtWindow <= ConnTimeout` is all
  that is assumed of 2.5 s, 5 s and 5 s.
* **Start.** Until `bt_conn_cb_register` ran, the station scans and connects but
  hears neither of a connection nor of its end (`missed_callback`). The history
  variable `unreported` says that default_conn had such a fate. A connection that
  began unheard has no timeout and no encryption; one that ended unheard leaves
  `default_conn` set, so that the station, fed and without a scan, is stuck
  until the operator reboots it. `OwnsConnection`, `TimerOwned` and
  `ConnectionEnds` name the exception.
* **The coin.** `notify_func` is what main.c does with an indication of any
  length at any time. `Next` takes it through `coin_indicates`, the assumption on
  the coin: it indicates its response when it has digested the challenge, and
  once. main.c has no such test; `Keyfob` shows it of this repository's coin.
  `DoorNeedsAnswer`, `ParamsExclusive` and `ImplementsLock`, and their theorems,
  are therefore about a station with such coins. A bonded peer that indicated a
  second short response would have `read_params` used again (line 478), and one
  that indicated a whole response once more after `check_response` would be
  judged against a challenge of zeros.
* When `notify_func` ends the subscription (`BT_GATT_ITER_STOP`, line 486) the
  stack writes the CCC again (`bt_gatt_unsubscribe`). `enc` is the level the
  connection was reported at: a report after level 4 changes nothing in it.
* `stage` and the substitutions after it are the refinement mapping to
  `DoorLock`.

### SpaceKeys

`keys` and `largest_index_used` are the variables of spaceauth.c. `store` is
the last record of every address (the storage appends and the last one
counts); `settings_load` picks the records to be delivered, which include the
deleted ones or not, and `space_settings_set` delivers them in any order, with
resets in between. `Faults` allows a save that is not done (its result is
ignored by the code) and a read that fails after it may have spoiled the key
in the slot, because `read_cb` reads straight into the slot, and an erasing of
the flash that fails (`settings clear` resets the station all the same). The
all-zero address, which marks a free slot, is refused with `EINVAL`. The history
variables `loaded` and `result` change nothing. `ManagedSpec` is the order
`sync_central.py` uses: load first, then change.

### Coin and CoinLight

Time is counted in units of 125 ms, of which all periods of the code are
multiples, so the distress signal and the shutdown timer are exact. `Tick`
passes one unit when no timer is due. `BootMax` is the one assumption about
speed: from the start of the timer, `main` and the stack's initialisation take
at most `BootMax` units. `registered` is false until `bt_conn_cb_register`
ran: what the stack reports before is lost, as it is in the code, which
registers after `bt_enable`. The pin keeps its level in deep sleep and over the
reset by which the button ends it; the RAM does not survive. The callback
`button_pressed` of io.c does nothing: that the button wakes the chip
(`wake_up`) is the hardware's work.

### CoinAuth and Keyfob

`CoinAuth` is the coin's code alone: the challenge buffer byte by byte, the
digest (a pair of key and whole buffer), the CCC value and the two lengths, cut
to the MTU. The record of the key is read up to the buffer's length: a longer
one counts, a shorter one or an error leaves a key of zeros. `Keyfob` takes the place of the external coin of `Central`: the
challenge is sent in one write if it fits and otherwise as prepared writes of
`mtu - 5` bytes, each read from the station's buffer when it is sent, and what
`notify_func` and `read_completed_func` receive is what the coin's code
computes. `ImplementsCentral` says that the two together behave as `Central`,
so everything shown of `Central` is shown of the pair. On a bad radio
connections fail, answers are refused or missing, `bt_gatt_indicate` fails, which
the coin does not look at, and the link ends at any time; on a good one nothing
is late. That the station writes the CCC again after a whole response reaches the
coin as well. The coin of `Keyfob` is awake while it is
connected; how it sleeps and wakes is `Coin`.

### Provisioning

The station is `SpaceKeys` with the bonds of the stack, the identity, and the
shell as a process of its own: it reads one command at a time, and a command
that writes two records is two actions (`cmd_coin_add`, `bt_keys_store`;
`cmd_coin_del`, `del_spacekey`; `cmd_central_setup`, `save_irk`), so a power
cut may come in between. `cmd` and `out` are what is under way in each
direction. A reset empties `cmd` and kills the line; what is still in `out` can
be read no more once the host has found the line dead and opened it anew.

The script is one action per point at which it waits (`pc`). `FirstCommand` is
what it sends on each new connection: `reboot`, then `settings load`, then
`ble_start`. The line fails by itself (`line_dropped`), the station loses its
power (`power_cut`), resets after serving a coin (`watchdog`), and the script is
stopped anywhere and started with another data base (`host_restarted`). Keys
are seen by the host through `FirstByte`, all that `stats spacekey` prints.

Of the output only the lines the script looks for exist, and `done` is the same
for every command. While the station is resetting itself the script may take
a late `done` of an older command for the answer to `settings clear` or to the last
`reboot`; it then goes on with lists of tables that are erased, or waits for the
station's messages (`set_up`, `zip`, `rebooted`). `NoFalseDone` says that it never
does: with two line failures the case does not arise; with three it does, and
`ProvInv`, `BondsKeyed`, `UsesManaged` and `NeverRefused` hold all the same.

## 3. The runs

| Run | States | Instance | What it shows |
|---|---|---|---|
| `central_safety` | 258 705 | 4 coins, response of 3 blocks, all calls may fail, periods 2/4/4 | the invariants, the inductive invariant, and `Central` implements `DoorLock` |
| `central_live` | 45 901 | 4 coins, 2 blocks, periods 1/2/2; scan, disconnect and init succeed | scanning or with a connection, timeout owned, every connection ends that the station is told of, a dying station resets |
| `keys_map` | 24 686 (symmetry) | 3 addresses and the address of a free slot, 2 slots, 2 keys, failing saves, reads and erasing | the table is in order and implements `KeyMap` |
| `keys_store` | 4 332 | the same without faults, loaded first | table and store agree; a deletion is a deletion |
| `coin_safety` | 4 256 | exact times, `BootMax` 6, all calls may fail | references, light and the inductive invariant |
| `coin_sleep` | 4 252 | the same, disconnect succeeds | the timeout is answered; the coin goes to sleep |
| `keyfob` | 76 363 | a genuine coin and one without its key, key records that are whole, too long, short or missing, MTUs 23, 65 and 69, 32 and 64 bytes, good and bad radio | the pair implements `Central`; a genuine coin opens the door |
| `prov` | 733 678 | 3 addresses, 2 slots, 3 keys with 2 first bytes, 5 data bases, 2 starts of the script, a power cut, 2 line failures | no stranger, no mistaken answer, the synchronisation ends |
| `central_rescan`, `central_kill`, `keys_delete`, `prov_cut` | | no faults; `prov_cut`: a power cut | the disagreements of section 4 |

**Properties.** `DoorNeedsAnswer`: open only in a live connection whose coin
has digested this connection's challenge with the key the table has for it.
`ImplementsLock`: at most one challenge and one judgement per connection, and
the judgement opens the door for a genuine coin and no other.
`ParamsExclusive`, `EncryptedFirst`, `OwnsConnection`, `NeverIdle`,
`TimerOwned`, `WatchdogOnlyIfDying`, `DyingCutsFirst` are stated above their
definitions. `SlotsInOrder`, `NothingUnsaved`, `TableIsStore`, `DeleteForgets`
are about slots, search bound, RAM and flash. `LedOffAsleep`, `SosShown`,
`TimeoutAnswered`, `GoesToSleep` are about the coin's timers. `AnswersMatch`,
`RestFits` and `DoorOpens` are about what passes between the two ends.
`NoStranger`, `SyncComplete`, `NoFalseDone`, `BondsKeyed`, `NeverRefused`,
`UsesManaged` and `SyncEnds` are what the script needs to be right about a station it only knows
by what it prints.

**Bounds.** No run has a state constraint: the state spaces are finite.

* Two blocks of response are the least for which an indication can be short and
  a read completes it; with three there are also partial reads and reads that
  run past the end. Two connections in a row are needed for stale data, and any
  number happens, since nothing counts them. The queue is bounded by the
  protocol (`Queues`), not by the model.
* One address more than slots makes the table full; two slots make holes below
  the search bound; two keys tell an old key from a new one. `keys_map` uses
  symmetry, which is sound there: it checks invariants and a refinement without
  liveness. `keys_store` and the liveness runs do not use it.
* The coin's times are the program's. `BootMax` is 6 units, 750 ms. The distress
  signal lasts 73 units and the shutdown timer 80, so a coin that needs 8 units
  and then fails would sleep with its LED lit; with 7 both end in the same
  instant. The margin of one second is a fact about the code that the models
  make visible, not one they remove.
* The MTUs of `keyfob` are the default (23: the indication is cut and a read
  completes it, the challenge takes four pieces), one that needs two pieces of
  different lengths (65), and one that takes it whole (69). 32 and 64 bytes are
  the program's.
* `prov`: the five data bases differ in a coin, in a key with the same and with
  another first byte, and in the identity; one has a coin more than the station
  has slots. A second start of the script is what makes two data bases meet. One
  power cut reaches every half-done command; two line failures reach a session
  that begins while the shell still answers an earlier one.
* **The bound of two line failures matters.** With three in a row, while a slow
  shell still has commands to read, TLC finds behaviours in which late answers
  do for a whole session: the script matches no answer with a request, so it
  believes a station synchronised that it never changed (`NoFalseDone`,
  `SyncComplete` and `NoStranger` then fail). Without any assumption about the
  shell's speed the three hold for at most two. For any number they are proved
  under `PatientSpec`: the shell uses the second that the script sleeps to finish
  all but one command. `ProvInv` and `BondsKeyed`, and so `UsesManaged` and
  `NeverRefused`, are proved for any number however slow the shell is (section 6),
  what the script does after a mistaken `done` included: `PSpec` contains it. With
  three failures (`MaxDrops` 3, `MaxCuts` 0) TLC reaches each of those
  continuations among 430 982 states, and the four hold in all of them.

## 4. Where code and documentation disagree

| Run | Documentation | Code |
|---|---|---|
| `central_rescan` | "does cleanup and continue scanning" (`main.c:528`), "continuously scans" (`README.md:20`) | every disconnection ends in a watchdog reset, after which the station is silent until it gets `ble_start`; `sync_central.py` sends it when it finds the serial line again |
| `central_kill` | "kills the connection if that fails" (`README.md:20`) | a failed encryption is ignored; the timeout ends the connection |
| `keys_delete` | "delete a registered coin" (`central-onchip/README.md:9`) | before `settings load`, `coin del` prints "done" and leaves the record in flash |
| `prov_cut` | "status: synchronizing database", then "status: central connected and scanning" (`sync_central.py:152`, `:191`) | a power cut in the middle of `coin del` leaves a key without its bond; the script then sends `settings clear` without waiting for it (line 167), takes the old lists for the station's state, and starts Bluetooth on a station that has no coin at all |

A difference without a run: "both ends kill the connection after 5 s"
(`README.md:31`). The coin's timer is 10 s and counts from the button press, not
from the connection (`coin/src/main.c`), as the exact times of `Coin` show.

## 5. Fairness

Safety needs none. `FairSpec` assumes only what the kernel and the stack do by
themselves: time passes, expired timers are served, `main` and the work queue
run, a requested connection comes about or fails, a requested disconnection
completes, the chip enters a forced power state, the shell's thread gets from
`bt_enable` to `bt_conn_cb_register`. All of it is weak fairness, the least a
scheduler gives: an action that stays enabled is taken. **Nothing** is assumed of the operator, of the coin's
answers at the station or of the station at the coin; that is what makes
`ConnectionEnds`, `DyingResets` and `GoesToSleep` worth checking. They do
assume that `bt_conn_disconnect` succeeds: its result is ignored and nothing
tries again, which is listed as a hazard. `UnattendedSpec` leaves out the
operator's `reboot`.

`KFairSpec` adds to `Keyfob` that the messages of a good radio arrive, and time
does not pass while one is owed; nothing of the kind is assumed of a bad one.
`PFairSpec` assumes that the shell and the script run. It assumes nothing of the
operator, of the line or of the watchdog. `SyncEnds` is about data bases
that fit: for a larger one the script waits for ever for the `done` that
`cmd_coin_add` does not print when the table is full.

## 6. Proofs

TLAPS proves, for all values of the constants that satisfy the assumptions
named in the modules:

* **Central** (`CentralProofs`): the inductive invariant `IInv`, and from it
  `TypeOK`, `OwnsConnection`, `NeverIdle`, `TimerOwned`, `ParamsExclusive`,
  `EncryptedFirst`, `DoorNeedsAnswer`, `WatchdogOnlyIfDying`, `DyingCutsFirst`
  and `ImplementsLock`: the refinement step by step. `DoorNeedsAnswer` alone is
  not inductive. `ProtocolInv` adds how far the exchange is: which queues of
  requests exist, that a digest at the coin is always of the fresh challenge,
  and that the part of the response read so far comes from that digest.
  `WindowInv` adds that nothing of this begins before the callbacks are
  registered.
  `ClockInv` adds that feeding timer and watchdog run in step until the station
  wants to die, and that afterwards the watchdog is at or before the timeout.
  The proof takes the parts of the invariant one after the other and, within a
  part, one step per action, with a lemma for each group of handlers that
  changes the exchange.
* **SpaceKeys** (`SpaceKeysProofs`): `SlotsInOrder`, `TypeOK`, `ImplementsMap`
  under every fault, for `Spec`; `NothingUnsaved`, `TableIsStore` and
  `DeleteForgets` for their specifications. Every change of the table writes
  one slot, and the new map is the old one with one entry changed. That a
  refused address means a full map, and that a loaded table is never too small
  for the store, is the pigeonhole argument: used slots and addresses
  with a key are in bijection.
* **Coin** (`CoinProofs`): `IInv`, and from it `TypeOK`, `OwnsConnection`,
  `TimeoutAnswered`, `LedOffAsleep` and `SosShown`. `BootInv` says how far the
  start is; `SosInv` relates the time the signal has used (`SosBegin` of the
  next entry less what is left of this one) to what is left of the shutdown
  timer. `BootAssumption` gives the rest: the signal ends before the timer.

* **Keyfob** (`KeyfobProofs`): the inductive invariant `KInv`, and from it
  `ImplementsCentral`, `AnswersMatch`, `RestFits` and `DoorNeedsFob`: an open
  door means that the coin at the other end has digested this connection's
  challenge with the key the station keeps for it. `FobInv` says that the pieces
  follow one another without a gap, that what has arrived is fresh, and that the
  read starts where the indication ended. Each step of the pair is shown to be a
  step of `Central` or to leave it alone, so `IInv` is inherited.
* **Provisioning** (`ProvisioningProofs`): the inductive invariant `ProvInv`,
  for any number of restarts, power cuts and line failures, and from it
  `PTypeOK`, `UsesManaged`, `NeverRefused` and, by the theorem of `SpaceKeys`,
  `TableIsStore` for a station the script provisions. `LoadedInv` says who may
  know that the station is loaded: a reset makes it forget and kills the line
  with everything on it, so a change never reaches a station that has not
  loaded. `RefusedInv` is about the commands not read yet: whatever Bluetooth
  would refuse stands behind a `reboot` (`OffAt`), and the script only asks while
  it is in its first sessions, whose first command of all is `reboot`.

* **Synchronisation** (`SynchronisationProofs`, `AgreementProofs`): why the
  script is right about a station of which it only knows what it prints. The
  invariant has four layers, each resting on those before it.

  1. `LineInv`: the session is in step with the shell. Everything under way is
     for the command the script waits for, or is the end of one command of an
     older session, and that one is behind the session as soon as the first
     answer to `settings load` is in. Theorems `SessionInStep` and `NoLateDone`
     (`NoFalseDone`).
  2. `TableInv` and `BondInv`: keys are stored before their bonds and removed
     after them, and there is always a free slot for a bond whose key is stored
     (pigeonhole). Theorems `BondsHaveKeys` and `NoBondWithoutKey`
     (`BondsKeyed`), both for `PSpec`, that is with any line and any shell.
  3. `ListInv`: the lists the script gets are the tables at that moment, as sets
     (a listing is a bijection), and a bond that is not wanted is still in the
     part of the list the script has yet to walk through. Hence `ListsAreTrue`,
     `NoStrangerLeft` (`NoStranger`) and `OnlyKnownCoinsEnter`, the same for the
     tables in RAM which the station asks when a coin connects. Power cuts may
     come at any time: what they leave half done is a key without a bond, and
     the script gives up or asks again.
  4. `WholeIfNoCut`: as long as no power is cut, keys and bonds are of the same
     coins but for the one command in the shell, identity and IRK were written
     together, and what the script counts as present is. Hence `AllThere`
     (`SyncComplete`).

  The steps of the shell are first sorted by what they do to the line, to the
  store and to the identity (`ShellKinds`, `StoreKinds`, `IdKinds`); each layer
  then has one case for each kind instead of one for each command.

  Layers 1, 3 and 4 are about `PatientSpec`: `Provisioning` with the one
  hypothesis `CaughtUp` on the step by which the script opens the line, that the
  shell has then at most one command to finish. The code gives it a second for
  that: after a failure of the line `run_async` sleeps before it tries again
  (`sync_central.py`, line 234), and a script that was stopped has to be started
  again, Python and data base included. The hypothesis fails only if two commands
  take the shell longer than that. After a `reboot` the script opens the line without
  sleeping; there the hypothesis asks for nothing, because the session was in
  step. How often the line fails, and when, is not restricted, nor are power
  cuts, watchdog resets and restarts of the script. The hypothesis is needed:
  section 3 says what happens without it.
* **`ProvisionedDeletion`**: `DeleteForgets` for a station the script
  provisions, from `UsesManaged` and the theorem of `SpaceKeys`.

All results about the store after a save (`TableIsStore`, `NothingUnsaved`,
`DeleteForgets`, and layers 2 to 4) are for `Faults = {}`, a flash that does what
it is told, as in their runs: no part of the program looks at the result of a
save.

Before they were proved, the layers were checked with TLC. To repeat it, take
`PatientSpec` for the SPECIFICATION of `prov.cfg`, give it the invariants
`LineInv`, `BondInv`, `ListInv`, `WholeIfNoCut` and `OnlyKnownEnter`, and vary
`MaxDrops`, `MaxStarts` and `MaxCuts`: 4, 1, 1 has 111 474 states, 3, 2, 1 has
755 115 and 2, 2, 2 has 952 748. In the first a synchronised station with bonds is
reached after four line failures and a power cut.

Assumptions are the named `ASSUME`s: distinct model values, positive sizes, the
order of the three periods, `BootMax + 73 < 80`, a finite set of addresses, MTUs of
at least 23 and a response of at most 42 bytes (indication and one read).

**Only model-checked:** the liveness properties (liveness under fairness is out
of the prover's reach), the violations, and `NoStranger`, `SyncComplete` and
`NoFalseDone` for a shell that does not catch up: there they hold up to two line
failures and no further.

## 7. What is not modelled, and why

* `leds.c` pin writes, `bas.c` (one ADC reading turned into a percentage),
  flashing scripts, board files: pure I/O.
* Coins other than this repository's: `Central` assumes that a coin indicates its
  response once and after it has digested the challenge (`coin_indicates`, section
  2). Nothing is shown of a station whose bonded peer does otherwise.
* Which error a refused request carries: `EINVAL`, `ENOSPC` and `ENOENT` of the key
  table are told apart, ATT error codes are not, since no handler looks at them.
* Parsing of arguments and wording of the output in the shell; the status
  display of the script and the battery level it shows.
* `settings clear` erases the flash page by page: the models do it at once, so a
  power cut in the middle of it is not modelled.
* `gen_bond.py` and `analyze_fcb.py`: the encoding of storage items is a pure
  function without state. The reader takes the second length byte of a long item
  for data (`analyze_fcb.py:36`); all items the program writes are short.
* The inside of Zephyr and of BLAKE2: third-party, external. A digest is taken
  to be equal only for equal key and challenge, and random numbers not to
  repeat. Whether the stack drops a subscription at the end of a connection is
  left open (both happen in the model).
* `ad_parse_func` writes 16 bits through a pointer to 8 (`main.c:212`): what
  this changes depends on the compiler's stack frame; the value is only logged.
* Bonds are a constant of `Central` and records in `Provisioning`; the two
  modules share the theorems of `SpaceKeys`, not their state.

## 8. Plan

Done in this order: `Central` with `DoorLock`, `SpaceKeys` with `KeyMap`,
`Coin` with `CoinLight`, `CoinAuth` and `Keyfob`, `Provisioning`, and the
theorems of each. What is left, by value:

1. `Coin` and `Keyfob` over one link: which of the two timeouts ends a
   connection, and a coin that sleeps while the station still waits for it.
2. Station and data base as one atomic table of coins, implemented by
   `Provisioning` as long as no power is cut.
3. The erasing of the flash page by page, with power cuts in between.
4. `FcbItem`: lengths of one or two bytes, the CRC, and the reader of
   `analyze_fcb.py`, as operators checked over bounded inputs.
