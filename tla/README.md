# SmartStuff: a TLA+ verification of the smart bus

Three programs run on the three boards of a bus. Everything below is about
them; paths are relative to the repository, which is found under `src/`.

    HMI board                 BBB (BeagleBone)                 DVR board
    smb-hmi/smb_main          smart-bus/src                    smb-HISI/src
    Arduino: setup + loop     tasks, timers, main loop         daemon: main thread +
    Modbus RTU master  <----> HmiApp/HmiAdp (RTU server)       comm thread
                              DvrApp/DvrAdp (TCP client) <---> inter_cpu (TCP server)

The two Modbus links are the only way the boards interact. Each is a table of
16-bit registers kept by the server; the client polls and writes it. Above that,
both links carry a login handshake (`0xA5A5` asked, `0xB6B6` answered), a
periodic exchange, and recovery after the other side went away. The directions
differ: over TCP the *server* (the DVR daemon) asks to be logged in and the
client answers; over the serial line the *client* (the HMI) asks.

## Inventory

**DVR daemon** (`smb-HISI/src`)

| component | state | operations | interacts with |
|---|---|---|---|
| inter-CPU server, `inter_cpu.c` | listening and accepted socket, `mb_mapping`, `g_loginOK`, mailbox `interCPUInfo` | `interCPUComm` (listen, accept, login test, mailbox copy, reply, close), `refreshInfoToBBB`, `stopModbusServer` | BBB by TCP; main thread by `g_loginOK` and the mailbox, without a lock |
| command handling, `daemon.c` | mailbox slots taken, `struct tm` under construction | `sysInit`, login wait and loop of `main`, `manageProcsViaCmd`, `handle_signal`, `daemonize` | comm thread; child processes; the system clock |
| information, `info.c`, `sys.c` | three shared memories, the report registers | `createShms`, `getAPCinfo`, load, memory, disk | the APC processes by shared memory; the report registers |
| process start, `apps.c`, `daemon.c` | process table, pid file and its lock | `daemonize`, `parse_conf_file`, `startProcs`, `handle_signal` | fork and exec, other daemons by the pid file, the programs by signals |

**BBB** (`smart-bus/src`)

| component | state | operations | interacts with |
|---|---|---|---|
| DVR client, `app_dvr`, `adp_dvr` | TCP connection, `Dvrlogin`, `loginRegVal`, `DvrState` | `init`, `run` (probe, answer a login, sync the time, read the report), reconnect | the DVR daemon |
| HMI server, `app_hmi`, `adp_hmi` | register table, `Hmilogin`, station and time fields | `init`, `run` (serve, answer a login, take the manual station over), timers `refreshCriticalInfos` (keep-alive, data) and `refreshNonCriticalInfos` | the HMI board; the main loop by plain setters |
| main loop, `app_main.cpp` | route, index of the station, the shared buffer `hmi_display` | publish index and fonts, report by speech, set the system time | HMI server, GPS application, message FIFO |
| GPS pipeline, `drv_serial`, `drv_gps`, `adp_gps`, `app_gps` | line buffer, parsed position, two stations | read a line, parse it under `counter_lock`, `getGpsInfo`, distance report | main loop |
| message FIFO, `omc.cpp` | a FIFO of 520-byte messages | write, read | main loop to `OmcApp` |
| tasks and OS layer, `main.cpp`, `os_*` | table of tasks | start, stop by signal | all applications |

**HMI board** (`smb-hmi/smb_main`)

| component | state | operations | interacts with |
|---|---|---|---|
| link, `smb_hmi.cpp` | response buffer of the Modbus library, `keepAliveFails`, `keepAliveSt`, `errNo`, the data to show | `isBBBReady`, `loginBBB`, `getInfosFromBBB`, `refreshInfosToBBB` | the BBB |
| panel, `smb_main.ino`, `smb_menu.cpp`, `smb_hmi.cpp` | current menu, dirty bits, error box, alarm key | key handlers, `popMsg`, `printTop`, `displayXinXi`, `displaySheZhi` | link (shares its data) |

What is hard in this code: two threads and no lock (mailbox, `hmi_display`,
register table); requests served after their sender has given them up; a
response that carries nothing but a function code; login states kept on both
sides of a link either side of which may restart; failed reads after which the
old content of a buffer is used; counters that are not reset. PROJECT.json lists
each of these hazards at its line with the properties that watch it.

What makes each component correct:

* DVR link: the daemon is logged in only after the BBB's answer and stays so;
  a new BBB run finds a request; the link and the time come back after faults.
* Mailbox: a time the daemon sets is not an arbitrary mix of messages; no sync
  is lost for good; none is handled more often than it came.
* HMI link: an HMI in operation is logged in; the driver's station arrives; the
  error shown is, in the end, the one that fits the state of the BBB.
* Station data: the fonts shown belong to the station whose index is shown, or
  to a neighbour while a publication is under way.
* Panel: what changes is redrawn, an error box goes when its cause goes.
* GPS and FIFO: a fix is made of one sentence and read whole; each round of the main
  loop finds a new one; messages keep their framing.
* DVR daemon: one daemon at a time; its programs do not outlive it; the memory it
  serves from is the one the programs write; the report keeps its period.

## Modules

| module | content |
|---|---|
| `LoginSession` | abstract specification of the TCP link's login |
| `DvrLink` | the TCP link, both ends, connection and faults |
| `DvrLinkProofs` | its invariants, action property and refinement, proved |
| `HisiMailbox` | the mailbox between the two threads of the DVR daemon |
| `HmiLink` | the serial link: setup, login, keep-alive, manual station |
| `StationInfo` | the data over that link: index and fonts of the station, from the main loop by the timer and the registers to the HMI |
| `StationBoard` | abstract specification of what the panel promises of stations |
| `HmiPanel` | the HMI's panel: logo, keys, menus, dirty bits, screen, error box |
| `GpsPipeline` | from the GPS receiver to the system clock and the message FIFO |
| `BeijingTime` | `UTC2BTC` and, as its reference, the Gregorian calendar |
| `HisiReport` | the DVR daemon's periodic report |
| `HisiDaemon` | the DVR daemon's life, on top of `HisiReport` |
| `HisiMailboxProofs`, `HmiLinkProofs`, `StationInfoProofs`, `HmiPanelProofs`, `GpsPipelineProofs`, `BeijingTimeProofs`, `HisiDaemonProofs` | proofs about the modules of these names |
| `MC*` | the instances TLC checks |

### DvrLink

Per connection the model keeps both ends (`srvSock`, `cliSock`), because each
side notices a loss at its own time: the connection of a client waits in the
listen queue (`backlog`) until the server, which serves one client at a time,
accepts it; the server may still hold the dead connection of an earlier client
(`stale`). `inbox` holds requests that are on their way, also those whose caller
has timed out, `reply` the response.

* `HisiBoot`, `Listen`, `Accept`, `Serve`, `EndStale`/`EndLive` are the comm thread
  (`interCPUComm`). `Serve` is one round of its loop in the order of the code:
  the login register is tested, a write is copied to the mailbox, and only then
  `modbus_reply` carries the request out. That is why the daemon notices its login
  one request late, perhaps on another connection.
* `MainLogin`, `MainRound` are the main thread.
* `Connect`, `Send`, `Receive`, `Fail`, `LinkRecover` are `DvrApp::run` over `DvrAdp`;
  the client's program counter `cliPc` names the Modbus call it makes next, and
  `LoginStep`, `AnswerStep`, `ExchangeStep`, `ProbeOk`, `ProbeFails` what the code does
  with the result. `retry` of `dataClientRun` is not initialised on the failing path,
  so its first value is a choice, including the largest U32.
* `ConnLoss`, `Timeout`, `EndLive`, `HisiCrash`, `BbbRestart` are faults. Each costs
  one of `MaxFaults`.

Simplifications. The count of connection attempts and the restart of the network
it triggers have no effect inside the programs. The four reads of the report follow one
another whatever they return and count as one. `serverAlive` is 0 only where no
register access happens, so that its tests in `getVal` and `setVal` never fail.
`DvrApp::stop` is not modelled. libmodbus and TCP are external: what their error
recovery and queues do is taken from how `adp_dvr.cpp` and `inter_cpu.c` configure
and call them. The branch "already login" of `DvrApp::run` cannot be reached by a
new BBB run before its counter wraps, because every accept resets the register:
`FreshClientSeesRequest` says so.

A daemon that could not create its shared memories goes on with `g_loginOK` as loaded
(`LOGINOK`) and without a Modbus context. `HisiBoot` takes that branch (`srvPc = "noctx"`);
`LoginNeedsAnswer`, `LoginRestored` and the refinement speak of the others.

`LoginNeedsAnswer`, `MainWorksLoggedIn` and `LoginSticks` state in the link's own terms what
the refinement of `LoginSession` says abstractly. They are theorems, not part of a run.

### HisiMailbox

`interCPUInfo` with every access to a field as a step of its own. The n-th time
sync carries the value n in its four registers, so a value tells which sync it comes
from. The order of the accesses is that of the source; the boards have one
core. The registers of commands have no sender in the repository and are left out.
The first sync delivers zeros and each later one the values of the sync before it,
since the copy precedes `modbus_reply` (see the findings). `began` is a history variable,
the syncs that had come when the main thread's pass over the slots began.

`PartsNear` says what a system time may be mixed of, in both directions: of two parts that
come from syncs, the one read later is at most one sync older than the one read before it
(its slot was not yet overwritten), and newer by at most one and as many as came while the
pass went through the slots. A main thread that is held up between two slots may thus skip
syncs. A part may also stem from no sync (`Garbage`, a field never assigned); the year, whose
slot a login answer uses too, may be that answer.

### HmiLink

`hmiPc` names the Modbus call the HMI makes next: in setup `ready`, `wrLogin`,
`rdLogin`, the first `wrKeep`; in the loop `wrStation`, `rdKeep`, `wrKeep`. `line` holds the
requests the BBB's port has buffered. A request empties the receive buffer of the
HMI, and in practice waits until the BBB has served the one before (80 ms delays);
that it does not (`SendEarly`), that a frame is lost, that an answer is late, and
restarts of either board are faults. `session` is a history variable: the BBB has not
restarted since the HMI began to log in. `row` counts the keep-alives missed in a row.

The alarm key sends the same write three times (`alarm1`, `alarm2`, `alarm3`), each with the
retries of any write and whatever the one before returned; `alarmIn` remembers that one of
them was stored. On the BBB nothing reads that register: the model ends where the code does.

Omitted: the registers with data to show (see `StationInfo`), the wrap of the login
counter, the manual passenger level (the BBB never reads its register), and `HmiState`:
its "dead" value is out of reach because `lostHmi` is a local of the timer function that
starts from 0 each time (`app_hmi.h:197`).

### StationInfo

The fonts of the current and the next station pass three copies, none of them locked:
the main loop clears and fills `hmi_display`, the timer thread copies it into the
registers, and the HMI reads them in requests of 64 registers, a *block*. A block of the
model holds the number of the station whose fonts it contains, or `Blank` (cleared),
or `Junk` (what the response buffer held when a read failed). Main loop and timer
interleave between any two blocks and any two statements.

* `SetIndex`, `Clear`, `Fill`, `Wake` are one round of `MainLoop::run`: the index is set
  before the fonts. `Slept` says what the sleep of 30 s is long enough for: a whole pass
  of the timer (2 s), and the end of any fetch that began before that. A fetch takes at
  most 20 s, since it ends at the latest with its ninth failed read of 2 s.
* `TimerIndex`, `TimerCopy` are a pass of `refreshCriticalInfos`.
* `FirstPoll` is the call of `getInfosFromBBB` at the end of `setup`, `Poll` that of the
  loop, which fetches the fonts only if the index differs from the last one. `ReadBlock`,
  `ReadBlockFails` are the reads; the first fetch gives up at the second failure of either
  station, the one in the loop only in the next station's fonts.

`fetched` is a history variable that rates the last fetch: `exact` if its index was read
from settled registers and nothing disturbed it, `near` if a publication or a failed read
did, `any` if the index was not read or the fetch was given up. `passes` and `old` exist
for `Slept`. The model begins after the publication that precedes the main loop and
leaves a restart of the BBB to `HmiLink`; the display bits that a fetch sets belong to the
panel.

`StationBoard` says what comes of all this without any copy: the bus departs, the panel
is renewed and then shows the station the bus is at, or the one before, with fonts that
are those of the same station or of a neighbour, or it is unsure. `StationInfo`
implements it: a fetch in progress is a panel being renewed; one that is over is shown,
unless `fetched` is `any`, where the panel is unsure until it is renewed. It implies
`ShownNear`, which speaks of the fonts alone, and says besides that the index shown is
one the bus had just then. It leaves `ShownExact` to the invariant.

### HmiPanel

The program of the HMI board is one loop, and `pc` says where it is: `wait` in setup, then
`key`, `draw`, `parse` in turn.

* `LogoWait`, `Setup`: the moving circles of `printVendorLogo` until the BBB is ready;
  the first poll, which sets no dirty bits, and the first drawing.
* `Key`: one key per round. `GoMenu` and `GoStation` are the handlers that do something; the
  other keys lead to functions with empty bodies. The station keys compute modulo the
  number of stations, which is 0 until it has been read; the result of that division
  is any member of `Junk`.
* `Draw`: `printTop`, the current menu, `popMsg`. The screen is kept per field and column
  by column, and a refresh prints the new text over what is there (`Over`), so that what is
  wider, or lies beside it, stays. `Refreshed` is what `displayXinXi` really prints for each
  field.
* `Parse`: `parseModbusMsg` with every outcome of the keep-alive and every new value of the
  data, among them those a failed read leaves; also a poll that ends at the second failed
  read of the next station's fonts (`GivesUp`): the station has changed by then, but its
  display bits are not set, and what is read after it keeps its value. Later polls find the
  station unchanged. `unmarked` is a history variable for that, until the station is drawn.

Temperature and humidity share a row in which things move. The degree sign and the label
and number of the humidity are drawn at other columns by a full drawing (`RedrawPlace`) than
by a refresh (`RefreshPlace`), where the humidity's depend besides on whether the
temperature has been printed in the same round. So the model keeps that row in columns of two
pixels (`Picture`): the numbers have glyphs of 16 pixels, the others of 32. In the other rows
all places are the same in both cases (the fonts of top line and zone are both 32 pixels
wide), and a column is a glyph.

`SteadyShown` leaves out a passenger level above 3, for which `displayXinXi` has no text, so
that a refresh leaves that of the level before; and the station while it is `unmarked`.
`TracesKnown` says of every field of the zone that the data lie whole on top of what is left of
older ones, at one of the places they are drawn at, or that it is one of three cases in which
the screen does not show the data: the weather's second half, the ultraviolet level in the
font of the top line, a station given up on. Each case and each place is needed: TLC finds
the invariant violated without it (for the weather and the ultraviolet level with their
values in the instance).

Left out: colours; pixel rows (the numbers of that row are printed five lower than
the glyphs beside them, the top line's font is four rows lower than the others); what the
message box covers; the shift of the top line by a bus number of four digits; drawing itself.
`StationInfo` says how right the data is; here it is arbitrary.

### GpsPipeline and BeijingTime

Three threads of the BBB. `GpsTask` reads bytes up to a line feed (`ReadByte`,
`Timeout`, `ReadError`) and parses the line under `counter_lock` (`ParseLock` ...
`ParseHigh`); `MainTask` copies the fix under the same lock (`TakeLock`, `CopyTime`,
`CopyPlace`), sets the clock (`SetClock`), writes the FIFO and sleeps; `ReadFifo` is the
task that reads it. A token stands for the characters between two fields the parser
looks at and carries the second its sentence belongs to, so that one can tell a fix made
of two sentences. Characters are lost on the line, reads fail, the receiver falls
silent. The read timeout is taken from the clock that the main loop sets: `jumped` says
that it was set since the line began, after which the timeout may strike.

The FIFO is counted in blocks of 40 bytes: 13 blocks are written per message, up to 15 are
read at a time. `at` is the position within a message of the first block in the FIFO.

What the code does and the model repeats: the hour is never copied by `getGpsInfo`, so that
the clock's hour is whatever the stack held; the call of `UTC2BTC` is commented out, so
that the clock is set to UTC; the status of a fix is not looked at; there is no
checksum; chars are unsigned on the BBB, so a read error does not end a line (the model
takes either sign). Left out: the comparison of positions with the stations
(the placeholders in the code are near every position, and nobody uses the message).

`BeijingTime` is `UTC2BTC` as it stands, a chain of carries, next to the calendar. It is
evaluated when the run `gps_pipeline` starts (`BeijingInstance`) and proved for all
years a sentence can name.

### HisiReport and HisiDaemon

`HisiReport` is `refreshInfoToBBB` with the clock it measures by. Only the distance of
the clock from the last message matters; seconds that do not grow count as those of the
next minute (`TIME_SEC_DIFF`). `HisiDaemon` puts it into the life of the daemon:
`Daemonize` and `LockPidFile`, `ReadConf`, `SysInit`,
`ForkProgram`/`ForkFails`/`EnterProgram` (the process runs before its number is in the
table), `StartComm`, then service; and `handle_signal` step by step: `Unlock`, `Unlink`,
one `KillProgram` per entry of the table, `FreeServer`, `DestroyShms`. Several daemons
may exist, and a signal may come between any two steps.

What the code does and the model repeats: every handled signal ends the daemon, SIGHUP
at once and without cleaning up, although its message says that the configuration is
read again; a daemon whose `sysInit` failed goes on without serving; `createShms` compares what
`mmap` returns with NULL, so that a mapping that failed (`Failed`, `MAP_FAILED`) goes
unnoticed and the daemon serves, until the first message makes `getAPCinfo` use that pointer
and ends the process (`Fault`); the handler
releases the lock before it removes the names of pid file and memories; the table holds
6789 (default) or 0 (configured) for programs not started yet and -1 where `fork`
failed, and the handler signals these numbers too, which reaches some other process, its
own group, or every process; a second signal runs the handler's steps again; `getMemUse`
hands `getline` a pointer never set. `init` starts the daemon without `--pid_file` and
therefore without any lock; the model is of the starts that give one. Its `-c` option is
ignored, and the path of the configuration is relative after a `chdir("/")`, so that the
default table is the usual case; both are checked. `printf` goes to descriptor 1, which
by then is the pid file; an `exec` that fails looks like success.

`parse_conf_file` says of each line which head it is under (`Under`), and counts the
programs among the lines that are reached before one that ends the file. A configuration
is any sequence of kinds of lines. A line without a number under the magic head is accepted
once the right number has been read, since `headMagic` keeps it.

`MemoryShared` says what is left of sharing under all that: a daemon that serves has mapped
the memory its programs open by the name, or failed to map one unnoticed, and then it never
tells the BBB anything; what a daemon has told comes from that memory.

Not modelled: a child of `exeCmd` has the daemon's `handle_signal` until its `execvp`, so that a
signal in between would run the handler in the child too and remove the names of the pid file
and the memories. In the model a signalled program just ends.

## What the runs check

| run | bounds | states | shows |
|---|---|---|---|
| `dvr_link` | HISI_DEAD 2, counter mod 3, 3 faults | 140 k | types; `FreshClientSeesRequest`; `ImplementsSession`; `LoginRestored`, `TimeKeepsComing`, `BrokenLinkLeft` |
| `dvr_dead_reported` | 1, mod 2, 1 fault | | violated, see the findings |
| `hisi_mailbox` | 3 messages, each a sync or a login answer | 1.2 M | types; `PartsNear`, `TakenFresh`, `SetsBounded`; `SyncHandled` |
| `hisi_mailbox_current` | 1 message | | violated |
| `hmi_link` | 1 station besides the automatic one, dead after 2, 2 login retries, 2 buffered requests, 3 faults | 360 k | types; `OnlineLoggedIn`; `AlarmArrives`; `LoginReached`, `ManualReaches`, `LossNoticed`, `HungNoticed`, `AliveAgain` |
| `hmi_dead_silent` | no fault | | violated |
| `station_info` | 4 stations, 1 block each, 2 faults | 632 k | types; `ShownExact`; `ImplementsBoard`; `RegistersSettle`, `IndexFollows` |
| `station_info_fonts` | 3 stations, 1 block | | violated |
| `hmi_panel` | minute, station, temperature and humidity of 2 values each, the numbers of one and of two digits | 1.5 M | types; `BoxMatchesError`, `SteadyShown`, `TracesKnown` |
| `hmi_screen_stale` | station, weather and ultraviolet level of 2 values each | | violated |
| `gps_pipeline` | seconds mod 2, lines of 5 tokens, 3 bursts a round, 1 fault, FIFO of 26 blocks | 650 k | types; `SpoiledByFaults`, `FramedUnlessBehind`; `TakenWhole`, `TakenNew`; `RoundsGoOn`; and `UTC2BTC` on three years |
| `hisi_daemon` | 2 daemons, tables of 2 programs, period 2, minute 4, 1 fault of the report | 1.5 M | types; `OneDaemon`, `NoneLeft`, `MemoryShared`; `PeriodKept`; `ReportsGoOn` |

Why the bounds suffice. A fault leaves the link in some state and the code recovers
from it without remembering how many there were; what counts is that a second fault
may hit every point of a recovery (two), and a third one the state in which an old
request or answer of the first is still under way. The counter of logins only has the
values "0", "not 0" and its wrap; three values include a wrap and a value on either
side. Three syncs are needed for a slot to be overwritten twice while the main thread
waits in front of it. A dead limit of 2 distinguishes the last miss from the others.
Four stations tell a neighbour of a station from one farther away; the indices go round,
so no bound on the number of publications is needed. One block per station lets every copy
be interrupted between index, current and next station (with two blocks, without faults,
the invariants were found to hold too: 6.9 M states), and two faults are what a fetch in
the loop needs to give up.

`AlarmArrives` is a statement about at most three faults, which is what three writes are
meant to stand: if every frame of all their retries is lost, the alarm is lost, whatever
the code does. `AlarmIsDear` says what the three writes stand whatever the bound is.

The panel has no counters, and each of its fields is drawn by itself except for the font
that one borrows from those before it and the place the humidity takes from the temperature.
The passing run has a field of the top line, the station that polls may give up on, and the
two numbers that move; the weather and the ultraviolet level, whose traces do not depend on
those, are in the instance of `hmi_screen_stale` and in the theorem. Two
seconds tell a GPS sentence from the one before. A round of the main loop lasts 30
bursts; three are enough for the clock it sets to spoil one line, for a fault to spoil
another and for one to be left. The FIFO holds two messages, which is what it needs to
lose its framing. Two daemons are two that overlap; after an overlap (`overlap`) neither
more signals nor the report are followed, until all are gone, because then the
invariants promise nothing. The report's numbers keep the order of the code's (period
below a minute below the width); a period of 2 lets a message come before, at and after
it.

## Fairness

Weak fairness holds for every step of a thread, task or timer that is running: the
schedulers of the three systems are preemptive and none of the loops blocks for ever
(calls have response timeouts). A daemon that died is started again in `DvrLink`
(`HisiBoot`); whether a BBB that is down is started again is left open in `HmiLink` and
is a premise of the properties that need it. Strong fairness is assumed in two places.
`PollKeepAlive`: the HMI's loop tests each round whether its 2 s interval is over, so a
round that polls comes again and again although no particular round has to be one.
`ParseLock` and `TakeLock`: the mutex of the GPS pipeline is free again and again, and
its other user leaves it alone for a second or more each time, so that the one who waits
gets it. The GPS receiver sends while it is on; its faults are bounded. In `HisiDaemon`
the steps of main and handler go on and the BBB polls (`Polled`: a message is served, or
ends a daemon without memory); nothing is assumed of
signals, starts or time. Nothing is assumed of the main loop in `StationInfo`, which may
be held up by the GPS or the FIFO, and nothing of the panel, which has no liveness
property. Faults are never fair and are bounded, so each liveness property speaks of
what happens after the last of them.

## What is proved

Every theorem holds for all values of the constants that the module's named assumption
allows: any number of faults, messages, stations, any limits.

| module | theorem | property |
|---|---|---|
| `DvrLinkProofs` | `TypeCorrect` | `TypeOK` |
| | `LoginAnswered` | `LoginNeedsAnswer` (in no run) |
| | `MainLoggedIn` | `MainWorksLoggedIn` (in no run) |
| | `FreshSeesRequest` | `FreshClientSeesRequest` |
| | `LoginStays` | `LoginSticks` (in no run) |
| | `Refinement` | `ImplementsSession`: `Spec` implies `Session!Spec` |
| `HisiMailboxProofs` | `TypeCorrect` | `TypeOK` |
| | `PartsAreNear` | `PartsNear` |
| | `SetOncePerSync` | `SetsBounded` |
| | `TakenAreFresh` | `TakenFresh` |
| | `LoginInYear` | `LoginOnlyInYear` (in no run) |
| `HmiLinkProofs` | `TypeCorrect` | `TypeOK`, and each register keeps to its values (`LinkInv`) |
| | `OnlineMeansLoggedIn` | `OnlineLoggedIn` |
| | `AlarmIsDear` | `AlarmPrice` (in no run): a lost alarm has cost four faults |
| | `AlarmGetsThere` | `AlarmArrives`, for at most three faults |
| `StationInfoProofs` | `TypeCorrect` | `TypeOK` |
| | `ShownIsNear` | `ShownNear` (in no run) |
| | `ShownIsExact` | `ShownExact` |
| | `BoardIsKept` | `ImplementsBoard`: `Spec` implies `Board!Spec` |
| `HmiPanelProofs` | `TypeCorrect` | `TypeOK` |
| | `BoxIsRight` | `BoxMatchesError` |
| | `SteadyIsShown` | `SteadyShown` |
| | `TracesAreKnown` | `TracesKnown` |
| `GpsPipelineProofs` | `TypeCorrect` | `TypeOK` |
| | `TakenIsWhole` | `TakenWhole` |
| | `Framed` | `FramedUnlessBehind` |
| | `SpoiledFew` | `SpoiledByFaults` |
| | `TakenIsNew` | `TakenNew` |
| `HisiDaemonProofs` | `TypeCorrect` | `TypeOK` |
| | `OneDaemonOnly` | `OneDaemon` |
| | `MemoryIsShared` | `MemoryShared` |
| | `NoneIsLeft` | `NoneLeft` |
| | `PeriodIsKept` | `PeriodKept` |
| `BeijingTimeProofs` | `BeijingAlways` | `BeijingRight` (`UTC2BTC` is right for every second of 2000 to 2099) |

**The TCP link.** The inductive invariant is `IInv == TypeOK /\ CallInv /\ LoginInv /\
FreshInv`. `LoginNeedsAnswer` alone is not inductive: that a test of the register finds
`LOGIN_RES` implies an answer only because `LoginInv` relates the register to the
history variable (`LOGIN_RES` in the register means answered). `FreshClientSeesRequest`
needs to know where answers may still be on their way: `FreshInv` says that while a BBB
run has not answered yet, no write of an answer waits on a live connection of its own,
and the register of that connection's session still holds the request; `CallInv` ties a
pending response to the call that waits for it. `Refinement` maps each step to `Answer`,
`LogIn`, `Restart` or a stutter.

**The mailbox.** `IInv == TypeOK /\ CommInv /\ SlotInv /\ MainInv /\ TimeInv /\
CountInv`. `CommInv` says which sync the register table holds; `SlotInv` that a slot
holds the sync before the last one if the comm thread has come past it and the one
before that if not. Hence a value read is at most two syncs old, when it is read
(`TakenFresh`), so that no part is older than two syncs before the pass began; and of two
slots read one after the other the later one is at most one sync behind (`TimeInv`). As no
part can be newer than the sync before the last one received, that bounds their
distance in both directions: `PartsNear`. `CountInv` bounds the settings of the clock by accounting: each sync
pays for one, whether it is on its way into the last slot, in it, taken out or used.

**The serial link.** `IInv == TypeOK /\ LinkInv /\ LoginInv`. `LinkInv` says which
values may be in which register and in which frame, for any names of stations; it is
what makes "a login answer was read" mean "the login register was read", although a
response does not say which register it is of. `LoginInv`: an answer, in the register or
on its way, means that the BBB has logged the HMI in.

An alarm is a matter of accounting. `CostInv` says what an alarm has cost that is not
there: a fault for each attempt to write it, and one more for a request of before that
still waits on the line, because only such a request's answer can end a write early;
without one, each write has had two attempts. `QuietInv` is the other half: before the
first fault nothing is left on the line when a call is over. So a write that ends costs
two faults or one besides that of the old request, three writes four.

**The station on its way.** `IInv == TypeOK /\ DisplayInv /\ TabInv /\ ShownInv /\
FetchInv /\ RetryInv`. `ShownNear` speaks of the end of three copies and says nothing of
how they got there; the invariant follows a block from copy to copy. Whatever is in the
buffer or in the registers is blank or of the main loop's station or the one before
(`DisplayInv`, `TabInv`), since the main loop sleeps long enough for a whole pass of the
timer; what a fetch has read so far is near the index it began with (`ShownInv`), since
it ends before the main loop has gone on twice (`FetchInv`). `RetryInv` bounds the counter
of failed reads by the position, which is what keeps its type.

The refinement `BoardIsKept` maps `Wake` to the departure and each beginning of a fetch
to the renewal. The step that needs the invariant is the end of a fetch (`FetchShown`):
the index it began with, 20 s ago, is still the main loop's or the one before, by
`FetchInv`, and the fonts fit it, by `ShownInv` of the state after the step.

**The panel.** `IInv == PanelType /\ BoxInv /\ ScreenInv`. A box may outlive its error
only while the current menu is marked for redrawing (`BoxInv`); what is neither marked in
the bitmap nor in a menu to be redrawn is right on the screen or has one of the known
traces (`ScreenInv`). The station is exempt from being marked while it is `unmarked`
(`Exempt`), which a poll sets together with the change and only a drawing of the station ends.
`ScreenInv` needs to know that a picture drawn over another lies whole on top of it, whatever
the other one was and wherever it stood (`OverIs`, `RefreshRight`).

**GPS and FIFO.** `LockInv`: the lock is held exactly by who is between its two ends;
while the parser is not, the fix is the one it last finished; and what the main loop has
copied so far is still there. `FifoInv`: the FIFO ends at the end of a message; unless a
message came behind another it holds one whole message or none. `LineInv`: only the first
token on the wire can be a sentence's head, and a line being handled ends with its line
feed, so that no field is read outside it.

`SpoiledInv` is accounting again: the fixes spoiled so far, the incomplete sentence in the
line buffer and the one on the wire together are no more than the faults. A line that is
cut by the clock costs nothing, because what comes of it has no head. `RoundInv` is for
`TakenNew`: as long as the main loop has seen neither a fault nor a fix since its last
one, the first burst of its sleep may be cut, but ends with an empty buffer and a timer
that no jump has touched, and the fix of the second one is found before a third burst
comes. Hence two of the assumptions of the module: the line buffer takes an RMC sentence
(`linebuf` has 128 bytes), and the sleep is longer than three bursts (it
is of 30 s). TLC finds `TakenNew` violated without either.

**The DVR daemon.** `IInv == DaemonType /\ LockInv /\ ServerInv /\ TypeOKReport /\
ReportInv`.
`LockInv` is about all daemons at once: without an overlap, all that are there and do not
end have opened the file under the pid file's name, the lock of which one of them has at
most, and none of them is there together with one that ends. So the memory under the name
is the one the serving daemon made or found, or failed to map. `ServerInv` says of the latter
that none of its messages has been answered: a server runs, and once it has served a message
since the report was last refreshed or it took the port (`~ marked`), its memory is mapped.
`TableInv`, for each daemon's record, says
which of its programs run at each point of `startProcs` and of the handler: those entered
in the table, and at most one that is not. `ReportInv`: as long as each message has seen a
later second, interval and gap are the time that has passed.

**Beijing time.** `SecondLater` and `DayLater` say of each carry what it does to the
number of seconds and days since 2000; `LeapsCount`, that the code's leap years are the
calendar's in that century.

Only model-checked: liveness, since fairness and `ENABLED` are out of the proof system's
reach (`LoginRestored`, `TimeKeepsComing`, `BrokenLinkLeft`, `SyncHandled`, `LoginReached`,
`ManualReaches`, `LossNoticed`, `HungNoticed`, `AliveAgain`, `RegistersSettle`,
`IndexFollows`, `RoundsGoOn`, `ReportsGoOn`). Every invariant and every action property
that a passing run checks is a theorem.

The theorems rest on the assumptions named in the modules and on nothing else. Those that
say more than a type: `HisiReport`, the period is less than `TIME_SEC_DIFF`'s minute and that
less than the counter's range (10, 60, 2^32); `HisiDaemon`, at most 60 daemons at once and
32 programs, which keeps the numbers the model gives to processes apart; `GpsPipeline`, the
two above and a FIFO that takes one message.

## Findings

Each is a place where the program does not do what a comment in it says; a run
shows the behaviour.

* `dataClientRun` returns `eOK` also after it has given the server up, so `DvrState` never
  becomes "dead" (`dvr_dead_reported`).
* The mailbox gets the register values from before the message (`hisi_mailbox_current`).
* Missed keep-alives are counted over any span of time; an answer does not reset the
  counter (`hmi_dead_silent`).
* An index read before its fonts were there leaves the wrong fonts on the screen until the
  station changes (`station_info_fonts`).
* A refresh of the screen does not show all new data: not the second half of the weather
  levels (`hmi_screen_stale`).

Further places where the screen keeps old data are in the model and in `TracesKnown`, without
a run of their own: the ultraviolet level is printed in the wrong font when nothing before it
has changed; a shorter text, or one at another place, leaves the rest of the older one; a
station whose fonts a poll has given up on is not drawn until the next full drawing.

## What the properties except

Some hazards are excepted by the properties next to them, since the code does nothing about
them and no text says what it should do. They are not covered:

* the wrap of the login counter (`FreshClientSeesRequest`, `wrapped`; `LoginRestored` covers it);
* syncs whose slots a login answer hides (`SyncHandled`, `rxCnt # 4`);
* the driver's station after a restart of the BBB (`ManualReaches`, `session`);
* the framing of the FIFO while two messages are queued (`FramedUnlessBehind`, `behind`);
* a receiver that is silent or has not begun (`TakenNew`, `excused`), and the hour;
* a daemon that starts into the end of another one (`OneDaemon`, `MemoryShared`, `overlap`);
* messages within the same second (`PeriodKept`, `gap <= 0`).

## Not modelled, and why

* Drawing, fonts, the route file, names and arguments in configuration files: output and
  string handling. SPI, LED and PC code is vendored or empty, the test programs only
  print and sleep. libmodbus, the Modbus library and the keypad library of the Arduino
  are modelled only by what the code relies on.
* The BBB's shutdown. `quitByKeys` in `main.cpp` stops and deletes the applications
  while their threads and timers still use them. What a thread does with a freed object
  is undefined, the process ends right after it, and there is no state left of which a
  property could be stated. The `stop` functions are
  reached only from there: what follows the endless loop of `taskFunc` is not reached.
* The OS layer: a system call per method. What its callers rely on (mutex, timers, FIFO)
  is in the modules.
* The registers of commands in the DVR daemon, which have no sender; the manual
  passenger level and the driver's registers, which have no reader; the counters of
  `getAPCinfo`, which end up in one register; the RS232 functions of `drv_gps.cpp`,
  which nothing calls.
* Races inside a word: the shared fields are single words or bytes, and the boards have
  one core.

## Plan

1. `DvrLink` with `LoginSession` and `DvrLinkProofs`, `HisiMailbox`, `HmiLink`,
   `StationInfo` (done).
2. `HmiPanel`; `GpsPipeline` with the FIFO; `BeijingTime`; `HisiReport` and
   `HisiDaemon`; the alarm in `HmiLink` (done).
3. Proofs of every invariant and action property of the runs (done).
4. `StationBoard`, the abstract specification of what the panel promises of stations,
   and its refinement by `StationInfo` (done).
5. An abstract queue of whole messages, and its refinement by the FIFO of `GpsPipeline`
   as long as no message comes behind another (`FramedUnlessBehind` in one step).
