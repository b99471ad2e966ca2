# Black-Eye: TLA+ specifications

Black-Eye is a terminal dashboard for a Linux host: collectors read `/proc`, Docker,
the init system and so on, a bus carries their snapshots to a Bubble Tea user
interface, and some tabs run administrative operations. This directory models the
parts of it where order, concurrency and accumulated state decide whether it works.
Paths below are relative to the repository; `lines` in `PROJECT.json` give, for every
definition, the code it stands for.

- [1. The system](#1-the-system)
- [2. The modules](#2-the-modules)
- [3. The runs, their bounds, and what they show](#3-the-runs)
- [4. Fairness](#4-fairness)
- [5. What is proved](#5-what-is-proved)
- [6. Where the code and its documentation disagree](#6-findings)
- [7. What is not modelled](#7-what-is-not-modelled)
- [8. Plan](#8-plan)

## 1. The system

### Components

| Component | State | Operations | Hard because | Right when |
|---|---|---|---|---|
| Event bus `internal/bus` | subscriber lists per topic, `closed`, an RWMutex | Subscribe, Unsubscribe, Publish, Close | many publishers walk the lists while they change; full channels drop | no send on a closed channel, order kept per publisher, nobody is blocked by a reader |
| Registry `internal/registry` | WaitGroup, context | StartAll (collector and bridge goroutine per service), StopAll | stopping while anything is under way, recovered panics | all goroutines end, and before the bus closes |
| Collectors `internal/services/*` | output channel, health, previous readings, own context | Start loop, Stop, Reload, Health | five shapes of loop, helper goroutines | snapshots in order, Health says what is |
| Alert monitor `services/alerts` | thresholds and rules, active alerts, history | checks of four kinds of snapshot, Reload | checks are several critical sections; output may be full | active alerts are explained by the history |
| Root model `ui/app.go` | active tab, drawers, help, wizard | Update (keys, messages), subscriptions | a key's meaning depends on flags left by earlier keys | each key goes to exactly the layer that shows |
| Terminal tab `ui/tabs/terminal.go` | pty, started, focus, exit message | size, keys, output and exit messages, startShell and readPTY commands | commands run in goroutines and store into the tab | the screen is never frozen or dead |
| Tabs with dialogs `ui/tabs/{process,docker,services,firewall,packages,users,advanced}.go` | cursor, dialog, snapshot | operations confirmed with y | the snapshot changes while the dialog is open | what is confirmed is what is done, and audited |
| Network, dashboard tabs | snapshot, filter; layout of the panels | display, filter, jump to the firewall, signal; drag and drop, scrolling | stale cursors; any sequence of drops | windows inside the list; each panel shown once |
| Firewall engines `services/firewall` | the kernel's rules | list, add, delete by id, enable | an id is valid for one engine and one moment | what is deleted is what was listed under that id, or somebody changed the rules since |
| Init systems `services/initsys`, `services/systemd` | the host's units | list, start, stop | a reply read in chunks, heuristics, units that change meanwhile | a listed state is one the unit was in |
| Package backends `services/packages` | none | run commands, parse output | several managers on one host | the same one lists and acts |
| Host detection `internal/sysdetect` | a profile, made once | Detect; the tabs' own scans | two lists, two moments | service and tab use the same backend |
| Audit log `services/audit` | path, open file | Start, Reload, WriteEvent | files that are rotated, full or closed | nothing is overwritten; entries go where the configuration says |
| Rates in cpu, network, io, process | the previous reading per key | collect | counters wrap and go back; objects come and go | true where nothing odd happened |
| Terminal screen `ui/tabs/terminal.go` | lines, column | processOutput | sequences stay in the text; reads end anywhere | the lines show what was written |
| Configuration `internal/config` | refresh intervals, thresholds, rules | Load, validate, CustomRule.Validate | values nobody checks | every accepted value is usable |
| Process scan and tree `services/process` | none | read /proc pid by pid, BuildProcessTree, FlattenTree | parents and children read at different moments | each process shown once, below its parent |
| Sparkline, formatting | none | pure functions | | |
| Resolvers, privilege, sysdetect, diagnostics, security, exporter, styles | caches at most | lookups and reports | | |

### How they interact

    collector --out--> bridge --bus.Publish--> subscriber channel --listenChan--> Update
        |                (one per registered service, registry.go:48)        (Bubble Tea loop)
        +-- helper goroutine (docker's first listing, dmesg's scanner)

    collectors' topics --> alert monitor --out--> (no bridge: it is not registered)
    keys --> root model --> drawer | help | wizard | active tab --> command goroutine --> message

`main` starts the services, builds the interface (which subscribes), runs it, cancels
the context, waits for the registry and closes the bus. Everything the interface does
happens in one event loop, except the commands it returns, which run in goroutines and
answer with messages. `PROJECT.json` lists, under `hazards`, every place found where
this can go wrong in a way a test would hardly reach, with its line.

## 2. The modules

| Module | Models | Used by |
|---|---|---|
| `EventBus` | `internal/bus/bus.go` with the RWMutex protocol of `sync` | `LossyFanout` as its abstraction |
| `LossyFanout` | what the bus promises: atomic publication, a channel of bounded length that loses what does not fit | refined by `EventBus` |
| `EventBusProofs` | proofs about `EventBus` | |
| `Lifecycle` | registry, Start loops, bridges, tab listeners, shutdown of `main` | |
| `LifecycleProofs` | proofs about `Lifecycle` | |
| `Alerts` | `services/alerts/alerts.go`, one step per critical section | `AlertScreen` |
| `AlertBoard` | what the monitor promises: a board on which a check raises and lowers alerts | refined by `Alerts` |
| `AlertScreen` | `Alerts` composed with the wiring of `main` and the root model's listener | |
| `AlertsProofs` | proofs about `Alerts`, with the refinement of `AlertBoard` | |
| `RootModel` | the key handling of `ui/app.go`, with the tabs' input modes | |
| `RootModelProofs` | proofs about `RootModel` | |
| `Terminal` | the life of the shell behind the terminal tab | |
| `TerminalProofs` | proofs about `Terminal` | |
| `TerminalScreen` | how the output of the shell becomes lines of text | `Machine` |
| `TabCore` | what the tabs share: listing, cursor, dialog, commands in goroutines | the tab modules |
| `ProcessTab`, `DockerTab`, `PackagesTab`, `ServicesTab`, `FirewallTab`, `UsersTab`, `AdvancedTab`, `NetworkTab`, `DashboardTab` | `Update` and `View` of one tab each | `Tabs` |
| `Tabs` | a tab at work: keys, listings, jumps, and the steps of its commands in any order | |
| `TabsProofs` | proofs about `Tabs` and the nine tab modules | |
| `FirewallEngines` | the four engines and rule ids, under changes by others | `Machine` |
| `Counters` | rates from counters of a width of bits | `Machine` |
| `ProcessTree` | the scan of /proc and the tree made of it | `Machine` |
| `AuditLog` | the audit file | `Machine` |
| `InitBackends` | listings of units by D-Bus, OpenRC and SysV init | `Machine` |
| `HostDetection` | which backends a host gets | `Machine` |
| `Machine` | the parts above, one behaviour being one of one part | |
| `Lists` | loops over lists: through the positions of some kind, and keeping the elements there | `TabCore`, `Alerts`, `ProcessTree`, `InitBackends`, `HostDetection`, `TerminalScreen` |
| `ListsProofs` | lemmas about lists and recursion | `AlertsProofs`, `MachineProofs`, `TabsProofs` |
| `MachineProofs` | proofs about `Machine` and its parts | |
| `MC*` | constants for the model checker | |

### EventBus

A publisher is a goroutine inside `Publish`, a client one inside `Subscribe`,
`Unsubscribe` or `Close`. A call is several steps: it asks for the lock, gets it, works,
and releases it. Go's RWMutex is external code: a writer first announces itself, which
makes later readers wait, and proceeds when the earlier readers are out (`Announce`,
`Acquire`). `Publish` reads the list once (`ReadList`) and offers the event to one channel at
a time (`Offer`); a full channel loses it. `NoUseAfterClose` says that no publisher is about
to send on a closed channel; a client may call `Unsubscribe` with a channel that is already
closed, as the code allows. Events are numbered per publisher so that `PublisherOrder` can
see reordering and repetition. In the mapping to `LossyFanout` a publisher broadcasts while it walks the
list (`at[p] = "send"`): the broadcast begins with `ReadList` and ends with `Return`, `subscribers` are
the members, and the lock and everyone waiting for it disappear.

### Lifecycle

Each service has a collector goroutine (`at`), perhaps a helper (`helper`), a bridge (`bridge`),
an output channel (`out`), a bus channel (`inbox`) and what is on the screen (`shown`). A snapshot
is the number of the reading it holds. The shape of a Start loop is its kind:

| Kind | Start | Services |
|---|---|---|
| `ticker` | waits for the ticker, collects, sends; an error makes it Degraded | memory 60-84, swap 53-74, disk 77-98, io 66-94, network 75-104, netstats 51-72, routing 69-90, thermal 64-85, sysinfo 66-93, process 93-114, ports 89-110 |
| `seeded` | reads once before the loop and returns the error of that | cpu 63-95 |
| `initial` | collects and sends before the loop; no error path | initsys 113-137, firewall 125-147, packages 170-192, users 85-107, advanced 80-102 |
| `background` | the first listing in a goroutine of its own | docker 207-254 |
| `stream` | a goroutine reads lines into `readCh`; the loop batches and flushes them | dmesg 70-134 |

The actions are the cases of the selects: `Tick`, `Collect`, `Send`, `TakeLine`, `Flush`, `Return`
for collectors, `Read`, `Give`, `GiveLine`, `AbandonLine`, `EndOfLines` for helpers, `Relay`, `Publish`,
`BridgeReturn` for bridges, and `Spawn`, `Subscribe`, `Show`, `Quit`, `Cancel`, `Stop`, `Wait`,
`CloseBus` for main. A return of a goroutine gives its WaitGroup count back in the same step
(the registry defers it). `CollectPanics` is the panic that the registry recovers; one in a helper
goroutine is not recovered and would end the process, which the model leaves out. Reload is
not an action: nothing calls `ReloadAll`. The bus is represented by its promise, one lossy channel per
topic.

### Alerts, AlertBoard, AlertScreen

The monitor's select takes a snapshot (`Arrive` puts it there, as the bus does), copies the
configuration and turns the snapshot into a list of calls to `setAlert` and `clearAlert` (`Check`, with
`Calls` for the four checks and `RuleCalls` for custom rules). Each call is one critical section
and one step; `Reload` may come between any two. A value is below, at or above warning or critical,
which is all the checks tell apart. Only `checkCPU` looks at custom rules, and only at those on the metric `cpu`: `RuleCalls` is that, and
`AlertBoard` promises no more, although `config.go:40` names other metrics, and `Validate` and the wizard accept them. `setAlert` prepends to the history, trims it, and publishes a
copy of both in the same critical section, if the output channel has room. `AlertBoard` is the same
board where a snapshot settles everything it names, and the CPU's also the rules on `cpu`, in one step. `AlertScreen` adds what main wires up: the bridge that only registered
services have, and the root model's listener.

### RootModel

The state is the root model's flags (help, the two modals, the wizard with its step, choices and typed value),
the rules made so far, and which tabs are typing. A step is one key press in the order of the
`switch`es of `Update`: the layer that gets the key is computed first (`Layer`), then what that layer does
(`HelpKey`, `CapturerKey`, `WizardKey`, `Shortcut`, ...). Keys that the root model treats
differently are told apart; `x` stands for the rest. Jumps to the firewall tab and the shell's exit are
messages that arrive between keys. The value typed in the wizard is kept
character by character (digits and dots), because whether `ParseFloat` accepts it is what `WizardWhole` is about.

### Terminal

`startShell` and `readPTY` return commands that run in goroutines and answer with messages, so each
call of `startShell` begins a chain, command and message in turn, which only an exit ends. `stage[i]`
says where chain `i` is and `looks[i]` which shell's pty it reads. `startShell`'s goroutine stores
`ptmx` and `started` under a mutex the event loop does not take, so its stores and the two halves of the
exit handler interleave: `Exit` has looked at `ptmx` and closed it, `Close` sets it to nil, and in
between `StorePTY` may have put another shell there, or one where there was none. A read that is under way
survives the closing of its pty, a later one fails.

### TerminalScreen

A line is a sequence of characters, among them those of escape sequences the tab does not know, which it
leaves where they were (`Visible` has the rest). `Output` is a read that ends where an item of output
does; `OutputCut` ends inside an escape sequence or a character of two bytes and `OutputRest` is the read
after it. `rows` is what a terminal with these operations shows, kept as arrays of characters, and
`ScreenShowsOutput` compares the two; a row in which a read was cut is marked `Hurt` and excused: the
tab really shows garbage there, and an erasure or a movement that was cut is not performed. The title sequences
(OSC) and the bell, which leave nothing, are left out.

### The tabs

`ui` has the fields of the tab's struct, `snap` its snapshot, and `cmds` the commands it has started. A command
is a goroutine: it waits, acts (`Run`), writes the audit log (`WriteEvent`) and returns its message
(`Result`), and keys and listings come in between; the process and network tabs act inside the event
loop, which `Busy` expresses. `asked` is a history variable: what the screen said
when the open dialog was opened, what has been typed since, whether a listing came while it was open in a tab that looks its row up again (`moved`), and whether
the tab works on another backend than the screen named, because it did so already or because b was pressed between y and the command (`switched`). Every command carries the `asked` it was started with, so `ActsAsAsked` can compare what is done with
what was asked. For a process, `world` is the program a pid belongs to by now, and `Exec` changes
it at any time; the signal follows the check of the name, as in `sendSignal`, and only what happens between the two escapes
it. `View` has what is drawn of a list: its window, the row under the cursor, and whether a dialog is visible.

The tabs are handed every key they have a case for, although `app.go` keeps t, r, a, c, h and e for itself:
the tabs are modelled as written, the routing in `RootModel`. Left out of their state: the
texts of details, logs and unit files, the kernel log's batch in the services tab, the action and protocol of a new rule, and
the version strings of packages.

The dashboard's layout is rows of panel names; `Dropped` is `handleDrop` for each zone a point of a panel can be in, and its scrolling is
done against the bounds of the last `View`.

### The parts of Machine

- `FirewallEngines`: `chains` are the kernel's rules, `shown` the latest listing with the ids each engine
  gives them: iptables numbers rules over all chains (and deletes in INPUT), ufw numbers its list, nftables gives handles,
  firewalld the rule itself. `Elsewhere` is another administrator. `deleted` keeps what `DeleteRule` was asked for and what went.
- `Counters`: `Objects` have two counters of `Width` bits; `Sample` computes what the five collectors do with
  two readings. `grown` is the true growth. Elapsed time is left out, since it divides all of it alike.
- `ProcessTree`: `ReadDir` fixes the pids, `ReadProcess` reads one at a time, `Fork` and `Leave` happen in between. `Flattened` is
  the list the tab shows.
- `AuditLog`: `file` is the open handle; a rotated file stays open and unlinked (`linked`). A disk may be closed to
  opening or full for writing at any time.
- `InitBackends`: a reply of `Strings` is read in chunks and grouped (`UnitAt`); a unit's `style` says whether its
  description is readable, odd (too short or not ASCII) or its own name, whether its line of `rc-status` has blanks inside the
  brackets or its state is in `/run/openrc` only, and whether its SysV script has exit codes; the states change during the reading. `RunsAs` says in
  which sub-state a systemd unit is while it is up: a service runs, a socket listens. What `rc-status` prints is not in the repository: both forms of
  brackets are modelled, one to a host.
- `HostDetection`: the host is a set of facts; `Detect` and `Scan` look at it by their own lists, and it may `Change` in between.

## 3. The runs

| Run | Bounds | Shows |
|---|---|---|
| `bus` | 2 publishers, 1 client, 1 topic, 2 channels, buffers of 2, 3 events | the bus's invariants; every call returns; it implements `LossyFanout` |
| `lifecycle` | 1 service of each kind, `out` and `inbox` of 2, `readCh` of 1, 3 readings | order from reading to screen (`InOrder`); `QuietAfterStop`, `QuitExits` |
| `health` | kind `stream`, buffers of 1, 2 readings | violated: `HealthTellsEnd` |
| `alerts` | subscriber and output channels of 2, 3 snapshots, default history 2 | history and active alerts; nobody is waited for; it implements `AlertBoard` |
| `alert_screen` | CPU alone at two values, no rules, as `alerts` otherwise | violated: `AlertsReachScreen` |
| `root` | typing tabs Packages and Firewall, input of 2 keys, 1 rule | key routing and the wizard |
| `typing_lock` | typing tabs Network and Firewall | violated: `TypingKeepsTab` |
| `terminal` | 4 starts, 3 sizes | the shell's life |
| `one_shell` | 2 starts, 2 sizes | violated: `OneShell` |
| `tabs` | 9 tabs, 3 objects, 2 backends, inputs of 2 and filters of 1 character, 1 command at a time, heights 9, 15, 20 | what is done is what was asked; windows and layout |
| `confirmed_row` | the docker tab, as `tabs` otherwise | violated: `RowAsConfirmed` |
| `machine` | 3 rules; 2-bit counters, 2 cores; 4 pids; 2 log paths, 3 events; 2 units (a service and a socket), chunks of 4 strings; all hosts; 2 lines, 4 characters before another item | the six other parts and the screen |

Why the bounds are enough:

- `bus`: the interesting cases are a walk over a list of two channels while a writer changes the
  lists, a full buffer (2 of 3 events fit), two readers at once, and a writer waiting behind
  them. Two writers at once need a second client and multiply the states by too much; writer against writer
  is covered by the proofs, which hold for any number.
- `lifecycle`: order needs a full buffer and a reading after it: three readings and buffers of two
  give both. Services share nothing but `wg` and main, so one suffices for order; the kind is chosen
  initially, so that every kind is covered. The shutdown is in
  the same run: Stop may come before Start has stored its cancel function, at every step of the collector, its helper and the bridge. Several
  services meet only in the WaitGroup; `QuietAfterStopHolds` is proved for any number of them, `QuitExits` is checked with one.
- `alerts`: the configurations ask for a history of 1 and of 0, which means the default, here 2; three
  snapshots with several alerts each exceed both, and Reload shrinks and widens the bound. CPU snapshots exercise the custom rules, of which one is on `temp`. Thermal snapshots exercise the loop over keys: a zone may be missing, and two
  zones may be of one type, and so share a key, with different values. Memory and disk have the form of one of these.
- `root`: one tab that captures input and one that also receives jumps. Two digits and a dot
  make numbers below, within and above the ranges, with and without a fraction, and text that is no number;
  a rule that was made is only ever appended to.
- `terminal`: two overlapping starts, and a restart of both.
- `tabs`: a listing may lose an object, gain one or reorder two, which is what moves a cursor to another row. One command at a time,
  because commands share nothing but the audit log and the order of their results, which `PackagesTab` meets with a search that returns late.
  Heights at which a list is cut, just fits, and has no room at all. The pid typed for SIGKILL shares a digit with another
  one, so that half a confirmation would do. Inputs take two digits and no letters;
  a filter takes every key that the code lets it take, and counts them up to one.
- `machine`: two bits make wrapping and going back common; growth of at most 1 keeps a wrap distinguishable from a decrease. Four pids are enough for
  a chain, a reparenting and a reused pid in one scan. Two units fill two chunks, so that the reply may end between them
  or inside one. Four characters are a hidden sequence and a visible character. The parts share no
  variable: `part` is chosen initially and the others stay still.

Deadlock checking is off wherever the system really stops: the process has exited, or the bound on
events, readings or keys is used up.

Each property has a mutant: a plausible mistake in the code (a dropped guard, a lost unlock, a
layer asked too late), defined next to the operator it replaces, for which the run must find the
property violated.

## 4. Fairness

- `bus`: goroutines inside a call go on (weak fairness of each step). Nothing is assumed about a
  subscriber reading, so `PublishReturns` holds with a stuck reader. A writer that waits behind other writers gets
  its turn (strong fairness of `Announce`), because Go's mutex hands itself over to whoever has waited for long.
- `Lifecycle`: main goes on once p.Run has returned, a reading returns, and steps outside a select go
  on (weak). A select chooses among its ready cases at random, so a `ctx.Done()` that stays ready is taken
  in the end even if other cases become ready again and again: strong fairness of `Return` and
  `BridgeReturn`. No fairness for the user quitting or a ticker firing. That a reading returns is an assumption:
  a collector that hangs in a system call hangs StopAll.
- `Alerts`: the monitor goes on. No reader is assumed.
- `AlertScreen`: every goroutine goes on and the event loop runs; the violation is that there is
  no bridge, not that one is slow.
- `Terminal`: the goroutine of `startShell` and the event loop go on. Nothing makes a shell print or
  end.
- `Tabs` and `Machine` state no fairness: all they are asked is safety. That a command answers depends on
  the external program it runs, which the code gives no time limit.

### What the exceptions in the properties say

Some properties hold only up to cases that the code really has; each is named in the property, and the checker finds a violation without it.

- `ActsAsAsked`: Docker, Users, Firewall and Advanced look the row up again at y, so a listing while the dialog is open changes what is
  acted on; `RowAsConfirmed`, without that exception, is the run `confirmed_row`. Process, Packages and Services keep the row and are excused by
  no listing. Packages and Firewall ask for the backend when the command runs: excused only where the screen named another one when
  the dialog opened, or b was pressed between y and the command. The name of a process is excused by nothing; a pid that changes
  hands between check and signal is not seen.
- `ImplementsBoard`: the board promises rules on `cpu` only. A rule on another metric is judged by no check, so that the property
  would not hold of a board that promised it.
- `QuitOnlyFromBase`: about the root model's own layers and the four tabs that capture input. q quits over Docker's details and logs (`docker.go:112`), a
  unit's details (`services.go:165`) and the packages tab's result modal (`packages.go:142`), each of which has a case for q, and while a filter of
  Network or Services is typed. These are left out of the property.
- `DeletesShown`: a numbered rule, after others changed the rules since the listing.
- `TreeWhole`: with a pid reused during the scan, parents may form a cycle, which has no root and is not shown.
- `RateIsGrowth`: network, io and process CPU have no guard against a counter that goes back, cores are compared by
  position.
- `ListingTrue`: a unit of systemd that is active in a sub-state the code does not know (exited), or whose description is skipped or looks like a
  unit's name, may be shown inactive (a neighbour with a readable one never is, for that reason); so is every unit whose line of `rc-status` has
  blanks inside its brackets, of which `openrc.go:34` takes the closing bracket for the state; a SysV script that exits 0 without
  running is shown active. Truth is what the init system holds (`Truth`: active (exited) is active), not what the code makes of it.
- `EnginesAgree`: firewalld installed but not running, sbin missing on the PATH, package managers of several distributions. It compares firewall and package
  backends; no property depends on `InitSystem`, whose backends no tab looks for again.
- `AppendOnly`, `WrittenAsConfigured`: events are dropped without notice where the file cannot be opened or written.

## 5. What is proved

The proofs hold for every value of the constants that the named assumptions allow. These say of what type a
constant is and little more; where they say more, the reason is given here.

| Assumption | Says, beyond types | Because |
|---|---|---|
| `BusAssumption`, `LifecycleAssumption`, `TerminalAssumption` | sets are finite, capacities positive | they are counted; Go's channels here have buffers |
| `AlertsAssumption` | no metric is called "rule"; the default history is positive | keys of custom rules begin with it; the default is 50 |
| `RootAssumption` | the lists of metrics and operators are not empty; Firewall captures input, Terminal is no typing tab | they are literals of `app.go`; the terminal has a focus of its own |
| `CountersAssumption` | twice the growth between two readings is less than the range of a word | cpu adds the growth of two counters in one word; with more, what it divides by would wrap |
| `RulesAssumption`, `AuditAssumption`, `InitBackendsAssumption` | types, finite sets of rules | |
| `TreeAssumption` | pids are finite in number and positive, and 1 is one | the kernel gives pid 1 to init, and parent 0 means none |
| `ScreenAssumption` | at least one line is kept, and tab stops are positive | they are literals of `terminal.go` |
| `TabAssumption` | listings are sequences of rows | |
| `ProcessAssumption` | the signals are among the nine of `signalMenuItems`, and there is one | they are a literal of `process.go` |
| `TabsAssumption` | the tabs are the nine | |
| `PackagesAssumption` | what a search brings are lists of rows | |
| `DashboardAssumption` | no panel is twice in the default layout | it is a literal of `dashboard.go` |

**EventBus** (any number of publishers, clients, topics, channels). `BusInvariant`, with `LockInv` and `ListInv`, is the
inductive invariant. `NoUseAfterClose` is not inductive: a publisher in the middle of a walk is safe
only because no writer can be working, so `LockInv` says who holds or awaits the lock (a working writer
is alone, the readers are the publishers that walk a list), and `ListInv` that listed channels are open and on one list,
and that what a publisher has still to visit is open. `PublisherOrder` is part of `OrderInv`, which adds
that what a channel holds of a publisher is older than the event that publisher has still to offer it. From the invariant follow `TypeCorrect`, `NoUseAfterCloseHolds`, `PublisherOrderHolds` and
`BusImplementsFanout`, the refinement of `LossyFanout`: initial states map to initial states, each step to a
step or a stutter.

**Lifecycle** (any finite set of services of any kinds, any capacities, any number of readings).
`LifecycleInvariant`: the WaitGroup equals the number of goroutines alive (`WgInv`, a cardinality), collectors
and bridges are born together and all of them before `running` (`SpawnInv`), and the readings still to be made fit
the bound (`BudgetInv`). It yields
`LifecycleTypeCorrect`, with the capacity of every buffer, and `QuietAfterStopHolds`: when main closes the
bus, every collector and bridge has ended. Without the count the wait in StopAll would say nothing.
`ReadingsInOrder` is `InOrder` for every capacity. A reading may stand in eight places between the collector and the
screen, and comparing each place with each other would be too many cases: `OrderInv` says that there are numbers that cut the readings, from
the oldest to the newest, into the part the screen has seen and what each place in turn holds. Every step is a change of
the cuts next to the place it touches; where a step could overtake there would be no such numbers.

**Alerts** (any metrics, parts, rules, configurations, capacities). `AlertsInv` is `TypeOK` with `RecentHistory` and
`ActiveExplained`, which need each other: an alert may leave the history only because newer ones have filled it, which rests on the
numbers in the history falling by one from the number raised. It yields `AlertsTyped`,
`HistoryIsRecent` and `AlertsExplained`. `MonitorIsBoard` is the refinement of `AlertBoard`: what the monitor
has still to call is seen as done already, so that `Check` is the step in which the board settles the
snapshot, and each `setAlert` or `clearAlert` a stutter. The lemmas say where the alert of a key stands after a list of
calls, and what calls a snapshot becomes.

**RootModel** (any tabs, keys, metrics with any ranges, operators). `RootInv` is `TypeOK` with `WizardWhole`:
the drawer stays open under the wizard because the two blocks of `Update` that could close it come after the wizard's.
It yields `RootTyped` and `WizardStaysWhole`; `CapturersKeepTheirKeys` and `QuitsOnlyFromBase` are about
steps, by cases of the layer that gets the key.

**Machine.** One step of `Machine` is one of each part or leaves that part alone (`PartSteps`), so each part has an
inductive invariant of its own. `CountersInv` adds to the types that the previous reading was taken of some set of
objects, and what each object has grown since (`SinceSample`): `ShownIsGrowth`. `AuditInv`: an
open handle is one on the configured path, since Reload closes it first; `EventsWrittenAsConfigured` and `LogsOnlyGrow`. `EnginesInv`:
while the listing is of the present, the rule in the kernel's INPUT chain under an id that is shown is the rule shown; `DeletesWhatWasShown`. `ListingInv`: what has
been read of the reply and what is still to come have, together, behind each name the two states of its unit, and these are states it had
since the collection began; `ListingsTrue`, with the exceptions of section 4, for each of the three init systems, wherever the reply is cut.
`TreeInv`: of any set of listed processes, one has its parent outside the set, in what is alive and in what was read, so that no
parents form a circle, as long as no pid was reused; whoever is listed was there when the scan began, so a process read
before its parent exited has none of its descendants above it; `TreesWhole`.
`HostInv`: what the service took and what the tab offers first are the first hits of two lists of probes on one host; `EnginesAgreeing`.
`ScreenInv`: in a line that no read has hurt, every character is of the text or of a whole escape sequence, wherever the line was
cut or edited (`Agrees`); `ScreenShown`. Together they give `TypesOK`, the whole of `Machine!TypeOK`.

**Lists and recursion.** The library's induction theorems take an operator and cannot be used, so `ListsProofs` does induction
over sets of numbers: a set that has 0, and with each number the next, has all of them (`UpTo`, `AllNat`), because what it lacked
would have a least number, and that rests on the library's well-founded order of numbers. From it follow that a function
given by its value before exists (`NatRec`, `LoopExists`), what `FlattenSeq` makes of a list of lists (`FlattenFacts`), that numbers
can be put in order (`AscendingExists`), and what a loop keeps of a list and in which order (`SelectedFacts`, `SelectedOrder`,
`SelectedJoin`). For the same reason the models keep elements with `Selected` and go through positions with `InTurn`, where they used to
have the library's filters, sorts and folds.

**Tabs** (any listings, keys, backends, texts, and any number of commands under way). `TabsInv` has two halves.
`CmdsInv` says what each command owes at each phase to the dialog it came from: its row is the one asked about, or one that a listing
put there in a tab that looks again; before it acts, the place where it would act now is the one asked about, or a switch is recorded; after
that, the place where it acted was. It survives the steps of other commands because a command is alone in its slot, and a switch of backend because that
marks what has not run. A command is made of the tab's fields, so `UiInv` says of each tab that while its dialog is open those
fields are what the dialog was opened on: the target kept (Process, Packages, Services), or the row under the
cursor unless a listing came (`Under`, for the tabs that look it up again), the backend, and that the text
of the field is what has been typed since (`killInput`, `opInput`, `addPort`, `addInput`). There is a lemma for every group of
keys of every tab. The theorems are `TabsTyped`, `DoneAsAsked` and `ConfirmedInFull`; the run has one
command at a time, the proofs any number. `DrawnIsPart` is about windows: `WindowIsPart` proves their arithmetic for every
length, cursor and height, and `ListsMeasured` that what each tab draws, filtered or sorted, has a length; the theorem is `WindowSafe` for
every tab. `LayoutsWhole` rests on `Arranged`: every row of the layout has a panel, no panel is twice, and the panels are
the ones of the default layout. Each step of a drop keeps that: taking a panel out, dropping the rows left empty, putting the panel in a
row or between two, and joining the parts again (`WithoutArranged`, `WidenedArranged`, `PlacedArranged`, `JoinArranged`).

### What the proofs found

- `Counters`: that one counter grows by less than a word holds is not enough for `RateIsGrowth`: cpu adds the growth of two, so it has to be
  less than half of that.
- `InitBackends`: a host without units never left the phase `reading`.
- `Alerts`: the refinement needed an argument for keys that a snapshot names twice; the run did not have such a snapshot, and
  the code does meet them, since zones are keyed by their type (`alerts.go:255`). The run has them now, and `AlertBoard` says that the last one counts.
- `Shows` (`TerminalScreen`) and `InitSystem` (`HostDetection`) were a CASE with overlapping guards, of which TLA+ may choose any and the model
  checker takes the first. Nothing could be proved of them; they are now the chain of conditions that the code has.
- `DashboardTab`: that a drop keeps every panel holds only of a layout without a panel twice, which had not been said.
- `Tabs`: in the process tab no command may be one that only fetches, since verifying a fetch would lead to an act nobody asked for; no key
  starts one, which is now part of `CmdOK`.

### What is only model-checked

Liveness: `PublishReturns`, `CallsReturn`, `QuitExits`, `EverythingExamined`, `Recovers`. They rest on fairness, which the
prover does not reach. Every other property of a passing run is stated by a theorem.

## 6. Findings

Each is a run that must find its property violated, with the quoted line in `PROJECT.json`.

- `health`: dmesg's collector ends with health OK when its scanner ends.
- `alert_screen`: the alert monitor is not registered, so no alert reaches the drawer that
  `README.md` documents.
- `typing_lock`: the focus lock does not cover the network tab's filter (nor that of Services,
  which is no `InputCapturer` either).
- `one_shell`: two size messages before the first shell is up start two shells.
- `confirmed_row`: what docker's dialog was opened on is not what y acts on, if a listing came in between.

Seen while reading and not checked by a run, because no property covers them yet or no document
promises otherwise:

- Keys t, r, a, c, h and e fall out of the root model's `switch` (`app.go:381-429`) without reaching the
  tabs that document them.
- The backend of a confirmation, as said above for `ActsAsAsked`. The firewall service's snapshots replace the list
  of the engine chosen with b every 5 s.
- `ReceivePayload` of the firewall tab ignores the source, keeps a stale port, and does not ask for the privilege.
- The network tab's k sends SIGTERM without a question, a check of the name, a check of the privilege or an audit
  entry (`README.md:189` says that all administrative actions are logged; no property covers that); j, k and f act while a filter is typed.
- Dialogs of packages, docker and firewall stay open, and answer to y, on panels and in detail views that do not draw them.
- q quits the program where a tab documents it otherwise: on the packages tab's result modal (`packages.go:141`), in Docker's and a unit's details,
  and in the filters of Network and Services.
- Packages: a search that returns late shows its results under another query or backend.
- Logs of services and containers that arrive late are shown under whatever is selected by then.
- The users tab's cursor has no end; the dashboard's boxes for the mouse are computed with a scroll offset that `View` has
  not clamped yet.
- nftables' `DeleteRule` is refused for every id, since it is called without table and chain; Enable and Disable of iptables
  and nftables do nothing and report success.
- Audit: `Stop` has no effect; `Start` over an open handle leaks it; the service is not registered, so nothing calls
  `Start` and the file is opened by the first event.
- Where `rc-status` pads the state inside its brackets, every unit it lists is shown inactive (`openrc.go:34`). This is no finding, since
  the repository does not say what `rc-status` prints. With systemd, "active (exited)", which
  `stateDescription` calls "Exited (OK)", is shown as inactive (`initsys/systemd.go:35`); a unit without a description is listed twice; the read of the reply has no
  time limit, and waits for more when the reply's length is a multiple of 64 KiB.
- pid 1's executable cannot be read by an ordinary user, so detection falls back to the marks in /run.
- The sampling switcher has no effect on intervals, since nothing calls `ReloadAll`; rules made in the wizard
  stay in the root model's configuration and do not reach the monitor, which evaluates only rules on `cpu` (`alerts.go:149`), whatever `config.go:40` and `Validate` accept.
- An alert for a disk that vanished is never cleared; a snapshot that announces a cleared alert may be
  dropped and is not repeated; rules with the same label overwrite each other.
- Quitting between an operation and `WriteEvent` loses the audit entry, and `WriteEvent` drops it where the file cannot be opened
  (`audit.go:109`).
- Docker's and dmesg's helper goroutines may outlive `Start`, where `service.go:37` asks for the
  opposite; this is harmless to the bus, since they do not publish.
- Snapshots published before `ui.New` has subscribed are lost; packages shows nothing for its first
  interval.

## 7. What is not modelled

- Rendering, styles, toasts, export, and the root model's scrolling: output without state that matters to a property.
- What collectors other than those of `Counters`, `ProcessTree`, `FirewallEngines` and `InitBackends` read: a reading is a number.
- The text formats of the external commands (package managers, docker's API, /proc files): parsing is abstracted to what is
  found. Resolvers, diagnostics, security scan, exporter: reports without state of their own.
- The D-Bus handshake and wire format, except for how strings are found in the bytes.
- The bytes keys are turned into for the shell, and the scrolling of its screen.
- `config.validate` and the defaults: a list of comparisons. What it leaves unchecked is listed under `hazards`.
- A panic in a helper goroutine or in the event loop: the process ends.
- The Go memory model beyond interleaving: the terminal tab's unsynchronised reads are modelled as
  reads of the latest store.

`PROJECT.json` lists every component with its status.

## 8. Plan

Done: every module of section 2, and the proofs of section 5. Left:

1. `config.validate`: what of a configuration reaches the services, whose unchecked intervals and
   thresholds are a hazard that no property covers.
2. The ports, users and docker collectors beyond their loops, once something depends on what they parse.
3. The liveness properties for every value of the constants, which needs a prover with rules for fairness.
