# Verification of the Atari System V additions

The repository adds things to a UNIX System V Release 4 for the Atari TT: a
loader of kernel modules (`dlm/`), drivers that are such modules (`driver-*`),
programs that use them (`dhcpc`, `tools`, `iserver`, `xserver*`), a file system
for another operating system (`mint/ufsxfs`), and the scripts that build and
release it all. This directory models the parts with state of their own: the
loader first, since every driver comes and goes through it, then the drivers,
then the programs.

The modules are plain TLA+. A module `X` is one component. `XMC` names the
constants of its own run, and `Kernel`, `Live` and `Programs` put modules that
need no run of their own side by side. `XProofs` holds the theorems that TLAPS
checks. Beside a definition stands, marked `mutant`, the same definition with
a bug that a property is there to find. `PROJECT.json` lists the runs, the
lines each definition stands for, what was found, the hazards and the theorems.

## 1. The system

How the kernel runs them matters to every module below. A System V kernel is
not preemptive: a process in the kernel runs until it sleeps or returns, so an
action of a model is a stretch of code between two sleeps. A sleep at an
interruptible priority ends by a wakeup or by a signal; without PCATCH a signal
does a `longjmp` to `u.u_qsav` and leaves all the frames. Interrupts and
callouts (`timeout`) come between any two instructions that are not under an
`spl`; STREAMS service procedures run when nothing else does.

### The loader (`dlm/upstream`, `dlm/asv`)

| part | state | operations | works with |
|---|---|---|---|
| core (`dlm_core.c`) | the list of records (`dlm_list`): name, flags, counts, dependencies, installed entries; a guard and its frames per system call | `modload`, `moduload` (one, all), `modstat`, `modpath`, `mod_hold`, `mod_rele`; `dlm_abort` after a longjmp | the slots install and remove entries; the linker reads the image; the module's `_load` and `_unload` are called |
| registration (`dlm_slot.c`, `dlm_str.c`, `dlm_asv.c`) | character slots, STREAMS slots, exec slots; which spare rows of `cdevsw` are given away | `creg`, `sreg`, install, remove, unregister | `cdevsw`, `fmodsw`, `execsw` of the kernel |
| entry points (`dlm_slot.c`, `dlm_str.c`) | per slot: the module, the devices held open, the holds, calls under way | trampolines for open, close, read, exec, ...; autoload on first open | the core (autoload, `m_incall`, holds) and the file system's special files |
| linker (`dlm_ld.c`, `dlm_sym.c`, `dlm_boot.c`) | symbol tables, the image while it is read | read, lay out, relocate, look up, build the boot list | the core |

What is hard: every step of a load (opening each file of the path, reading it,
`_load`, allocating memory) sleeps, so loads, unloads and opens of the same
module interleave; a signal leaves any of them, and `dlm_abort` has to undo in
the right order what the guard's frames say; an open may load a module that is
at that moment being loaded as a dependency of another or is being unloaded. What makes it
correct: a record is settled by the process that marked it and by nobody else;
counts equal what is held; a busy module is never unloaded; an entry leads to
a live module; a sleeper is woken.

### The drivers

| part | state | operations | hard | what makes it correct |
|---|---|---|---|---|
| `driver-dp` SCSI-to-ethernet adapter | one static SCSI command and its queue; the staged frame; per minor DLPI state and waiting frames; poll callout; failure counts | open, close, put and service procedures, completion, poll, load, unload | process, STREAMS, interrupt and callout share the command; a wedged adapter must be found out and brought up | one command at a time, frames in order, frames leave, the poll survives its stream |
| `driver-nu` DP8390 ethernet | transmit buffer, receive ring in card memory, failure counts, waiting frames, message blocks | as dp, with a poll in place of interrupts | the card stores while the host reads; overflow in a transmit; a dead chip | frames whole, none forgotten, the queue polled, every block with one owner |
| `driver-ub` USB | the stack's lock, units, tree of devices, jobs and toggles, storage tags, keyboard ring | the daemon's polls, strategy, ioctls, enumeration, transfers, recovery | hot plug and loss of the controller at every step; lost packets and acknowledgements | one process inside, one tree, data once and in order, status with its command, calls end |
| `driver-midi` | byte ring, timed stream, two ACIAs on one edge-triggered line | read, write, ioctl, interrupt, tick | lost edges, sleeps without wakeups | the line served, every write returns |
| `driver-snd` | DMA ring and its accounts | write, ioctl, frame interrupt, tick | position arithmetic modulo the ring, late interrupts | played once and in order |
| `driver-tlk` transputer link | one open, bytes, timeouts | open, read, write, reset | a timeout, a reset or a probe while another reads | bytes kept, calls end |
| `driver-amix` AMIX's system calls | the table of contexts that signals delivered; per call its buffer and the registers it borrows | the gate's conversions in and out, delivery of signals | signals, restarted calls, `fork`, `exec` and jumps between delivery and `setcontext`; a full table | a context goes back in its own layout, registers and mask come back, no buffer outlives its call |

Storage of the USB stack is called by the disk's strategy, which holds the
stack's lock (`Ub`); the transfers (`Isp`) and the tree (`Usb`) run under it,
so their steps never interleave with each other's, only with what happens to
the devices.

### The programs

`dhcpc` (a DHCP exchange over a network that loses messages, then files
written from it), `ttntp` (one SNTP exchange, clock, chip and login records),
`mint/ufsxfs` (a read-only UFS), the X servers' console switching and keyboard
(`xserver-r6/hw/atw`). `iserver/lnktlk.c` is thin calls of the transputer
driver. The rest is scripts, patches and data.

## 2. The modules

### DlmCore: the loader's core

State: `list` and `mod` are `dlm_list` and its records; `slot[k]` is the switch
entry `k` (who fills it); `pr[p]` is a process: its place in the code (`pc`),
the frames `stk` of its guard (innermost first), the record `cur` it sleeps on or unloads
(`g_unl`), the credentials it runs under. One action is the code between two
sleeps: `Modload`, `LoadWaits`, `LoadFound`, `LoadCreates`/`LoadAllocates`/
`Allocated`, `OpenReturns`, `NextDep`, `ReadImage`, `ImageFails`,
`LoadSettles`, `ModLoadFails`, `LinkFails`, the undoing of a load (`Fail`, or
`FailSleeps` and `FailCloses` when its file is still open, `FailUnloadReturns`), the
same for unloading (`Moduload`, `Sweep`, `UnloadReturns`, `UnloadFails`), the
two ends of an interrupted sleep (`LoadInterrupted`, `UnloadInterrupted`), and
`ModHold`/`ModRele` for the slots.

Constants: the processes, the modules with their dependencies (`Deps`) and the
entries they fill (`Links`, `Owners`: whom an entry lets in); `Intr`, the
places where a signal can end a sleep; `AllocSleeps`, whether `kmem_zalloc`
may sleep.

`DlmRegistry` is what the core promises: modules are absent, coming, present
or going, one at a time by one process, present ones have their dependencies
present, holds keep a module present. `RegistrySpec` in
`DlmCore` is the refinement mapping.

Assumptions: holds are taken and given back only on settled modules (the
trampolines do that, see DlmOpen); installing the entries of a record is one
step (nothing in it sleeps); the record and its load file are allocated at
once; a boot module has no file to close; `DM_LOCKED` and the process lock of the loader (`dlm_prflock`) are off,
as in this system's configuration.

### The rest of the loader

- `DlmRegister` (`dlm_creg`, `dlm_sreg`, `dlm_asv.c`): character slots `cs`,
  STREAMS slots `sd`, majors and rows; `Creg` sleeps in `kmem_zalloc` and
  `CregResumes` finds what changed; `Sreg`, `Install`, `Remove`.
- `DlmOpen` (trampolines of `dlm_slot.c`, `dlm_str.c`): per slot the module's
  life, holds (`orefs` in `Kernel`), `m_incall`, the remembered opens `set`;
  per process the call under way; as history the closes a signal left (`left`).
  The file system's promise that the last close of a device comes once, after
  its opens returned, is part of the model.
- `DlmLinks`: exec formats (rows that move under `exec`'s walk) and STREAMS
  modules: rows found by name, then opened, by an open that may set `q_ptr`, leave
  it 0 or fail; closed, unless a signal leaves the close (`stays`, `stuck`).
- `DlmLd` (`dlm_ld.c`, `dlm_sym.c`): sections laid out, symbols resolved,
  commons placed, relocations applied in bytes, words and longs of few bits,
  the hash table, and the buffers given back at each failing step.
- `DlmBoot` (`dlm_bootpack`): modules moved byte by byte over each other.
- `KSym` (`mkksym`, `getksym`): the kernel's table written, cut short, checked
  and searched by name and by address.

### The network drivers

- `Dp`: the command (`busy`, its kind, whether the SCSI core has it), the
  staged frame, streams with their queues and `if_wqcnt`, `pollq`, the adapter
  (up, wedged, reset). Actions: `enwput`'s messages, the service procedure
  (`Turn`, `Wproc`), `dp_start` with its priorities, the completion for each command
  and outcome, the poll, clone opens, closes, load, unload. `sj_op` waits for
  the buffer and so is one step; the idle back-off, the delivery of received
  frames and opens of a numbered minor are left out.
- `Nu`: receive ring, transmit buffer, CURR and BNRY, overflow recovery,
  failure counts, the service procedure's turns, the tick. `NuDlpi`: the
  message blocks of each DLPI request, with failing allocations.

### The USB stack

- `Ub` (`ub.c`): the lock, the daemon (`ub_work`: start, poll, stop, bring
  back), the control device's calls, the disk requests (`ubstrategy`, raw
  requests through the bounce buffer, UBIOC_RD and WR). After a failed
  UBIOC_SETBUS the state may be NOCHIP.
- `Usb` (`hub.c`, `usb.c`, `isp116x.c`'s root hub, `ucd.c`, `udd.c`): port
  polls, enumeration, addresses, class drivers' slots, devices freed with what
  is behind them, the stack down and up. A dead chip reads as an empty root
  hub; a device has one interface; speeds, suspend and over-current are left
  out.
- `UsbConf` (`usb.c`): the messages of an enumeration from the configuration
  on, each of which may fail or come short; the shared buffer, the parser, the
  packet sizes, settings, strings.
- `Isp` (`isp116x.c`): a job of the transfer list from submit to unpack, with
  every way a transaction ends, the retries and the toggles; control and bulk
  messages made of jobs; the keyboards' poll; a recovery that reaches both ends
  of a pipe or one of them (`Recover`, `adrift`). Left out: schedule overruns,
  the chip's job time-out (isp116x.c:1110), isochronous and interrupt submits.
- `IspFifo` (`isp116x.c`, `ub_io.c`): the words of a job through either board,
  the unit a length ends in, even and odd buffers, a job in parts, the latch
  the Ethernet driver shares. The turns of eight words are turns of one.
- `UbStor` (`ubstor.c`): command, data, status, stalls, reset recovery, sense.
- `UbHid` (`ubhid.c`): reports to IKBD bytes, the ring, the reader.

### The other drivers

- `Midi`: the driver's struct, the two chips and the pending bit of their
  line, the handler's place between its reads, clock, callouts, processes in
  write, drain or close. `kick` is `midi_kick`, a recursive function from
  state to state. The limits on the turns of the waits are left out.
- `Snd`: positions, silence and data ahead (`cpos`, `gap`, `filled`, `wpos`),
  the DMA's frame registers, the interrupt that may be late or gone.
- `Tlk`: open with its probe, read, write, reset, polls and time-outs. Left
  out: `tlk_diag`, `driverinfo`, the pace between bytes, bus errors.
- `Amx`: the gate of AMIX's system calls in its steps (the copy in may sleep or
  fail; svr4_trap10 answers, fails, restarts the call or leaves), the table of
  contexts, signals' numbers and masks. The contexts on a program's stack are
  external. Left out: the layouts of stat, termios, utsname and pathconf, and
  the numbers of errors.

### The programs

- `Ufs`: block mapping, reads, directories (a name may be refused as too long),
  `getname`; `UfsMount`: slices and drive letters, with the slices for which
  something failed (`failed`); `UfsNode`: inodes and links, followed as System V
  would, with disks and memory that fail (`trouble`).
- `Dhcp`: several clients and servers, all messages ever sent in `net`; replies
  are matched by the one byte of the transaction id that counts up; leases do
  not run out, a server takes one back only from a machine that has not got it.
- `DhcpWrite`: what `-w` writes; the program is ended or the machine stops at each
  step. What is written is `dirty` until it is flushed, and a stop may cut it off
  (`torn`), as nothing in dhcpc calls fsync.
- `Ntp`: the clock, the chip as local or GMT, boots, login records.
- `AtwVt`: the hand-over of the card by files and SIGUSR2, the loan of the
  keyboard, which may not open again (`deaf`); `bereft` once a kill took the server
  on show or one of the two in a hand-over. `AtwIo`: keys, buttons and packets in
  whatever pieces are read.

## 3. The runs

| run | question | bounds |
|---|---|---|
| `core_shared` | two processes load and unload modules that share a dependency and an entry; failures everywhere, `kmem_zalloc` sleeps, signals at every sleep but the close and the `_unload` of a load being undone | three modules and a static one, `MaxId` = 6 records, `MaxCalls` = 3, one hold, `MaxDepth` = 3 |
| `core_chain` | a chain of dependencies, nothing shared, allocation at once, the same signals: the loader implements `DlmRegistry`, relink never panics, every call returns | `MaxId` = 9, `MaxCalls` = 3 |
| `core_orphan` | the violation of section 5 | as `core_shared`, `MaxCalls` = 4 |
| `kernel` | DlmRegister, DlmOpen, DlmLd, DlmLinks, DlmBoot, KSym, UbStor, UbHid, UsbConf, IspFifo, NuDlpi, Dp and Amx: what each promises its callers, over every interleaving and failure of its own | in `Kernel.tla`, where each is instantiated |
| `dp_all` | two streams send, flush, close and are polled, one process opens and unloads; the adapter wedges or resets: the command has one user, the streams' frames and counts agree, frames leave unless a flush came, the adapter is brought up | three frames, the second oversized, `MaxErrs` = 2 (3), `Retries` = 1 (5), one fault |
| `nu_card` | a stream sends two frames and three arrive round the ring; a fault of the card or chip | ring of 3 pages, frames of 2, one fault, `Turns` = 2 |
| `usb_tree` | a hub, a disk and a keyboard plugged in and pulled four times, at any point: the tables agree, one plug costs no other device its enumeration, addresses stay apart, the bus settles | two ports a hub, four devices, two hubs, one slot of each class, one fault |
| `isp_jobs` | messages of several jobs and a keyboard on a lossy bus, a controller disabled | jobs of 2 packets, messages of 3, `Retries` = 2 with errors at 2, one break or half-done recovery, one report |
| `ub_disk` | a disk request or ioctl, the daemon and the control device compete, a device comes and goes, the controller is lost | one user of each, a unit of 2 blocks of 2 (`Small`), `Word` = 8 for 2^32, one loss, one device |
| `live` | Snd, Tlk and Midi: data in order, the interrupt line served, and what was begun ends | in `Live.tla`; Midi: a ring of 4 (8192), `Bounce` = 2 (512), three calls, one keyboard byte |
| `servers` | three X servers start, end, are killed, hand each other the card and lend the keyboard: one is shown, a hand-over settles, unless a kill took a server it needs (`bereft`), and a loan ends | in `AtwVt.cfg`; not `Hurried` |
| `programs` | Ufs, UfsMount, UfsNode, Dhcp, DhcpWrite, Ntp and AtwIo: what each promises, over every disk, failure, loss, stop and order of boots | in `Programs.cfg` and `Programs.tla`, which names the sets |

In the last of these and in `kernel` and `live` no part touches another's
state: a behaviour picks one part, and the rest stay at a value that means off.
This is juxtaposition, not composition, and says nothing of the parts together;
where components do meet, one module stands for the other as its users see it
(DlmOpen has the loader's states, Usb runs under the lock of Ub).

Bounds. In DlmCore two processes and a shared dependency are the least where a
load waits for another's, is interrupted there and finds the record gone, and
three modules the least where a dependency is shared; `MaxId` bounds the
records ever made, `MaxCalls` the system calls. DlmOpen remembers one device
of two, so `cs_set` is full and not. DlmLd's inputs are every layout of two
sections and a common, every relocation kind at offsets and addends round each
overflow, every sequence of three symbols of two names. In Dp two streams are
the least where order between streams and handing over the poll mean anything;
thresholds are small so that the same steps come sooner. Nu's ring wraps on
the second frame and overflows on the third. Usb's four moves pull a hub with
a device behind it and put both back. Isp's messages need two jobs, the second
short; its retries allow one error, or two rests of a short or busy job. In
Midi a ring of four holds a wait command and a byte, is filled by one write
and overflows by two. Ufs has one direct and two levels of indirect blocks,
files that end at each boundary, the second entry of the double table among
them, and paths of two directories. UfsMount has more slices than drives. In Dhcp each of two clients may start its
transaction ids as the other does. In Amx a table of two and two contexts a
stack overflow the table by a `fork`, and signal 21 has another number here.
`CHECK_DEADLOCK FALSE` stands where the system rests once its bounded calls
are used up.

Fairness. `core_chain`: weak fairness of each process's next step, but not of
its calls and signals; a runnable process runs, a read ends, `_load` and
`_unload` return. `dp_all`: the completion (the SCSI core ends every command,
by a time-out if need be), the callouts, enabled service procedures, an open
under way. `nu_card`: the tick, the clock, the chip's transmit, the service
procedure and its steps. `usb_tree`: the daemon's polls and a chip whose
supply returns. `isp_jobs`: a job's and a message's next step (the code polls
the chip until the job is done). `ub_disk`: weak fairness of the daemon and of
what a process does inside and on its return, strong fairness of taking the
lock, since a sleeper that wakes and finds it taken sleeps again and the
kernel's queue is in order. `live`: the MIDI port shifts, the handler goes on,
clock, callouts and runnable processes; the DMA plays, tick and interrupt come;
a sleeping reader, writer or reset gets its poll. `servers`: a server that runs
comes to its block handler again, as dispatch calls it before every wait.
Nothing makes users call, frames or plugs come, faults
happen or signals arrive.

## 4. What is proved

The theorems hold for every value of the constants that the modules'
assumptions allow, and rest on nothing else but the conditions named here,
each of which is a hypothesis of its theorem.

`DlmProofs`, of the loader (`DlmInv` has its inductive invariants and what its
lemmas say of a step). Of its core (`DlmCore`), for every set of processes, every
dependency and entry relation and every bound:

- `TypeCorrect`: every state has its type; counts never go below zero.
- `OwnMarkedAlways`: a record that a process loads or unloads is on nobody
  else's stack and is marked in transition and owned by that process.
- `TransOwnedAlways`: a record in transition has a process that will settle
  it, if no signal ends the close or the `_unload` of a load being undone
  (`"failcl"` and `"failun"` not in `Intr`).
- `SlotLiveAlways`: a filled switch entry is filled by a live record.
- `InServiceAlways`: unless relink has panicked a settled module has all its
  entries. `kmem_zalloc` may sleep, and two loads of one name may then both have
  a record; of those that want an entry one settles.
- `PanicHasTwin`: where no two modules want one entry, relink panics only with a
  second record of a name on the list, so only after two loads that slept in
  `kmem_zalloc`. That there is no second record when it does not sleep is a
  lemma of the refinement below (`UniqueNameAlways`).

The conditions are needed: `core_orphan` and the first rows of "Further
instances" refute the properties without them. The inductive
invariant (`Inv`) is types, what each pc says of its process, the age of records, and
OwnMarked; `TransOwned` alone is not inductive, since a step that settles a
record has to know that no other process has it. Every action has a lemma that
it keeps the invariant; records that are freed, settled or created share one
lemma (`OneOwned`) about a process that changes the marks of its own records
only. Two more results rest on it:

- `CountsKept` (`CountsAlways`): a record's `m_deps` is the number of listed
  records' entries that point to it, what a record depends on is listed and
  settled, a candidate is idle, and a process has its own credentials back. The
  first three hold wherever signals end a call (`CountsExact`), the credentials
  if none ends the close of a load being undone. The half-done states of a step
  break the counts, so `Counts` is stated of a list and of records, and the two
  halves (holds taken or returned, a record settled) are proved one after the
  other.
- `ImplementsRegistry`: DlmCore implements `DlmRegistry`, if `kmem_zalloc` does
  not sleep (with two records of a name it does not): every step is a Load,
  Unload, Hold or Release of the registry or leaves it alone. Two facts more are needed: `Gains`, how far each load has
  come with the modules it depends on, and `UniqueName`.

Of the entry points (`DlmOpen`), under its `OpenAssumption` (finite sets of
processes and keys, kinds of key apart):

- `UsedIsLoaded`: what is open or called belongs to a loaded, linked module.
- `HoldsAreExact`: each hold has one reason. Neither is inductive: a hold is
  given back by a close that finds its key remembered, which is only right
  because the module stayed loaded, which the hold saw to. `OInv` joins them with
  what an open key needs (`KeysOK`), what a close counts (`CallsOK`) and who
  is at the record (`LoaderOK`).
- `KeysAreOpen`: a remembered key is open, closing, or was left by a signal.
- `LastCloseFreesQuietly`: when all is closed the module may be unloaded,
  unless a signal left one of its closes (`NoneLeft`; refuted without it below).
  `CleanCloseFrees`, which counts such closes, stays with TLC: its sum is a
  fold.

Of registration (`DlmRegister`), if no major is asked for as a character and as a
STREAMS device (`OneKind`; refuted without it below):

- `SlotsAreReached`, `RowsAreUsed`, `LinksAreOwn`, and the action property
  `GrantsAreKept`: a registration keeps its row for ever, however many sleep at
  once. `RInv` says of each sleeper that the row it chose is its major's still
  (`Sleepers`), and that no two rows are one major's (`RowsApart`).

Of the exec and STREAMS tables (`DlmLinks`), under its `LinksAssumption` (finite
sets of processes and streams, the stock rows' magics):

- `TableRunsLoaded`, `TableHoldsExact` and `TableCallsExact`: who runs in a module
  has it loaded, each hold has one reason, and each call too, the holds and calls
  that a signal out of a close leaves for good among them (`stays`, `stuck`). A module may go when nothing holds it, so the
  first rests on the count; the count rests on an open stream's row staying its
  module's (`OfStreams`), which an unload could only take from a module nothing
  holds. `TInv` joins them with what each table says of a loaded module
  (`InTables`) and who is at a stream (`AtStreams`).
- `StockIsTried`: an image nobody took was shown to the stock row of its magic.
  `RowsOrder` says what `dlm_xreg` keeps: a slot has one row, before every other
  row of its magic. So what follows it is a stock row, however far
  registrations moved it while `xcall` slept.

The modules of `kernel` are instances for TLC; these theorems are of the same
three modules with the constants left open, and so say for all values what
`ModulesHeld` (but for `CleanCloseFrees`) and `RegistrationKept` check for one.

`UbProofs`, for any number of users, units and devices:

- `LockSound` (`LockHeld`): one process at a time is inside the USB stack. The
  invariant `LockInv` counts nobody inside unless `busy` is set and says of
  each sleeper that it has asked to be woken, so that the one that leaves
  wakes it; four lemmas say what a step of one process leaves true of the
  others.
- `RequestsSound` (`RequestsKept`): a stack that UBIOC_STOP stopped stays down
  until somebody asks for it (section 5: ubioc.h says otherwise), and a request for the unit it was measured by
  says what it moved. `Stopping` says what is known between the stop and the
  unlock; `MoveInv` carries the measure from `ubstrategy`'s test over the sleep
  for the lock and over the pieces of the transfer.

`IspProofs`, for every job size, message length, number of retries and every
bound on losses:

- `DataSound` (`DataKept`): the packets an endpoint receives are those that
  were sent, once and in order, whatever packets and acknowledgements are lost
  and wherever retries, jobs and messages divide them, on a pipe whose last
  recovery both ends carried out (`Steady`; refuted without it below).
- `ReportsOnce` (`ReportsKept`): a keyboard's reports are handed on once each
  and in order.

The heart is `Synced`: the toggle the descriptor would go on with equals the
device's exactly when both ends have moved as many packets as the host counts,
and otherwise the receiver is one packet ahead (a lost acknowledgement). Data
alone says nothing of the toggles, and the toggles alone nothing of a message
that starts where the last ended, hence `OutKept`. `RepInv` says the same of
the poll, whose job is one packet.

`NuProofs`, for every ring, number of blocks and bound on frames:

- `FramesWhole` (`FramesKept`): a frame handed up is one whole frame off the
  wire, newer than the last, and a transmit buffer is not written while its
  frame is still to be sent. `Chained` says that the pages from the one read
  next to the one written next hold a chain of whole frames, by the existence
  of the set of pages they start at, so nothing recurs along the ring;
  `Copying` carries it over the service's steps, `Sending` says whose frame
  the chip has.
- `QueuesSound` (`QueuesAlways`): the count of waiting frames is the
  cardinality of the places of the queues, and while a stream is open the
  poll runs through an open one.

`AtwVtProofs`, for any number of servers and signals:

- `ServersTyped`, and `KeyboardAlways`: who has the card has the keyboard, unless
  it lent it, could not open it, or is letting the card go; hurried or not.
- `OneShown` (`OneShownAlways`): one server works the card, if nobody hurries
  (`~Hurried`; refuted without it below). `OneHolds` leaves out a server
  that only tells the next one; what makes it inductive is that a server is told only
  what the file says, when nobody else is on the way to the same (`Unseen`,
  `Shown`), and that the others are calm while one starts (`Calm`).

`DpProofs`, for every number of processes, streams, minors, frames, faults:

- `DpTyped`, and `CommandSound` (`CommandAlways`): `dpabuf` is queued once or
  not at all and nothing that is due is forgotten, a frame is not overwritten
  while it goes out, a stream's frames leave in order, `if_wqcnt` counts what
  waits, no two streams share an address. `DriverOk` is what holds between any two
  calls of a handler, `Core` what holds even between the parts of one.
- `StreamsSound` (`StreamsAlways`), with one process that opens (`OneOpener`)
  and at most one frame too long for the adapter (`OneLong`): the poll goes
  on, on an open stream, an unload leaves nothing, and no frame waits behind
  nothing. With either condition dropped it is false ("Further instances").
  `Behind` says what is staged while frames wait; `TurnSearches` says that
  `en_wproc`, which gives up after twice the number of minors, has by then
  looked at every stream (`Dist`, `Swept`).

The loop of `en_wproc` is one iteration over a bound; `IterateIn` and
`IterateIs` prove what each pass keeps from the principle of the least number.

`UsbProofs`, for any ports, devices, hubs, slots and faults:

- `UsbTyped`, and `TablesSound` (`TablesAlways`): the stack's devices form a
  tree below the root hub, each where its parent's port says, and every driver's
  slot is of a live device that has it, whatever is plugged or pulled out
  at any step.
- `Undisturbed` (`UndisturbedAlways`): while the controller is up, no device
  in service is dropped unless it, or a hub above it, was disturbed.

What goes with a device (`Family`) is the least set that has it and the
devices below its members, not a recursion; `CutKeeps`, `TakenKeeps` and
`ClaimedKeeps` say what the tables keep when a family goes, a device comes and
a driver claims one, and every action is one of these on the tables. For
`Undisturbed`, `FamilyUnsteady` passes a disturbance down to the family.

`ProgramsProofs`, of the programs, for every value of the constants that the
run gives one of:

- `LeaseSound` (`LeasesAreSound`), from `AddressesAreOwn` and `AnsweredIsAsked`
  of Dhcp, for any clients, servers, losses and coinciding transaction ids, and
  `HostsAreWhole` of DhcpWrite. Each has its condition: no lease runs out; a
  machine's first `XidByte` (256) transactions, for what it asked last; no machine
  that stops after the rename with the new file's data not yet on the disk, and no
  line lost untold, for hosts.net. `LInv` says what is under way: nothing of a
  transaction to come, an ack only of an address given to the one it names and
  of what that one asked for; a transaction has one request (`Requests`), since
  `xid` goes up before the next. `WInv` says how far the copy is (`Copying`).
- `RecordsKept` (`RecordsAreKept`), from `RecordsAreRight`, `OldRecordsStay` and
  `FixAlwaysHelps` of Ntp and `LettersAreKept` of UfsMount. -u knows records by
  their stamps alone: it leaves each early record right if those were written
  within the window and, east of Greenwich, somebody has logged in within the
  offset since, but spoils a right record stamped in the window after the boot
  record (`Mistaken`). `NInv` finds this boot's records by the last boot record
  (`BootAt`), and bounds what a record may be off by what was not worth moving
  (`Slack`).
- `DrivesAreSound` of UfsMount, for any disks and drives; each good slice has a
  drive unless something failed for it or none was left.
- `KeysSound` (`KeysAreSound`) of AtwIo, for any keys, whatever a read brings.
  What the clients take to be down while a packet is half read agrees with no
  hand; so the invariant (`IoInv`) is about what is still to be read, the
  buffer and then the wire: it leaves down only what the hands hold (`KeysTo`),
  each F-key in it that comes under Ctrl and Alt was meant (`Switches`), its
  last mouse packet has the buttons (`ButtonsTo`), and packets are whole.
  Reading a unit, or cutting where a packet is split, keeps that (`ReadsOn`,
  `GoesBehind`); the loop of `Parse` is followed unit by unit (`UnitReached`).
  As in the run, the keyboard goes only between packets (section 5, `MidPacket`).

A behaviour of `Programs` is one of a single part, so its invariant (`PInv`)
is each part's own under that part's name; the assumptions are those the run's
constants meet (`LeaseAssumption` and the others).

Only model-checked: liveness and whatever needs ENABLED (`CallReturns`,
`GoesOn`, `FramesLeave`, `MessageEnds`, `BusSettles`, `AllEnds`, `Settles`),
which this prover does not reach; `AddressOwn` and `MarkPasses` within
`BusSettles`, whose definitions recur over the bus; in `kernel` the linker
and the drivers' parts (`LinkedRight`, `DriversSound`, but for Dp's, proved in
`DpProofs`); in `live` the order of data (`StreamsSound`); in
`programs` what `FilesSound` says of files and paths, whose algorithms recur
over their data, and the bound on a client's wait in
`TypeOK`, which holds of waits that double exactly.

## 5. Findings

`core_orphan`: a signal in the `_unload` that undoes a load: the frame has left
the guard, so the record stays `DM_LOADING` for ever and every later load of the
name sleeps. `PROJECT.json` quotes the line it contradicts.

### Where the code and its documents differ

The models follow the code. In two places a property that holds is not what a
document says:

- `dlm-spec.md:251-254` resolves a symbol by the module's own definitions, the
  static kernel, then the declared dependencies. `dlm_ld_syms` looks at the
  dependencies, the last first, before the kernel, and so do `Best` and `Resolves`
  of DlmLd: a name both define goes to the dependency.
- `ubioc.h:16` ("the daemon brings it up again") and `driver-ub/README.md:151-152`
  say that the daemon starts a stack that UBIOC_STOP took down. `ub_work` returns
  while `ub_held` is set (ub.c:901), which only a start clears (ub.c:671); ub.c:352
  says so ("the daemon leaves the stack down"). `StopStays` of Ub is the code's.

### Further instances

These are not runs of the project, to keep the runs few; each takes the
named module or run with the change given, and TLC refutes the property.

| module | change | property | what the code does |
|---|---|---|---|
| DlmCore | as `core_shared` (kmem_zalloc sleeps) | `UniqueName` | two loads of one name each make a record: the look-up and the insertion are apart by a sleep (dlm-spec.md:246) |
| DlmCore | as `core_shared` | `NoPanic` | an entry freed for an `_unload` that sleeps is taken by another module; if `_unload` refuses, relink panics (dlm_core.c:711) |
| DlmCore | as `core_shared`, `Intr` with `"failcl"` | `TransOwned`, `CredRestored` | a signal ends the close of a load being undone: the record and the process's credentials stay as they are (dlm_core.c:433); the counts and entries hold |
| DlmCore | as `core_shared` | `StatLive` | modstat keeps a pointer to a record over a sleep (dlm_core.c:964) |
| DlmRegister | `Asks` with `<<"sdev", "c", 50>>` | `SlotReached` | a character registration that lost a race takes back the row of a STREAMS registration of its major (dlm_asv.c:11) |
| DlmOpen | none | `LastCloseFrees` | a signal in a driver's close leaves its call and its hold, and the module is busy for ever (dlm-spec.md:289) |
| DlmLinks | none | `StreamsLoaded` | a STREAMS open that leaves `q_ptr` 0 gives its hold back (dlm_str.c:152): the module may go while its stream is open |
| Dp | `QueuedBehindTx` without `d.flushed` | `QueuedBehindTx` | a flush frees frames and leaves `if_wqcnt`; later frames wait behind nothing (dp.c:978) |
| Dp | two processes | `MinorOwner`, `PollAlive`, `UnloadClean` | two clone opens get one minor: the link's bring-up sleeps (dp.c:1033) |
| Dp | `Bad` = {2, 3}, `MaxFrames` = 4 | `QueuedBehindTx` | two frames in a row that are too long end `en_wproc`'s search (`tries`, dp.c:761) with others still waiting, contrary to dp.c:573 |
| Dp | none | `RoundRobin` | the stream whose frame is put back loses its turn (dp.c:775) |
| NuDlpi | `MaxNoMem` = 1 | `ToldSo` | a bind whose answer has no block is bound though the user was not told (nu.c:809) |
| Midi | `Messages` = {<<1, 249, 30, 2>>} | `WriteReturns` | a ring that ends in half a wait command never empties, and its writer has the other half (midi.c:141) |
| Midi | three processes | `CloseReturns` | the ring drains between midiclose's test and its sleep (midi.c:280) |
| Midi | `Writers` = {p, o} | `InOrder` | each writer finds room before either puts its bytes in; the ring laps |
| Midi | none | `OneTick` | closed and opened within a tick, the device has two ticks running (midi.c:290) |
| Isp | none | `ComesBack` | a disabled controller is taken for a sound one (isp116x.c:843) |
| Isp | none | `DataAlways` | clear_stall resets the host's toggle though CLEAR_FEATURE failed: the device takes the next packet for a repetition (ubstor.c:69) |
| Isp | none | `EndsShort` | a message ends short too when retries run out in its last job |
| Ub | `MaxDevs` = 2 | `UnitStill` | the unit ubstrategy measured the request by may be another one when it has the lock (ub.c:828) |
| Ub | `Sizes` <- `Huge` | `GoesOn` | a unit whose blocks exceed the bounce buffer: ubstrategy's pieces are of 0 blocks, for ever (ub.c:827-833) |
| Ub | none | `RwInside` | block and count of UBIOC_RD and WR are added in 32 bits, and wrap |
| UbStor | none | `StatusAlways` | after a data phase that broke off the next command has the same tag, and nobody looks at the results of the reset recovery |
| UbStor | none | `ReadWhole` | the length a data phase moved is not looked at, nor the status's residue (ubstor.c:122) |
| UbHid | a key on two keyboards | `KeysAre` | a key held on both goes up when it goes up on one; a keyboard that goes leaves its keys down |
| UsbConf | none | `NoticesShort` | a configuration that comes short is parsed with what the last device left in the buffer (usb.c:503) |
| Snd | `MaxOff` = 0 | `PlayedAlways` | a block that plays again because of a late interrupt plays what is new in it, and the tick clears it |
| Snd | `MaxLate` = `MaxOff` = 0 | `AheadAlways` | when the tick finds the ring played just to its end, it does not start again `Lead` ahead |
| Tlk | none | `OnlyResetEats` | the probe of an open that is refused takes a byte (tlk.c:363) |
| Amx | `RegsBack` without `redone` | `RegsBack` | a restarted call left its arguments in the borrowed registers, and the next time round they are what is "put back", contrary to amx.c:24 |
| Amx | `ContextsRight` without `lost` | `ContextsRight` | a `fork` in a handler, or a full table, leaves a context that is returned by in the wrong layout; what goes is not the oldest, contrary to amx.c:395 |
| Amx | `ContextsRight` without `left` | `ContextsRight` | the entry of a handler that was left by a jump or `exec` takes a later context at its address for its own |
| Amx | `MaskRight` without `first` | `MaskRight` | signals that AMIX has no name for, blocked by a native parent, are lost when the mask is set |
| DlmLd | a weak, a weak and a global symbol of one name | `OneAddress` | the second weak stays |
| DlmBoot | `Places` that are not multiples of `Grain` | `Intact` | a place rounded down may lie over a module still to move (dlm_boot.c:113) |
| DlmBoot | `Across` = TRUE | `Intact` | so may a module that lies across a range's low end |
| KSym | none | `OnFinds` | a block cut short may pass the kernel's check, which does not tell an empty bucket |
| Ufs | none | `NeverInvents` | an indirect block that cannot be read makes its blocks holes: the file reads as zeros |
| Ufs | none | `EndsAtEnd` | a block that cannot be read ends the file, and a directory |
| Ufs | none | `ToldLater` | a name that is too long for the buffer is passed over, and not told to a call with a longer one (ufs.c:946-956) |
| UfsNode | `Paths` through a mount point | `AsSysV` | the driver keeps to the slice, as each slice is a drive of its own |
| UfsNode | none | `NotThere` | a directory that cannot be read, or searched for want of memory, has "no such file" (ufs.c:402-404) |
| Dhcp | `XidByte` = 1, `MaxXid` = 1 | `AckAlways` | one byte of the transaction id counts up: when it comes round, a late answer to an earlier request is taken (dhcpc.c:507) |
| Dhcp | none | `FailedHasNone` | a client that says nobody answered may hold a lease |
| DhcpWrite | none | `HostsAlways`, `ShWhole` | a line that could not be written is not asked about (ferror); dhcp.sh is written in place |
| DhcpWrite | none | `HostsDurable` | hosts.net is renamed into place without an fsync: a machine that stops soon after may find it cut off or empty (dhcpc.c:400-413) |
| Ntp | none | `NoneSpoilt` | -u moves a right record whose stamp lies in the window after the boot record's: at zone -3, a boot at 0, logins at 1 and, after the clock was set by hand, at 3, which -u moves to 0 |
| Ntp | none | `SecondNothing` | a second -u moves the records again, where nobody has logged in for as long as the zone is off |
| AtwVt | none | `SomeoneAlways` | a killed server on show runs no atwVtExit, and nobody comes on show |
| AtwVt | `Hurried` = TRUE | `OneShown`, `Someone` | a server is started or ended, or a key pressed, in the middle of a hand-over |
| AtwIo | `MaxMoves` = 6 | `FKeysToo` | an F-key that asked for another server and comes up there stays in `atwEaten` (atwIo.c:35) |
| AtwIo | `MidPacket` = TRUE | `NoneStuck` | what is left of a mouse packet is read as keys (atwIo.c:337) |

Read but not modelled: a `moduload` refused as busy does not make the module a
candidate for automatic unloading though `dlm-spec.md` says so, and
`moduload(0)` clears `DM_DEMAND` even if it fails; the daemon that would use
them is not written (`NOTES.md`). Loads in circular order by two processes
wait for each other, a limit `NOTES.md` states.

## 6. What is left

Theorems: `TableSound` and `RegsBack` of Amx, `LineServed` of Midi, the order of
data in Snd and Tlk, `AddressOwn` and `MarkPasses` of Usb (their definitions
recur over the bus; to prove them `Reached` would have to become a least set, as
`Family` is). A model of modpath against the searches that read the path
(dlm_core.c:489), and of strategy calls of two users of one disk.

## 7. Not modelled

- `iserver`: calls of `driver-tlk` with nothing kept between them.
- `xserver-r6/xdm`, the X tools, `driver-nu` tools: interactive programs,
  drawing and hardware tests.
- `xserver*` other than the device layer, FreeMiNT's headers: third-party.
- dlm's other linkages (file system switch, static kernels): not built here.
- The boot, image and release scripts, patches and data.

Left out of every module: memory running out where the code panics or cannot
fail, statistics, messages to the console, and the contents of what is
transferred unless a property is about it.
