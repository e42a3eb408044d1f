# Verification of port_scanner

TLA+ models of the port scanner in `src/`, TLC runs that check them on small
instances, and TLAPS proofs of the properties that matter most. References such
as `scanner.go:427` are to `src/pkg/port_scanner/scanner.go` and so on; the
models were translated from the code, not from its documentation.

## 1. The system

The program finds open TCP ports. `ScanNetworks` runs one of two scans: a **SYN
scan**, which writes raw SYN segments, captures SYN/ACKs and never completes a
handshake, or a **connect scan**, which dials every port. Each open port is
passed to the caller's callback, optionally with a banner.

| component | state it keeps | operations | what is hard | what makes it correct |
|---|---|---|---|---|
| SYN scan loop (`scanner.go`) | slot array, channel of free slots, sequence base, per-probe `OnceFunc`, `answered` flag and timer, reader counter and errors, scan context, callback `WaitGroup` | `Scan`, `sendProbes`, `sendWithRetries`, `readReplies`, `consumeReply`, `waitFor` | sender, one reader per source, one timer per probe and the callbacks run concurrently without a lock; readers and timers outlive the scan; the Scanner is reused | slots are unique and come back, one result per probe, nil means complete, `Scan` returns |
| Reply decoding (`decode.go`) | – | `decodeReply` | – | only SYN/ACKs become replies |
| Connect scan (`connect.go`) | semaphore, `WaitGroup`, local-failure counter | `scanConnect`, `connectOpen`, `isLocalFailure`, `expandNetworks` | a dial the context cut looks like a closed port; failures of ours look like closed ports | nothing outlives the scan, nil means every dial was answered, sockets are bounded |
| Target space (`targets.go`) | networks, ports, cumulative counts | `newTargetSpace`, `Target`, `nthAddress` | 64-bit overflow, boundaries between networks | index to (address, port) is one to one and onto |
| Permutation (`permutation.go`) | size, a, b, seed | `New`, `encrypt`, `Index` | unequal Feistel halves, cycle walking | a bijection on [0, size) for every round function |
| Capture handles (`capture_handle.go`) | an `os.File` and its `RawConn`, a shared buffer, an atomic closed flag | `OpenCaptureHandles`, `ReadPacketData`, `Close`, `Closed` | close races a read; readers share the buffer; partial failure when opening several | every packet goes to one reader, a close wakes them and is no failure, every handle opened is closed once |
| Listener handler (`listener_handler.go`) | listener, two raw sockets | `New`, `Close`, `Connection` | partial failure | no socket leaks |
| Scan entry points (`port_scanner.go`) | – | `Scan`, `ScanNetworks` | order of acquisition and release | everything acquired is released on every path |
| Reply filter (`reply_filter.go`) | – | the BPF program | hand-counted offsets and jump distances | keeps all that `decodeReply` accepts for the port, and nothing that is not TCP for it |
| Source addresses (`source_ip.go`) | a bounded cache | `KernelSourceIp`, `cachedSourceIpResolver` | one address has several forms | every probe has the source of its own address |
| Banner grab (`banner.go`) | up to two connections and their deadlines | `Grab`, `GrabTls`, `GrabAddress` | several deadlines, fallbacks, cancellation, a service that drips bytes | it ends in bounded time, starts a handshake on an unused connection only, closes what it dialled, finds what is there |
| Banner identification (`identify.go`) | – | `text`, `identify`, `withTls` | – | one line of text; what was said outranks the port |
| Configuration (`port_scanner_config.go`, `banner_config.go`) | the option structs | `New` and the options, `validateConfig` | options that drop a value and options that do not | a scan that runs has a usable configuration |
| Command line (`main.go`, `ports.go`) | the printer's mutex and error | `main`, `parsePortsSpec`, the result callback | signals at any moment, `os.Exit` runs no deferred call | the exit status is true, the program ends |
| Packet construction (`send_packet.go`), errors | – | – | – | – |

Interactions: `ScanNetworks` opens the listener handler and the capture handles,
builds a `Scanner` on them and runs `Scan`; on return it closes the handles
(which wakes readers still parked in a read) and then the listener. `Scan`
enumerates the target space through the permutation. Readers hand replies to
`consumeReply`, which finds the probe by slot, releases it and starts the
caller's callback in a goroutine. `scanConnect` shares only the configuration,
the result type and the banner grab with the SYN scan. Before a packet reaches
a capture handle the kernel has run the reply filter on it. Both scans grab
banners: `scanConnect` with its caller's context on the connection it has just
made, the callback of a SYN scan with the scan's own context on a connection of
its own. `main` calls `Scan` with a context that a signal cancels, and prints
from the callbacks.

Hard behaviours, all listed with their lines in `PROJECT.json` under `hazards`:
goroutines, timers and readers that outlive the scan they belong to; a Scanner
that is used again while they live; release racing timeout and duplicate reply;
a dial the context cut that looks like a closed port; a close that races a read;
failure half-way through opening several sockets; wrapping 64-bit and 32-bit
arithmetic; order of deferred calls; hand-counted jumps of the filter; nested
deadlines and a second connection of a banner grab; signals and `os.Exit`.

## 2. Modules

| module | models | extends / composes |
|---|---|---|
| `SynScan` | `scanner.go`: `Scan`, `sendProbes`, `sendWithRetries`, `readReplies`, `waitFor`, `consumeReply` | – |
| `SynScanInv`, `SynScanProofs` | its inductive invariants, its theorems | `SynScan` |
| `ScanContract` | what a scan promises its caller: fates of probes, deliveries, one return | – |
| `ConnectScan` | `connect.go`: `scanConnect`, `connectOpen`, `isLocalFailure` | instantiates `ScanContract` |
| `ConnectScanInv`, `ConnectScanProofs` | its inductive invariant, its theorems | `ConnectScan` |
| `Permutation`, `PermutationProofs` | `permutation.go`, driven as `sendProbes` drives it | – |
| `Addresses` | the operations of `net.IP` and `net.IPNet` that the code calls | – |
| `TargetSpace` | `targets.go`: `newTargetSpace`, `Target`, `nthAddress` | `Addresses` |
| `ConnectTargets` | `connect.go`: `expandNetworks` and its helpers | `Addresses` |
| `ScanTargets` | `ScanNetworks`' choice between the two | `TargetSpace`, instantiates `ConnectTargets` |
| `ScanOrder` | which probes a scan sends, in which order, from which source and on which socket: `newTargetSpace`, `checkAddressFamilies`, the loop of `sendProbes`, `source_ip.go`, `Connection` | composes `Permutation` and `ScanTargets` |
| `ScanOrderProofs` | the inductive invariants of both ways to choose targets, their theorems | `ScanOrder`, `PermutationProofs` |
| `ReplyFilter` | `reply_filter.go` instruction by instruction, the machine that runs it, and what `decodeReply` accepts | – |
| `CaptureHandle` | `capture_handle.go`: `ReadPacketData`, `Close`, with the filter in front | `ReplyFilter` |
| `CaptureHandleProofs` | what the filter computes, the inductive invariant, the theorems | `CaptureHandle` |
| `ScanConfig` | the options of a scan and `validateConfig` | – |
| `ScanSetup` | `ScanNetworks` from its checks to its deferred calls, with `listener_handler.go` and `OpenCaptureHandles` | `ScanConfig` |
| `Program` | `main`: port specification, signals, the scan, the printing callbacks, the exit status | composes `ScanSetup` with the callbacks |
| `ProgramProofs` | its inductive invariant, its theorems | `Program` |
| `BannerGrab` | `banner.go`: `Grab`, `GrabAddress`, `dial`, `read`, `probeHttp`, `grabTls`, and `banner_config.go` | – |
| `BannerGrabProofs` | its inductive invariant, its theorems | `BannerGrab` |
| `BannerText` | `text` of `identify.go`, octet by octet | – |
| `Banner` | `newBanner`, `identify`, `withTls` | composes `BannerGrab` and `BannerText` |
| `BannerProofs` | the inductive invariant of the text, the theorems of the composition | `Banner` |
| `MC*` | values of the constants for TLC, with one `.cfg` per run | each its module |

Definitions that begin a comment with *Mutant* are not part of the model: each
changes the definition after it the way a plausible bug would, and shows that
the property named with it in `PROJECT.json` does depend on that line.

### SynScan

The goroutine that runs `Scan` and `sendProbes` is at `pc`, each reader at
`rpc[<<scan, source>>]`; a timer is `timer[p]`, the body of a probe's
`sync.OnceFunc` is `hold[p]` (cleared the slot, then handed it back: two steps),
and a callback that runs is a result not yet `delivered`. `slots`, `free`,
`base`, `live`, `errs` are the fields and channels of the same meaning. The
network is the set `wire` of SYNs that went out: any reader may read a reply to
any of them at any time, several times or never, so loss, delay, duplication,
reordering and capture on two interfaces are all in `ReadReply`; `Noise` adds
SYN/ACKs nobody asked for.

*Sharing without synchronisation.* A second `Scan` assigns `scanner.slots` and
`scanner.sequenceBase` while timers and parked readers of the first may still
use them. Which value one of those goroutines finds is open in Go's memory
model; `Seen(k)` lets a goroutine of scan *k* find what its own scan assigned or
what any later one did, at each access anew.

*Abstracted.* Order of the shuffle (any order; `Permutation` shows each target
comes once), durations (a timer, the linger and the grace period may end at any
time), segment contents (a reply is its endpoint and acknowledgement number),
the banner. Sequence numbers are taken modulo `SeqMod`, 2^32 in the code. The
returns of `sendProbes` that give a scan up at one target (`scanner.go:382-412`,
and at `NewProbe`) are left out because no target takes them: an index below the
size is a target, an address has a socket (`ScanOrder`), and the addresses and
ports of a target can always be put into a probe.

### ConnectScan

The loop is at `pc`, goroutine *j* at `job[j]`; `semaphore`, `waitGroup` and
`localFailures` are the channel's length and the counters. The context ends in
two steps: its deadline passes (`expired`), which is the dial's deadline too,
since `connectOpen` derives its context from it, and `ctx.Err()` becomes non-nil
(`ctxDone`) when the context's own timer has run. `ScanContract` is what both
scans promise the caller: results while the scan runs and never after, nil only
if the network was asked about every probe. `KeepsContract` is the refinement,
with `dialled` for the contract's `fate`. The contract has the exception
`late`, for a dial that the deadline ended before the context had noticed; the
run `connect_deadline` shows that it is needed.

### Permutation

`Walk` and `Land` are one call of `encrypt` each. `Round` (the mixing function)
is any function to a machine word, `a` any value `math.Sqrt` may give after its
rounding, and the word has `W` values, so the additions wrap.

### Targets

Addresses are numbers of a small IPv4 and a larger IPv6 space, the IPv4-mapped
block inside the latter, each with the width it is written in. A mask is its
width and the number of hosts it leaves (0 for one that is no prefix).
`TargetSpace` counts in a word of `W` values; `ConnectTargets` walks address by
address and wraps at the end of the space as `incrementAddress` does. Whether the
walk is still in the network is what `net.IPNet.Contains` says, which takes a
mapped address, the network's own too, for the IPv4 one (`Reduced`): an IPv4
address under a sixteen-byte mask of fewer than 96 ones contains no address of
its walk, so `HostsOf`, the reference, gives it no hosts (section 6).

### ScanOrder

`Prepare` is what `Scan` does before its first probe, `RefuseFamily` the check of
address families (which looks at the first address of each network), `WalkOn`
one step of a cycle walk and `Probe` the rest of an iteration of `sendProbes`:
pair, source through the cache, socket of the family. `Covered` is the meaning
of the arguments, every address of every network with every port, which
`EachPairIsProbed` compares with what was sent.

### ReplyFilter and CaptureHandle

A packet is the record of the fields that the filter or `decodeReply` looks at;
`Octets` puts them where they are in a packet and fills the rest with octets that
look like the port listened for, so that a load at a wrong offset is never
harmless by luck. `Instructions` is the list of `ReplyFilterInstructions`, and
`Load`, `Mask`, `Jump` and `Decide` are the machine's steps; a load beyond the
packet rejects it, as the kernel does.

`ReadPacketData` is modelled step by step over the runtime's poller, which is
external and follows the Go runtime's contract: a read holds the file's read
lock, parks on EAGAIN, is evicted by a close, and the close returns when no read
holds the descriptor. `After` is the order copy, unlock, inspect. `Judge` is the
reader's question to `Closed` in `readReplies`.

### ScanConfig, ScanSetup and Program

`pc` is the resource `ScanNetworks` is about to acquire or release, `step` the
call in `OpenCaptureHandle`. Every step may fail on its own. A capture socket
`closed` is one that was closed by the code; when its descriptor goes is
`CaptureHandle`'s business. `Program` adds `main`: `stage` is where it is,
`signalled` the cancelled context, `callbacks` what became of each result. A scan
itself is what `SynScan` and `ConnectScan` show of it: it reports each result once,
waits for its callbacks, and, in a SYN scan, may report one `late` (the run
`syn_late`). A port specification is a sequence of entries, `None` for a blank one,
which is passed over; the empty text stands for the default, while one of blanks
alone is refused. A signal before `NotifyContext` kills the program.

### BannerGrab and Banner

`now` counts ticks; a tick passes only while the goroutine waits (`dialing`,
`reading`, `handshaking`) and never beyond its deadline. `mode` tells a grab on a
connection it was given, under its caller's context, from `GrabAddress` under a
SYN scan's. A service speaks first, when asked, or not at all, in the clear or
under TLS, promptly or whenever it likes, and says `size` bytes one by one if it
likes. `wire` and `taken` are what was written to and read from each connection.
What a handshake shows of a certificate changes no state and is left out. A
handshake whose context ends returns by closing the connection beneath, as
`HandshakeContext` does, but may also have its own outcome first.
`Banner` runs the grab and the naming of what was read side by side, because
naming depends on the bytes, the port and the handshake only. An octet is one of
four kinds that `text` tells apart: printable (`"p"`), a blank or tab (`"b"`), a
line end (`"n"`), anything else (`"x"`). A port is what the two tables say of it:
nothing, a name in the clear, or the name of a TLS form, which either both have
or `tlsPortServices` alone.

## 3. Runs

| run | what it checks | instance, and why it is enough |
|---|---|---|
| `syn_faults` | `TypeOK`, `NilMeansComplete`, `LostReadersAreAllReported`, `SlotPool`, `ResultsAreSound`, `ResultIsFinal` | an open endpoint numbered twice, two slots, two sources (duplicates, partial loss of sources), both kinds of send faults with two attempts, an unroutable target, strangers' replies, a base that wraps, cancellation |
| `syn_reuse` | `ProbeFindable`, `FreeSlotIsNil`, `ParkedReaderIsSilent` | two scans over one slot, bases that differ or agree, so that a stale release or reply can hit the second scan |
| `syn_live` | `ScanReturns`, `AnsweredIsReported`, `SlotsComeBack`, `ClosingFreesReaders` | two targets over one slot, a source that fails, cancellation, under `FairSpec` |
| `syn_late` (violation) | `CallbacksReturnBeforeScan` | one target, one source |
| `syn_parked` (violation) | `NothingIsLostToParkedReaders` | two scans of one target |
| `connect_scan` | `TypeOK`, `SocketsBounded`, `NothingOutlivesTheScan`, `KeepsContract`, `ScanReturns` | four dials over a semaphore of two: the loop waits for slots and goroutines overlap; every outcome of a dial; cancellation and a deadline |
| `connect_deadline` (violation) | `NilMeansUncut` | as few dials as show it |
| `order` | `OrderTypeOK`, `ExactlyOnce`, `FewSteps`, `EachPairIsProbed`, `AddressesAreTheHosts`, `RefusedIfTooMany` | up to three networks in every form of address and mask, masks too short for their IPv4 address among them, overlapping, at both ends of each space, in a five-bit word that the counts overflow; four seeds whose round functions exceed the word's half, every root `math.Sqrt` may give; a cache of two entries; one address without a route |
| `capture` | `TypeOK`, `FilterKeepsReplies`, `EveryReplyOnce`, `CloseIsNotAFailure`, `ClosingEnds` | two readers and four packets in a row, of which two are passed over; 43 kinds of packet alone: both header sizes, protocols, fragments, ports, lengths on either side of what is read; one interrupt, failing reads, a close at any moment |
| `program` | `ProgramTypeOK`, `HearsOnlyItsOwn`, `ScanIsAsAsked`, `StatusIsTrue`, `ProgramEnds` | up to two interfaces up, none, one, two, a repeated and a missing one named; options on either side of every bound; eight port specifications, with blank entries among others and alone; a failure at every step; a signal at any moment; two results, one of which may be late, and writes that fail |
| `banner` | `TypeOK`, `FreshHandshake`, `GrabIsBounded`, `FindsWhatIsThere`, `NothingStaysOpen`, `BannerTellsWhatWasSaid` | both modes, every combination of options, 20 services, no deadline or one that ends a grab half-way, cancellation by the caller and by the scan; every text of up to four octets with a limit of three |
| `banner_cut` (violation) | `SilentMeansSilent` | the same |

Bounds: `NScans` calls of `Scan`, `SeqMod` sequence numbers, `MaxInterrupts`
signals, `W` values of a machine word, `MaxHosts` and `maxConnectAddresses` for
the code's 2^maxHostBits and its cap, `maxSourceIpCacheSize`, `maxTextLength`,
`binaryRunLength` and the timeouts in ticks, and the lists and sets of the MC
modules. The filter runs with the code's own offsets, masks and port range.
No run uses a state constraint. Symmetry is used once, for the two sources of
`syn_faults`, which checks no liveness. No run disables the deadlock check: in a
final state each specification takes a stuttering step of its own (`Finished`,
`Returned`, `Rendered`, ...).

## 4. Fairness

*SynScan*: goroutines that can run do (`SendProbes`, `EndScan`, the steps of a
reader that has a frame), timers fire, callbacks return, and a read of a closed
source comes back. Nothing is assumed of a read of an open source (a quiet
interface never delivers), of cancellation, or of how a send goes.
*ConnectScan*: the loop and the goroutines run; a dial ends because
`ConnectTimeout` bounds it, a banner grab because its own timeouts do, and the
caller's callback returns. *CaptureHandle*: readers run, and a `Close` that was
called continues. *Program*: `ScanNetworks` and `main` run, a write to the
standard output ends, and a scan ends once its callbacks have, which the liveness
of `SynScan` and `ConnectScan` justifies; nothing is assumed of signals.
*BannerGrab* needs none: `GrabIsBounded` is a bound, not an eventuality. All of it
is weak fairness, and rests on Go's scheduler, on the
timeouts the code sets itself and, for callbacks, on the caller.

## 5. Proofs

TLAPS proves, for every value of the constants allowed by each module's
`Parameters`:

- **SynScan.** `IInv` (`SynScanInv`) is inductive. Its parts: `SenderInv` (the
  probe in hand is the running scan's), `ProbeInv` (nothing happens to a probe
  before it is placed), `ReaderInv` (what a reader has in hand at each step),
  `AnswerInv` (one reader wins a probe), `SlotInv` (a slot of the running scan
  holds exactly the probe that is placed and unreleased), `PoolInv` (each number
  is in the channel once or has one holder) and `WireInv` (which number a SYN
  carries). `SlotPool` alone is not inductive: that a release finds its number
  outside the channel needs the holders' uniqueness, and that a slot is cleared
  before its number is handed back needs `SlotInv`. From it follow `TypeOK`,
  `SlotPool`, `ReleaseNeverBlocks` (a pigeonhole argument over the holders),
  `FreeSlotIsNil`, `ProbeFindable` (with the arithmetic of the acknowledgement
  number modulo `SeqMod`), `AtMostOneResult`, and the action properties
  `ResultIsFinal` and `ParkedReaderIsSilent`: for any number of scans, probes,
  sources and slots, and whatever stale goroutines see.
- **SynScan, what is returned.** `OutcomeInv` adds two parts to `IInv`. `CountInv`
  is the equation between the errors that readers have sent, the counter of live
  readers, and the readers that have sent theirs and not yet counted themselves
  out; `LostReadersAreAllReported` is not inductive without it, since the last
  reader to count itself out cancels the scan for all. `EndInv` says why the scan
  is where it is on its way to its return, and gives `NilMeansComplete`.
- **SynScan, what is reported.** `SoundInv` follows a frame through a reader: from
  where it has found a slot on, the frame is a probed endpoint's answer or comes
  from none of the targets. `ResultsSound` has a hypothesis, `[]NoiseMisses`: a
  SYN/ACK that a probed endpoint sends unasked names no slot. The code makes that
  improbable (the base of the sequence numbers is random), not impossible, and
  without it a guess is indistinguishable from a reply. It excludes nothing else:
  strangers' SYN/ACKs may carry any number. The noise of the run `syn_faults`,
  strangers' and a target's own, satisfies it.
- **ConnectScan.** `IInv` (`ConnectScanInv`) says what the three counters count,
  as cardinalities of sets of goroutines, and what a goroutine knows at each
  step. From it follow `TypeOK`, `SocketsBounded`, `NothingOutlivesTheScan`, the
  refinement `KeepsContract` (`Implements`) and, for a context without a
  deadline, `NilMeansUncut` (`UncutWithoutDeadline`).
- **Permutation.** `encrypt` is one to one on [0, a*b) for every round function
  and word (`FeistelIsOneToOne`): each round is, a sum reduced first being
  invertible. Two cycle walks never meet, so no target comes twice
  (`VisitsOnce`); that every target comes (`VisitsAll`) and that all walks
  together take fewer than `2 * size` steps (`StepsAreFew`) is counting.
- **ScanOrder, the SYN scan.** `SpaceInv` says what `newTargetSpace` has laid out
  of the networks it has passed: counts that go up by each network's hosts times
  the ports, without a gap, and that never wrap, because each network and the
  total are bounded before they are added. From it, `Target` is one to one and
  onto the pairs of the arguments. `OrderInv` joins that with the permutation's
  `IInv`, `CacheInv` (an entry is what the kernel would say of every form of
  its address) and `ProbesAreDue` (what was sent is what was due of the positions
  visited). The positions are visited once each by `VisitsAll`, so every pair
  with a source is probed once and nothing else is (`ProbesEachPair`).
- **ScanOrder, the connect scan.** `WalkInv` counts the hosts that the walk of
  `expandNetworks` has come by: the addresses enumerated are as many as those,
  and the same ones. It also shows that the walk neither wraps at the
  end of a space, since each network ends within it, nor strays into the mapped
  addresses, since the bound on addresses (`BoundBelowIpv4`) stops it before. From it
  `ConnectsToTheHosts` and, with the sums of `SpaceInv`, `RefusesTheLarge`. That a
  mask too short for its IPv4 address is left before its first address follows from
  the alignment of the mapped block: the first address of such a network is below
  it, and what `Contains` compares has two widths. The
  assumptions on `Masks`, `Space4`, `Space6` and `Mapped` are those of the address
  formats: a prefix leaves a power of two of addresses, stated as divisibility,
  and the mapped block is aligned.
- **ReplyFilter.** `FilterInv` says what the program has found out about the
  packet when it is at an instruction, and what is in the registers there: at
  instruction 11, say, the packet is IPv4, TCP and no later fragment, the index
  is its header's length and the accumulator its port. Each instruction leads to
  one whose part of it holds (`StepInv`), and at the two ends it says what the
  verdict means (`Verdict`). This holds for every packet and port, where the run
  has 43 kinds of packet.
- **CaptureHandle.** `IInv` adds to that where every packet the filter kept is:
  the queue is in order (`QueueInv`), what a reader has in hand left it earlier
  (`HandInv`), what it was returned earlier still (`ReturnedInv`), and what may
  be a reply is in one of the three (`NothingIsLost`). That two hands never hold
  the same packet rests on the lock, which `TypeOK` relates to the readers'
  places. From it follow `TypeOK`, `FilterKeepsReplies`, `EveryReplyOnce` and,
  with `CloseInv` (the flag is set before any read fails), `CloseIsNotAFailure`,
  for any number of readers and packets.
- **BannerGrab.** The heart of `IInv` is `TimeInv`: at each place of the grab the
  time that has passed and the most that may still pass (dials, silent reads,
  and one banner byte by byte) fit the budget. `CutInv` does the same for the
  time after a cancellation. From them, `WireInv` and `OpenInv` follow `TypeOK`,
  `GrabIsBounded`, `FreshHandshake` and `NothingStaysOpen` for all options,
  services and deadlines; the last needs that a context which ended stays ended,
  since it excuses a connection that an interrupted handshake has closed. `FindsWhatIsThere` follows from `FindInv`, which is about
  a service that keeps no grab waiting under a context that has not ended
  (`Obliging`): what it has to say is on its way until a byte of it is read, no
  deadline passes before that, and a connection about to be shaken hands on is as
  good as new.
- **Banner.** `TextInv` relates what `text` has built, a run and a line, to what
  can be read off the octets before it: the run's printable octets are those of
  the stretch it is in, its blanks the first of each gap between two of them
  (`RunInv`); the line's are those of the stretches worth keeping (`LineInv`). That
  the two agree is counting. `BannersAreTrue` is `BannerTellsWhatWasSaid` for bytes
  of any length and any limits, and `GrabsAsAlone` carries the theorems of
  `BannerGrab` over to the composition.
- **Program.** `SetupInv` says which sockets are open, filtered and bound at each
  place of `ScanNetworks`; `MainInv` what `main` knows of it. That the deferred
  calls close everything needs `FdsInv`, by which the open packet sockets are
  exactly those of the handles and the one being opened. `OptionsInv`, `GivenInv`
  and `PrintInv` say what configuration, ports and callbacks there can be. From
  them follow `HearsOnlyItsOwn`, `StatusIsTrue`, `ProgramTypeOK` (no state of it is
  that of a second close) and `ScanIsAsAsked`, for any interfaces, options and
  results. The last two rest on recursions, over the options and over the entries
  of the port specification, which are written as recursive functions; that such a
  function exists and has its values is the lemma `Recursion`, and what it
  computes is shown by a least counterexample (`Reaches`).

Assumptions are those of the modules, which TLC evaluates in every run that has
the module. That no value which stands for "nothing" (`None`, `Nil`) is one of the
values it stands in for is among them; the others describe what the environment
may hand to the code.

Every type invariant, safety invariant and action property that the passing runs
check, and the refinement `KeepsContract`, is stated by a theorem. Only
model-checked are the liveness properties, which the prover does not reach:
`ScanReturns` (of `SynScan` and of `ConnectScan`), `AnsweredIsReported`,
`SlotsComeBack`, `ClosingFreesReaders`, `ClosingEnds` and `ProgramEnds`.

## 6. Where the code and its documentation part

- `syn_late`: a reader that has passed its second context check
  (`scanner.go:527`) may reach `callbacks.Go` after the grace period and
  `callbacks.Wait` are over, so that a callback runs after `Scan` has returned;
  `scanner.go:198` excludes it.
- `syn_parked`: a reader parked since one scan takes a frame that the next scan
  of the same Scanner waits for, and drops it; `scanner.go:295` says nothing is
  lost.
- `connect_deadline`: the deadline of the caller's context is each dial's too,
  and may end the last dials before the context reports it; `scanConnect` then
  returns nil, which `connect.go:101-105` sets out to prevent.
- `banner_cut`: `Scan` cancels its context (`scanner.go:284`) before it waits for
  the callbacks, whose banner grabs dial and read with it; a grab that is under
  way one timeout after the last probe is cut, and its port has no banner,
  although `port_scanner.go:47-48` leaves only "not asked" and "said nothing".
  With the defaults (a second of scan timeout, three of banner timeout) a small
  SYN scan loses the banners of most services that wait to be asked.

Seen while modelling, without a run:

- A connect scan silently passes over a network that is an IPv4 address under a
  sixteen-byte mask of fewer than 96 ones: it leaves the address at sixteen bytes
  so that it is "treated as the IPv6 network they are" (`connect.go:257-259`), but
  `Contains` (`connect.go:231`) takes that address for four bytes and matches no
  address of the walk. This is the fate that `connect.go:203-207` sets out to spare
  a network of two widths. `HostsOf` says that it has no hosts, and
  `AddressesAreTheHosts` and `RefusedIfTooMany` are to be read with that. The SYN
  scan counts such a network by its mask (`targets.go`).
- `Grab` and `GrabTls` say of the connection they are given that "It is not closed
  here" (`banner.go:89-91`), but `HandshakeContext` (`banner.go:169`) closes it when
  the context ends during the handshake. `connectOpen` closes it afterwards anyway.
  `NothingStaysOpen` names this one way in which it is not open.
- `scanConnect` dials and reports a port as often as it is given
  (`connect.go:56`), although `cmd/port_scanner/ports.go:4` says the scanner folds
  duplicates; and under `SkipIpv6` it passes over IPv6 targets without an error
  (`connect.go:213`), although `port_scanner_config.go:53-54` says they are
  rejected. The SYN scan does both as documented.
- A port that conventionally speaks TLS and speaks plaintext is never read in the
  clear when TLS is asked for (`banner.go:108-110`, `210`), and a TLS service
  that answers a plaintext HTTP request with an error is never tried for TLS
  (`banner.go:191-193`): `InTheClear` and `UnderTls` of `FindsWhatIsThere` say so.
- `banner.go:69-71` has it that a `Raw` of any length means the service was read
  rather than assumed, while a handshake alone names it too (`identify.go:242-247`).
- `withTls` (`identify.go:253-273`) lets the port outrank what was said after a
  handshake; `identify.go:230` states the rule for bytes that were said.
- The filter drops IPv6 segments behind extension headers, which
  `reply_filter.go:77-79` says is meant.
- After `NotifyContext` (`main.go:287`) every further signal is swallowed, so a
  second interrupt does not hurry an orderly end.

## 7. Not modelled, and the plan

Not modelled: packet construction (`send_packet.go` serialises a header and calls
`WriteTo`; `SynScan` has the outcome), the packet library's walk over layers, the
tables and signatures of `identify.go` and the list of ports of `ports.go` (data),
the error values, and the wording of flags and output.

What comes next: `SynScan` as an implementation of `ScanContract`. The contract's
promise that nothing is delivered after the return would need an exception for the
late report that `syn_late` shows, and its promise about nil one for probes that
time out, as `late` is one for the connect scan's dials.
