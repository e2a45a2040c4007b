# Prizma: a TLA+ verification project

TLA+ models of Prizma, TLC configurations that check them on small instances, and
proofs, checked by TLAPS, of what most of these models promise, for every value of
the constants: the controller, the packet engine, the reassembly of TCP and QUIC
hellos, the main loop and its timers, the capture filter, the automatic host list,
the Lua plan, `mdig` and `ip2net`. Paths below are relative to the repository's
root.

    tlc -workers 2 -config EngineController.cfg MCEngineController.tla
    tlapm EngineControllerProofs.tla

## The system

Prizma is two programs in one repository.

*The Windows product* (`src/`, C#). A WPF application starts a packet engine as
a child process, or installs it as a Windows service, and can search for the
profile (the engine's arguments) that works best on the network. The engine takes
TCP, DNS and QUIC packets from the WinDivert driver, splits or fakes them and
puts them back. It does not run the C programs below.

*The imported zapret2* (`nfq2/`, `lua/`, `ipset/`, `common/`, `init.d/`,
`mdig/`, `ip2net/`). `nfqws2` takes packets from a netfilter queue (or divert
socket, or WinDivert), follows connections, reassembles the request that reveals
the host name, chooses a profile for it and has Lua functions change or replace
its packets.

### Inventory

| Component | State | Operations | What makes it correct |
|---|---|---|---|
| Engine controller (`src/Prizma.Core/Engine`) | `_gate`, `_process`, `State`, `_disposed`; the process object | `StartAsync`, `StopAsync`, `DisposeAsync`, the exit callback, `StateChanged` | one engine at a time; a call that returns or throws leaves what it promises; a rest is shown only when the engine is off; every call ends; nothing starts after disposal |
| Packet engine (`src/Prizma.Engine/PacketEngine.cs` and its transformers) | driver handle, flow tracker | receive loop, split, fake, fail-open, shutdown | pieces make up the segment, once each; fakes only on a first transmission; a failure neither loses nor repeats data |
| DNS redirection, DNS over HTTPS | pending queries | rewrite of query and answer, expiry, resolve | an answer comes back from the server that was asked |
| Engine host, options | options | parse, host service, exit code | the profile's arguments mean what they say; a failed service is restarted |
| Desktop application (`src/Prizma.App`) | view model, service state, recommendation cache | toggle, manage service, benchmark, close | never two engines; the state shown is the state; closing ends |
| Windows service manager | installed service, its files | install, uninstall, query | all or nothing |
| Benchmark (`src/Prizma.Core/Benchmarking`) | results, byte budget | run, probe, reserve/commit | budget never exceeded; engine stopped at the end; ranking is total |
| nfq2 connection tracker (`nfq2/conntrack.c`) | a pool of entries: state, positions, profile, queue | feed, search, purge, drop | positions tell a retransmission; no entry outlives its timeout |
| nfq2 reassembly and profile search (`nfq2/desync.c`, `packet_queue.c`) | `reasm_client`, `delayed`, the search's results | feed, start, cancel, finish, replay, rediscovery | held packets leave, once, in order; the pieces meet one decision |
| nfq2 QUIC reassembly (`nfq2/desync.c`, `protocol.c`) | held datagrams, what they decrypt to, the search's results | hold, replay, give up; put CRYPTO frames in place, sort and merge ranges | held datagrams leave, once, in order; the decision is made once, with the whole hello; the stream is called full exactly when no byte is missing |
| nfq2 host lists, automatic lists, ipsets (`hostlist.c`, `pools.c`, `ipset.c`) | lists, file signatures, failure counters | load, reload, check, count, append | a host is added for cause, once; a change of the file is seen; an emptied list does not catch every host |
| nfq2 timers (`timer.c`) | a pool of timers | add, delete, run, callbacks that do both | each due timer runs once; no deleted timer runs |
| nfq2 main loop (`nfqws.c`, `windows_recv`) | signals, reload flag, what has been opened | start in steps, receive, reload, end | a reload and an end asked for come; nothing stays open |
| nfq2 options and capture filter (`nfqws.c`, `params.c`, `filter.c`, `pools.c`) | profiles, templates, lists, the filter | one per option, end of options, search | a packet gets the profile the text declares; what the profiles need is captured |
| Lua bridge (`lua.c`, `desync.c`, `lua/*.lua`) | per-connection Lua state, cut-offs | plan, verdicts, orchestrators | a cut-off instance does not run; the others do; verdicts combine |
| Packets (`darkmagic.c`, `lua.c`, `zapret-lib.lua`) | a packet and its table | dissect, reconstruct, segment, fragment, checksum | what leaves says what the table says |
| `mdig`, `ip2net` | work queue, mutexes; sorted addresses | resolve in threads; merge subnets | every name once; no address lost or taken twice |
| Scripts | the host's firewall | install, start, stop, blockcheck | – |

### How they interact

The view model calls the controller (`Start`, `Stop`, `Dispose`) and is called
back by `StateChanged` on whichever thread made the change; the benchmark calls
the same controller. The controller owns the engine process and is called back
by its `Exited` event. The service manager runs the same engine outside of the
controller. In nfq2 everything but the signal handlers is on one thread: a packet
goes through the tracker, the profile search, the reassembly and the Lua plan;
replayed packets go through the same function again with a saved copy of the
tracker's positions. The main loop loads the lists again and runs the timers
between two packets. `ipset/def.sh` joins `mdig` to `ip2net` by a pipe.

### What is hard

* **Callbacks and awaits.** The controller's methods are serialised by a
  semaphore, but the exit callback is not, and notifications are sent outside the
  lock.
* **Failure between steps.** A start has seven places to fail, each with an
  engine in another state. `Kill` can throw.
* **Order and loss of packets.** Segments are repeated, overtaken, resegmented,
  lost before the filter; a tuple is reused; sequence numbers wrap.
* **Holding back.** The filter withholds what the other end waits for, in TCP
  until the hello is whole, in QUIC until its frames leave no gap.
* **Signals, timers and files of others.** A signal comes between a test and the
  call it guards; a timer's function deletes the timer that the walk stands on; a
  list changes between `stat` and `open`.
* **Boundaries.** 16-bit lengths and identifiers, 32-bit sequence numbers and
  products, IPv6 extension chains cut anywhere.
* **Stale knowledge.** The profile found for the first piece of a hello; the
  signature of a list file; the network a recommendation was measured on.

PROJECT.json lists each hazard at its line, with the properties that cover it.

## The modules

| Module | Models |
|---|---|
| `EngineLifecycle` | what `IEngineController` promises: the state shown, against the engine owned |
| `EngineController` | `UnifiedEngineController`, its callers, its process and its subscriber |
| `EngineControllerProofs` | the inductive invariant, the theorems, the refinement |
| `TcpSplit` | where `SplitTcpPacket` and the SNI marker cut a payload |
| `PacketEngine` (extends `TcpSplit`), `PacketEngineProofs` | the receive loop with all that `ProcessAndSend` decides, DNS, and the shutdown from another thread |
| `PacketPath` | what the filter owes a connection: order, no duplication, no packet left behind |
| `ProfileSearch`, `ProfileSearchProofs` | the search of a profile and its repetition when more is known of a connection, for TCP and UDP |
| `HelloReassembly` (extends `ProfileSearch`), `HelloReassemblyProofs` | one tuple through tracker, reassembly, queue and profile search |
| `QuicFrames` | CRYPTO frames, and what a stream made of them is |
| `QuicDefrag` (extends `QuicFrames`) | `QUICDefragCrypto`, loop by loop |
| `QuicReassembly` (extends `QuicFrames`, `ProfileSearch`) | the handling of a QUIC client's datagrams |
| `QuicInitials` (extends the two), `QuicProofs` | the handling with the call inside |
| `TimerPool` | the pool of timers and the walk that runs them |
| `NfqMain` (extends `TimerPool`), `NfqMainProofs` | start, loop, signals, reload and end of `nfqws2` on four kinds of system |
| `HostLists` | files of lists, their load in steps, the checks |
| `AutoHostlist` (extends `HostLists`) | connections that fail, counters, additions, SIGHUP |
| `LuaPlan` | a connection's packets through profile search, plan and cut-offs |
| `DesyncProofs` | the theorems of `AutoHostlist` and of `LuaPlan` |
| `PacketForms` | dissection and reconstruction of raw packets |
| `PacketSend` (extends `PacketForms`) | what a strategy does with a packet: changes, segments, fragments, verdict |
| `Filters` | the lists of the filter options, as read and as matched |
| `Profiles` (extends `Filters`) | the options that build profiles, the defaults, the lists, the search |
| `CaptureFilter` (extends `Filters`) | the `--wf-...` options and what the driver makes of the filter's text |
| `Options` (extends both), `NfqMainProofs` | the command line up to the first packet |
| `Mdig`, `Ip2net` | the two tools |
| `ListTools` (extends `Ip2net`, instantiates `Mdig`) | the pipe between them |
| `ListToolsProofs` | the theorems of both tools and of the pipe |
| `MC...` | instances for TLC |

### `EngineController`

A call of a method is a caller's program counter (`pc`, `op`); `after` is the
place `TerminateAndDisposeProcessAsync` returns to. An action is the code between
two points where another thread's step can be observed: the awaits, the reads of
`HasExited`, each `SetState`. `SetState` is two steps, the locked assignment and
the subscriber's return (`Deliver`); the thread goes on after the second.
`HandleExit` is a thread of its own for each process: its two reads are one step
(`Dispose`, which could change `_process`, waits for the handler), its `SetState`
another. `DisposeProcess` sits inside the actions whose code calls it.

`System.Diagnostics.Process` is external and modelled from what the code uses of
it: reading `HasExited` on a process that has ended raises `Exited` first;
`Exited` is raised once; handlers run under a lock that `Dispose` takes;
`WaitForExitAsync` completes after the handlers ran. Subscribers return normally.

`EngineLifecycle` sees the controller through `phase <- state` and
`engine <- OwnedEngine` ("none", "on", or "dead" and not yet collected).

### `PacketEngine` and `TcpSplit`

Two threads. The loop's (`pc`) opens the handle, receives, decides and sends;
the cancelling one (`stop`) runs `StopReceiving`, or the loop's thread runs it
when it registers the callback after the cancellation. What is decided about a
packet is one action, since only the loop touches the tracker and the pending
queries; every packet sent is another, since the handle may go between two of
them. `field` is `_handle`, which `Interlocked.Exchange` clears; `driver` is the
handle itself. What is left to send for the packet is `left` (and `fakes`);
`SendFails` is a send that throws, `FailOpen` the `catch` of `Run`,
`FailOpenFails` the exception that leaves it.

A segment is `[flow, seq, length, name, app]`: bytes are positions, a name is
its place, its length and its dots. `TcpSplit` says which pieces a set of
positions makes of a length, as a set; `reverse` is an order among them
(`IsNext`). A flow's requests begin at given sequence numbers (`Starts`); each
may be transmitted again, in another length. `Lapse` makes a tracker's entry
older than its lifetime. `CleanupOccasionally` runs at one operation in 256, so
`Remaining` lets any of the pending queries have been dropped. A query is known
by its client's port and identifier, as in the code.

External: the driver (after a shutdown it hands out what was queued, then
fails; it refuses at most `MaxFailures` calls), the clients, the DNS servers
(they answer any query on the wire, also twice).

Left out: the bytes of fakes and of the rewritten Host header, IP identifiers,
checksums, the HTTP exchange of a DoH query (it answers, or a SERVFAIL is made).

### `HelloReassembly`

The state is a `t_ctrack` entry (`state`, `client`, `server`, `found`, `reasm`,
`delayed`), the two ends of the connection, and what has been observed. The
filter is single threaded, so the handling of a packet is one action; data
segments come in five kinds by what becomes of them (`DataUntracked`,
`DataUnmatched`, `DataDelayed`, `DataCompletes`, `DataPassed`). `Feeds` and `Fed`
are `ReasmFeed`, with its modular arithmetic; `Begins` is the decision to
reassemble; `Rediscover` is `dp_rediscovery`, `Replayed` the loop of
`replay_queue`; `Searched`, `Rediscover` and `Replayed` are in `ProfileSearch`.
Data is counted in units. What profiles and host lists answer is a choice at each
search. Whether the filter sees every packet of the connection is chosen at the
start (`misses`): only then may a segment be lost before it, or an entry be
purged under an open connection; windows in `MissWindows` alone are tried then.

The environment (`Open` … `SynAckAgain`) sends what TCP ends send: new data
within the window, then at most `MaxExtras` disturbances (a packet repeated,
late, or lost before the filter, or a reuse of the tuple).

`PacketPath` sees it through `held <- Ids(delayed)`, `gone <- released`.

Left out of this module: the server mode, the automatic host
lists' failure counting (which sends resets of its own), what Lua does with a
packet, TCP Fast Open, and the window's changes during a connection.

### `QuicReassembly`, `QuicDefrag` and `QuicInitials`

`QuicReassembly` follows one pair of addresses and ports. The handling of a
datagram is one action, by what becomes of it: `Untracked`, `Unmatched`,
`Delayed`, `Replays`, `Passes`. `held` is the queue of delayed datagrams, `reasm`
what `reasm_client` has of their decrypted payloads, `came` and `left` the
datagram of the last step and those that left in it, each with what was done
with it: decided on ("desync"), let through ("plain"), or sent away as the
session is given up ("flushed"). Its guards are written with what `QuicFrames`
*defines* of a stream: whether its frames can be read (`Parses`), where it ends
(`Top`), whether no byte of it is missing (`Full`).

`QuicDefrag` is the function that computes these: it reads frame after frame
into the buffer, clearing what lies between (`zeropos`), takes each new range
once, sorts the ranges, and merges them with the two indices of the code (`i`,
`j`). `QuicInitials` puts the call inside of the handling (`Call`, the loop's
steps, `Return`), and `AnswersTheCall` says that the code's answers are the
defined ones.

Left out: allocations that fail, the addresses of DNS responses, server mode, the
change of addresses behind NAT. Whether an Initial decrypts is given with it.

### `TimerPool` and `NfqMain`

`walk` holds the locals of `TimerPoolRun`: `elem` and the `tmp` that
`HASH_ITER` took before the function ran, which the function may delete (a
function's settings and deletions are steps, of any number). `dirty` restarts
the walk (`MustRestart`), as `timers_dirty` does. The pool is a set of timers,
each with the number it was created under, which orders the walk.

`NfqMain` has one `pc` through the start (`Start(s)` is the sequence of its steps
for a system, with what each acquires), the loop, the load of lists, the walk and
the clean-up labels. A step may fail; `held` is what has been acquired. Signals
are actions of their own (`Hup`, `Term`), enabled between any two steps and within
the blocking calls. The systems differ as the code does: "offline" is
`NoInterceptLoop`, which knows timers only; "windivert" has the logical network
that may go and come, and takes its packet before it looks at `bReload`; after an
ENOBUFS "divert" goes on to the timers. `e`, which nothing initialises
(`nfqws.c:598`), holds any of `Garbage` when a `continue` reaches its test.

Left out: the daemon's fork, the drop of privileges, the socket filters, the
handling of the packet itself (`Handle` is a choice over the timers it sets).

### `HostLists` and `AutoHostlist`

A load goes list by list: `Stat` (mtime and size), `OpenTest`, `Read`, `Sign`
(the signature taken is the one of the `stat` before the read), `Fill`. Others
change, damage and remove files between any two of these (`Edit`, `Access`).
`job` is what the thread is doing and what it will do with the answer: serve a
new connection, recheck a host before adding it, reload at SIGHUP. `Failed` and
`Worked` are the failure counter; `Retransmission`, `PastMaxSeq`, `Refused`,
`UdpPacket` and `UdpReply` are what is judged, each at once; so is the UDP packet
that reveals the host (`Concluded`), by what the two sides have sent before it
(`Before`). `Inserted`, `AppendToFile` and `SignAfter` are the addition, in the
code's order. `added` are the hosts that the program has written to the file,
`log` the times of a host's failures. `lost` marks a list whose last read
failed after its pool had been destroyed. `Edited` is which files others write,
`Accessed` which they close, damage or remove; `AutoKeepsAdded` and `RecheckAvoids`
speak of an automatic list that only the program writes.

Parsing of lines and the trees of addresses are abstracted to sets of items. With
`Distinct`, others never give a file a signature it had before: an edit within a
second that keeps the size is not seen by the code, nor by the model without it.

### `LuaPlan`

`Played` is `play_prolog` with `dp_rediscovery`; `Filter`, `Skip`, `Call`,
`TakeOver`, `PlannedCall` and `Return` are the loop over instances, an instance's
call, and the orchestrators of `zapret-auto.lua`, whose shims have a table of
cut-offs beside the C code's. `Instances` is the plan of the connection's profile,
`Free` that no packet is being handled. Delayed packets (`Hold`, `Replay`) go
through with the positions saved when they came. A Lua error is a result like any
other. Once an orchestrator of the kind "choose" has the plan, or was called in it
(`Choosing`), any of the instances that are left may be passed over: which, is a
choice.

Client mode only; `repeater`, which calls instances more than once, is left out;
the filters by payload are sets; the counters n, d and b are one, and the
positions s and p too.

### `PacketForms` and `PacketSend`

A packet is the sequence of its octets, so that lengths, offsets and moves are
exact; the contents of a header are a record at its first octet. A checksum is
what it was computed over. `Dissect` and `Reconstruct` are the two conversions,
both as the code has them, also where they lose something. `PacketSend` keeps the
options and the rest of one sending (`opt`, `parts`, `next_id`, `wire`).

Both use recursive operators, so nothing is proved about them. Left out: the raw
sockets, what ICMP and other protocols carry.

### `Filters`, `Profiles`, `CaptureFilter`, `Options`

One action per option; `profiles` and `templates` are the lists as the code keeps
them, and `section` the flags of the section being read. `EndOfOptions`,
`ReadLists`, `MakeFilter`, `Save`, `Duplicate` and `Launch` are the steps of the start.
`Passes` is how the driver reads the filter's text (external). The properties
compare all of that with what the text of the options says, and with nothing
else. An option is known by its place in the text. `Own` are the options of a
name that a section has up to a place, `PlacesOf` those with what its imports
bring, in order; `Meaning` is the filter they make, `Accepts` which packets it
takes, `InstancesOf` the instances, each with the settings before it (`Settled`),
`Number` the number of a section among the profiles.

The Windows (Cygwin) build. Left out: users, daemon, debug log, timeouts, the
filters by wireless network, configuration files. The hash by which a second
program with the same filter is found is a choice. The load of the lists is one
step (`ReadLists`): a file may vanish before it, not between two of its readings.

### `Mdig`, `Ip2net`, `ListTools`

A thread of `mdig` is a `pc` per lock and print; the mutex of lines is also that
of output. `resolved` and `failed` are the two logs, `printing` what a thread has
still to print of its line. Both logs are given, and `--stats`. `Ip2net` reads
(`ReadOne`), sorts and merges: `MergeNet` takes the network that `Qualifying`
finds best, in words of `Word` bits, and `left` is the sorted array from `pos` on.
Its writer is any that appends lines and closes (`Write`, `Close`). In `ListTools`
`stdout` of the one is `stdin` of the other, and `IsWriter` says that what is
proved of `Ip2net` with any writer holds for it. The resolver's packets are left
out: a name has one of `Answers`.

## The runs

| Run | Distinct states | Bounds | Shows |
|---|---|---|---|
| `controller` | 133,328 | 2 callers, 2 processes, `Kill` may fail | `SingleEngine`, `Delivers`, `SeenAtRest`, `DisposedIsFinal`, `CallsEnd`, and `Contract`: it implements `EngineLifecycle` |
| `engine_packets` | 728,000 | 3 packets, two TLS flows (one with two requests) and one to port 80, 16 sequence numbers, payloads of 3 and 7 bytes, one failing driver call, three profiles (fakes, marker and QUIC blocked; fixed positions and redirected DNS; named hosts and DoH) | `Delivered`, `FakesOnce`, `NameIsCut`, `AnswersWereAsked`, `StopEnds` |
| `hello` | 390,286 | a hello of 2 units in a stream of 4, segments of 1 or 2, 8 sequence numbers, a queue of 2, windows of 1 and 2, 2 disturbances, up to 3 connections | `TrackerInv` (what is held makes up the beginning of one hello; retransmissions are told), `OneDecision`, `HelloLeaves`, and `KeepsOrder`: it implements `PacketPath` |
| `quic` | 694,841 | a hello of 4 bytes or another message, told by 2; 10 payloads; a queue of 3, a buffer of 4, 3 pieces at most | `AnswersTheCall`, `SessionInv`, `LeaveInOrder`, `DecidedTogether`, `HeldLeave` |
| `nfq_loop` | 955,950 | 4 systems, 2 names, 2 periods, 2 timers created, 3 ticks, one SIGHUP | `TimersOnTime`, `EndsClean`, `SignalsServed` (an end and a reload asked for come) |
| `host_lists` | 2,707,878 | a domain and a host below it, one connection at a time, thresholds of 2, a failure counting for 1 tick of 2, two acts of others (the host list and the ipset are edited, the automatic list is closed, damaged or removed), one SIGHUP | `MemoryInv`, `AddedForCause`, `JudgedOnce`, `AutoKeepsAdded`, `RecheckAvoids`, `ListsReloaded` |
| `lua_plan` | 1,944,989 | 3 packets, one delayed, three profiles of 2 or 3 instances (both kinds of orchestrator, each kind of range), two names | `PlanDecides`, `CutoffSound`, `ProfileOfName` |
| `packet_send` | 141,970 | 14 packets (IPv4, IPv6, every transport, options, extension headers, fragments, torn ones), 2 changes, one sending of 9 kinds, length fields below 192 | `GoesOnAsTold` (a verdict sends what the table says, or what came), `SendsAsAsked` (segments and fragments make up what was to be sent) |
| `options` | 584,026 | eight menus, up to 4 options of each in any order, a list file that vanishes | `ProfilesAsDeclared`, `CaptureAsAsked` |
| `list_tools` | 601,771 | 2 threads, 6 inputs of up to 3 lines, addresses of 5 bits, words of 5 bits, networks of up to half of the addresses | `ReportedOnce`, `StandsForInput` (nothing lost, no address in two networks made, networks filled as asked), `IsWriter`, `ToolsEnd` |
| `controller_lostexit` | | 2 callers | **violated** `ExitIsReported` |
| `nfq_hup` | | as `nfq_loop` | **violated** `HupSurvives` |

*Why the bounds are enough.* Two calls race for the gate, and both may wait behind
one cancelled late; a third adds only a longer wait. Two process slots allow an
orphan (a process whose `Kill` was refused) beside a new engine; `StartCreate` is
not enabled when both slots are orphans. A hello of two pieces with a repeated
piece fills a queue of two; one lost and one late segment make a gap and fill it;
of eight sequence numbers from 5 on, the comparisons cross the wrap, and the
stream is longer than half of them. Ten Initials, any of them again and again,
give the hello whole, in pieces in either order, overlapping, with a gap before
and after, without its first byte, too long for the buffer and too many for the
queue; the ranges of three merge in each way the loop knows. The engine forgets a
packet's handling when it takes the next, and keeps only a flow's number and the
pending queries: of three packets, one can be a hello, one another flow's and one
the first's retransmission; or a query, its answer and the answer again.

Two timers let a function delete the one the walk goes to next, set a new one in
its place, or its own again. Two edits and one SIGHUP, placed at any step of a
load, meet each of the load's reads: one list may stay damaged while one after it
changes, and the automatic list be removed and made anew by an addition.
Thresholds of 2 and counters that live for one tick let a counter expire between
two failures. Three packets reveal a protocol, then a name, and come back with
another name; one delayed packet is replayed after the connection has changed its
profile. Packets of at most 192 octets have real headers, and their length,
identifier and sequence fields are next to their ends. Four options after what
comes first in a menu make a section, a template, its import and another section.
Two threads overtake one another at each lock. Of each family an input has a pair
of addresses that a network is made for and one beside it; the product of the
largest network, of 16 addresses, and the multiplier of 2 overflows words of five
bits, as that of 2^31 and 2 does those of 32.

*Deadlock* is checked in the controller's run and in that of the tools (which
may end). Elsewhere the program ends, a packet reaches its verdict, or the bounds
are used up.

*Fairness.* `EngineController`: a thread that can go on does (continuations and
callbacks run on the thread pool, subscribers return), a killed process exits and
its exit is raised. `SemaphoreSlim` serves its asynchronous waiters in order, so a
call that keeps waiting gets the gate: strong fairness of `Acquire`. Nothing makes
a process exit by itself or a caller call. A `Kill` that is refused lets the call
end, not the process. `PacketEngine`: both threads go on, and a resolver's wait is
bounded by its client's timeout; nothing makes a packet come or the caller cancel.
`HelloReassembly`: a client goes on sending what the window allows, and the entry
of a closed connection is purged in the end; `HelloLeaves` is of connections all
of whose packets the filter sees. `QuicInitials`: a client without an answer goes
on sending Initials, and the handling of one ends. `NfqMain`: the program's steps,
time, and packets that keep coming (`Arrive`), since the code looks at the flags
when `recv` returns; and that not every packet is too large to be received (strong
fairness of `Receive`): WinDivert's loop goes on after such a one without a look
at `bReload`, and would never serve a SIGHUP. `AutoHostlist`: the program's steps,
and connections that keep coming, since lists are looked at when there is one.
`ListTools`: every thread and `ip2net` go on; a resolution ends.

## Findings

1. **Lost exit** (`UnifiedEngineController.cs:102`, run `controller_lostexit`).
   `StartAsync` probes `HasExited` and then sets Running unconditionally. If the
   engine exits in between, the callback's Faulted is overwritten and nobody
   reports the exit again: the application shows protection that is not there,
   until the next Start or Stop.
2. **SIGHUP may end the program** (`nfq2/nfqws.c:598`, run `nfq_hup`). After a
   `recv` that a signal interrupted, `continue` reaches `while(e==ENOBUFS)` with
   `e` never assigned: the loop goes on or ends by what the variable happens to
   hold.

### Divergences met while modelling

The models do what the code does in these places; where a property would be
false there, its comment names the exception.

* Notifications are sent after the lock is released (`UnifiedEngineController.cs:262`):
  the subscriber may be left showing a state the controller has left. It is
  never left showing a rest over a live engine (`SeenAtRest`).
* `docs/ADAPTIVE.md:21` promises SERVFAIL and never the system's DNS under DoH;
  when an answer cannot be sent, fail-open sends the plain query
  (`PacketEngine.cs:66`).
* A tracker entry that begins with the SYN/ACK leaves `uppos` at 0
  (`conntrack.c:278`): if the client's numbers lie in the upper half, every
  segment is taken for a retransmission.
* A SIGHUP during `bReload`'s last load is forgotten (`nfqws.c:84`); a SIGTERM
  between the test of `bQuit` and `recv` waits for the next packet; under
  WinDivert a SIGHUP is served at the next packet, in `NoInterceptLoop` both at
  the next timer.
* A list file that vanishes between the test of the files and the load is taken for
  unchanged (`hostlist.c:148`, `ipset.c:169`): the program goes on with an empty list,
  which lets every host or address through.
* The lists: `docs/manual.en.md:868` says that they are reloaded when modified; while
  a list that is read before stays damaged, `dp_match` returns at each packet before
  it comes to the others (`desync.c:218`), and their changes are not seen
  (`ListsReloaded`).
* The automatic list: the time counts from the first failure (`desync.c:428`,
  `nfqws.c:1902`), not from the previous one (`docs/manual.en.md:892`); the UDP
  packet that reveals a host is judged at once (`desync.c:1413`) and has purged
  the counters of the profile it came by only (`1268`), so that its failure may be
  added to ones that have expired (`AddedForCause`); an edit of the file by others
  is masked by the signature taken after an addition (`desync.c:459`); if the file
  is removed, the next addition makes it anew with the one host, which a SIGHUP
  takes for all there are (`AutoKeepsAdded`); a reload that fails in the recheck
  adds the host even if it has since been excluded (`445`); after such a failure
  the recheck ("rechecking %s to avoid duplicates", `443`) does not see a host
  that the file already has, and it is written twice; a file given as host list
  and as automatic list no longer lets everything through when empty
  (`hostlist.c:172`); after a failed read, an emptied list matches every host
  (`hostlist.c:262`).
* Lua: there are two tables of cut-offs (`lua.c:951`, `zapret-lib.lua:112`), and
  `docs/manual.en.md:2350` speaks of one; `zapret-lib.lua:1197` tests a field
  that is never set (`lua.c:1647`); "seq" identifiers reach 65536 and become 0
  (`zapret-lib.lua:1094`, `1544`).
* Packets: `packet_len` counts TCP options behind "end"; an IPv6 packet with an
  atomic fragment keeps a stale `ip6_plen`; a total length of 65536 is written as
  0; the first IPv6 fragment may be up to 7 octets longer than the MTU.
* `--wf-ipp-...` names the protocol of a packet, and the driver compares the first
  IPv6 header (`nfqws.c:1649`): behind extension headers a packet is not captured,
  though the profiles would take it.
* `--wf-l3`, "L3 protocol filter" (`nfqws.c:1849`), never narrows the filter: IPv4
  and IPv6 start as true and are only added to (`nfqws.c:2245`, `1418`). Port "0"
  in a list denies in `pf_match` and means every port in the driver's filter
  (`nfqws.c:1579`). Lists given before `--skip` stay registered. The hash of the
  filter leaves out the interface, the IP versions, `--wf-filter-lan`,
  `--wf-filter-loopback` and `--server` (`nfqws.c:1864`).
* `ip2net`: the product of addresses and multiplier is of 32 bits
  (`ip2net.c:485`), so that of a /1 two thirds are none, and two addresses make it;
  the help says "more than mul/div" and "more than N" (`213`-`215`), the code is
  content with the share, rounded down, and with N, as the comments have it (`27`-`35`).
  `Filled`, a part of `StandsForInput`, says what holds.

## The proofs

Each theorem below is of the specification that the runs check, for every value
of the constants that satisfies the assumptions named with it. Bounds that the
runs need (`Max...`) are constants too: what is proved holds for any of them. The
form is always the same: an inductive invariant, one lemma per action that keeps
it, and the properties drawn from it.

**The controller** (`EngineControllerProofs`): any set of callers and processes,
`Kill` failing or not.

* `Inductive`, `TypeCorrect`, `OneEngine` (`SingleEngine`), `RestsProperly`
  (`AtRest`), `CallsDeliver` (`Delivers`: what a Start and a Stop leave),
  `SeenProperly` (`SeenAtRest`: what listeners last saw, once all is delivered).
* `DisposeIsFinal`: the action property `DisposedIsFinal`.
* `KeepsContract`: `Spec => Contract`, the refinement of `EngineLifecycle`.

*Assumptions*: `CallersAssumption` (the null values are none of the callers and
processes, and a caller is not a process) and `KillAssumption`.

*Argument.* `AtRest` is not inductive: it says nothing while a call is inside.
`IInv` adds what the holder of the gate knows at each of its points (`CallInv`),
that exactly the caller inside holds the gate (`GateInv`), how process objects
agree with their processes (`ObjectInv`) and what remains after disposal
(`DisposedInv`). The delicate conjunct is `EngineUnder(s)`: from launch to
declaration the state is Starting *or what the exit callback made of it*, and is
Starting while the process is alive. It is what the early code of `StartAsync`
relies on without saying, and where the lost exit shows: it does not survive
`StartDeclare` but as `RestInv`, which asks nothing of a dead process. `SeenInv`
adds, for `SeenAtRest`, which notification is on its way from which thread; the
refinement maps each step to a step of `EngineLifecycle` or a stutter.

**The packet engine** (`PacketEngineProofs`): any flows, options, names, servers,
sequence space, numbers of packets and failures.

* Of `TcpSplit`, for any positions and length: the pieces are within the payload
  (`PiecesType`), hold each byte (`PiecesCover`) and hold none twice
  (`PiecesDisjoint`); the middle of a name's main label lies inside of the name
  (`MiddleIsInside`).
* `Inductive`, `TypeCorrect`, `SegmentsDelivered` (`Delivered`), `FakedOnce`,
  `NamesAreCut`, `AskedOnly` (`AnswersWereAsked`), `HandleClosedOnce`.

*Assumptions*: `SplitAssumption` (positions and counts are naturals, payloads
are not empty, dots lie within names), `FlowsAssumption` (a flow's requests have
distinct sequence numbers), `NullAssumption`, `PacketsAssumption` (the null value
is none of the names, servers and packets; the redirection's target is not one
of the system's servers), `EngineBoundsAssumption`.

*Argument.* `Delivered` says nothing while a packet is being handled. `SentInv`
does: what is left and what has been sent are together what was planned, each
item once, and after a failure there is the whole packet too; the tiling of
`TcpSplit` turns this into bytes. `FakesOnce` needs `FakeInv`: a flow that has
been faked is one whose tracker entry is its current request, and the fakes still
to send fit into the count. `AskedInv` carries "was asked" from a query to the
pending entry or the wire and from there to an answer. `HandleInv` says who owns
the handle: `field`, or the thread that exchanged it.

**The TCP hello** (`ProfileSearchProofs`, `HelloReassemblyProofs`): any sequence
space, stream, hellos in it, windows, sizes and number of disturbances.

* `PiecesHeld` (`EntryInv`), `RetransmissionsTold`, and with them `EntryHolds`
  (`TrackerInv`): what is held is the beginning of one hello, and where the entry
  has seen the SYN, `uppos` is the end of the highest data seen, across the wrap.
* `OrderKept`: `Spec => KeepsOrder`, the refinement of `PacketPath`.
* `DecidedOnce`: the action property `OneDecision`.

*Assumptions*: `SizesAssumption` (`MaxBack`, the window behind `uppos` that counts as
repeated, and `MaxLag` are less than half of the sequence space; the
buffer is no larger than the space), `StreamAssumption`, `BoundsAssumption`. The
stream may be of any length. What the environment does not send is a segment
further than `MaxLag` from the highest data that the connection's entry has seen
(`Near`): one that half of the sequence numbers separate from it, two gigabytes, is
taken for its opposite by the code too.

*Argument.* Lemmas on `Plus` and `Minus` reduce the modular comparisons to
differences of positions of the stream as long as these are within half of the
space. `EntryInv` and `RetransmissionsAreTold` are inductive together: a segment
is fed to the buffer or not by its distance from what was fed, and that the
distance is right needs `uppos`. Each step is shown to send on (`Moves`) what a
`Take`, `Flush` or `Forget` of `PacketPath` allows. `OneDecision` needs that a
search repeated with nothing new to know answers as it did (`ReplayedAlike`): the
first replayed piece may reveal a name and change the profile, and the others find
the discovery made.

**The QUIC hello** (`QuicProofs`): any hellos, payloads, sizes of queue, buffer
and stream.

* `Inductive`; `DefragAnswers` (`AnswersTheCall`): `QUICDefragCrypto` fails
  exactly on what cannot be read, and calls the stream full exactly when no byte
  below its end is missing, for any pieces in any order and any sort.
* `CallsAreInside`: the handling with the call's loops inside implements the
  handling in one step that is told the defined answer.
* `SessionInvariant` (`SessionInv`), `QuicInOrder` (`LeaveInOrder`), `QuicDecides`
  (`DecidedTogether`).

*Assumptions*: `FramesAssumption`, `QuicAssumption` (a hello is at least as long as
what tells it; a payload fits into the buffer).

*Argument.* While frames are read, the ranges are the pieces read, each once, the
buffer is data where a piece is and zero elsewhere up to `zeropos` (`ScanInv`).
While ranges are merged, those merged and those still to come cover what the pieces
cover, the merged ones leave gaps between them, and the others begin at or after
the last one (`MergeInv`): with one range left that begins at zero there is no gap,
with more there is one. `SessionInv` is inductive as it stands; `CallInv` ties the
frames of a call to the held datagrams.

**The main loop and the timers** (`NfqMainProofs`): any timers, names, periods,
packets and signals, and each set of the four systems.

* `LoopInvariant`, `OnTime` (`TimersOnTime`), `LeavesNothing` (`EndsClean`).

*Assumptions*: `TimerAssumption`, `NfqMainAssumption`.

*Argument.* `WalkKept` says what the walk's locals are worth: it stands on a timer
of the pool, `tmp` is the next one, and `min` is the least of those passed. It
holds *as long as no function has touched the pool*; once one has, `dirty` is set
and the walk begins again before the locals are used (`WalkSound`). `WaitKnown`
carries the walk's answer to the wait of the loop: right, or known to be stale.
`HoldsKnown` ties `held` to the clean-up of each system.

**The capture filter** (`NfqMainProofs`): any menus of options, in any order and
number, and any packets.

* `CaptureKept` (`CaptureInv`), `CapturesAsAsked` (`CaptureAsAsked`).

*Assumption*: `MenuAssumption` (a list is given as a sequence of items, a flag as
a truth value; no port of a packet on the wire is 0). The raw filter, which
replaces what the other options say, is outside of the property.

*Argument.* `CaptureAsAsked` speaks of the last option of each kind and of the
filter that runs. `WfInv` says, while options are read, that what is kept of each
is what the last one said, that what is kept of the parts is all of them, and that
a list is kept only if it was not refused; `Latest` is followed over one option
more (`LatestGrows`). With items that parse, the clauses of the filter, which are
written from ranges of ports, are compared with the items item by item
(`PortItem`): they differ only for "0". `SidesAreTaken` is the part about the
direction: the list of the packet's direction looks at the port that
`setup_direction` gives to the search, in both modes, and the list of the other
direction at the same one.

**The profiles** (`NfqMainProofs`): any menus of options, in any order and
number, with templates that import templates, any files, any packets.

* `ProfilesKept` (`ProfilesInv`), `ProfilesDeclared` (`ProfilesAsDeclared`).

*Assumptions*: `MenuAssumption` (a filter is given as a sequence of items, and
`--filter-l3` names a version; no list file has the empty name, which is how the
code marks a list of the command line; the port a profile is looked for with is
not 0) and `FilesAssumption` (a file has a content).

*Argument.* `ProfilesAsDeclared` speaks of the program that runs. `ProfilesInv` is
what each stage of the start has made of the options: `BuildInv` while they are
taken, `EndInv` once the last section is closed, numbered and given its defaults,
`LoadInv` with the lists read. A profile is `Built` when each of its fields is
what its section says up to its end: its instances, its filters, the lists of its
files, the list of its command line. The delicate conjunct is `AnonBuilt`, on the
list that `--hostlist-domains` and its kin add to: it is of the section that is
written and of one collection, so that what is added goes nowhere else; a profile
that was closed and a template that can be imported do not have it. A list of a
file is shared by all that name the file, and its `auto` mark with it, which
`HostsIn` says too. One lemma per option shows what it does to a `Built` section.
The reference walks the text (`PlacesOf` is a recursive function); where its
values at two lengths of the text are compared, the least place at which they
differ gives the contradiction, so that no induction theorem is needed. For the
search, `MatchIs` shows that `DpMatch` of a profile with its defaults and lists
is `Accepts`, and `SelectIs` that the first in the list is the first in the text,
by the ranks of the ends of sections.

**The automatic host list** (`DesyncProofs`): any hosts, domains, contents,
connections, thresholds, and edits.

* `ListsInvariant`, `Deserved` (`AddedForCause`), `Judged` (`JudgedOnce`),
  `StaysAdded` (`AutoKeepsAdded`), `Rechecked` (`RecheckAvoids`), `MemoryAsRead`
  (`MemoryInv`, under `Distinct`).

*Assumptions*: `ListAssumption`, `AutoAssumption`; `MemoryAsRead` has `Distinct` as
hypothesis, and needs it: an edit that keeps time and size is not seen by the code.
`StaysAdded` and `Rechecked` say something where others do not write the automatic
list (`"auto" \notin Edited`, in the properties themselves): a reload throws away
what others have overwritten.

*Argument.* `CountedInv` relates the counter, which has a number and a time, to the
log of failures: the last `n` of them, expiring with the first. `SignedInv` follows
a load through `stat`, `open` and `read`: with `Distinct` the signature taken before
the read is the file's afterwards only if nobody wrote in between. `FilledInv` is
why an emptied list does not catch every host: it is filled before it is looked at.
`StaleInv` is why the hosts of the file stay in memory: the file is read again only if
its signature is another, which only the program's own addition, a SIGHUP or a failed
read brings about when nobody else writes it.

**The Lua plan** (`DesyncProofs`): any profiles, plans, ranges, names, search,
packets.

* `PlanInductive`, `NameDecides` (`ProfileOfName`), `CutOffForCause`
  (`CutoffSound`), `PlanCarriedOut` (`PlanDecides`).

*Assumption*: `LuaPlanAssumption` (plans are sequences of instances with ranges;
positions are naturals; the null values are none of the names and profiles).
`PlanDecides` asks that, unless an instance fails, each is called that is `Due`: it
passes its filters, is not cut off, and no orchestrator that chooses and wants the
packet stands before it.

*Argument.* `PlanIInv` adds to `CutoffSound`, which is inductive with the types:
positions are those of a tracked connection, and those saved with a delayed packet
are not ahead of them (`PositionsInv`), so that what is past the end of a range at
a saved position is past it at the present one; the profile is the
answer of the search for the name revealed (`TrackInv`); what has been called lies
behind the loop, and what an orchestrator has still to call before it (`RunInv`,
`CalledInv`); the verdict is the greatest of the answers (`VerdictInv`).

**The list tools** (`ListToolsProofs`): any widths, word, options, lines, numbers
of threads, files and answers.

* `ip2net`, with any writer, and memory running out at any moment: `Inductive`,
  `InputKept` (`Kept`), `NetsDisjoint` (`Disjoint`), `NetsFilled` (`Filled`),
  together `OutputStands` (`StandsForInput`).
* `mdig`: `MdigInductive`, `LinesAndCounts` (`ReportedOnce`).
* The pipe: `Piped` (`IsWriter`: `mdig` implements the writer), and by it
  `PipelineStands`: `StandsForInput` of the two joined.

*Assumptions*: `Ip2netAssumption` (`Pow2` holds the powers of two up to the widths
and the word; what is numeric is a natural number), `PipeAssumption` (there is a
thread and a line to count; files are sequences of lines, and valid networks in
them and in the resolver's answers are lines that `ip2net` reads).

*Argument.* `Kept` speaks of the end. `ReadInv` says that what has been read is
among `listed` or has been passed on, `MergeInv` that an address no longer in
`left` lies in a network made; at the end all has been read and nothing is left.
`Filled` is inductive with the types: a network is made only where `Qualifies`
held, and what it compares with is the product reduced to a word. `Disjoint` needs
`Apart`: no network made holds an address that is still in `left`, and none that
holds a network made can still qualify, by the arithmetic of aligned blocks. In
`mdig`, each line read is
empty, in one log once, or with exactly one thread (`LogInv`); the number counted
is the number read less the threads that have still to count, a cardinality
(`CountInv`), so that at the end, with no thread left, each multiple of `Every` is
among the lines shown, or with the one thread that is to show it (`ShownInv`).

*Only model-checked.* Liveness, which rests on fairness and ENABLED: `CallsEnd`,
`StopEnds`, `HelloLeaves`, `HeldLeave`, `SignalsServed`, `ListsReloaded`,
`ToolsEnd`. `GoesOnAsTold` and `SendsAsAsked`:
`PacketForms` walks headers and options with recursive operators, which the
provers cannot take, and what these compute for every packet would be an
induction over data.

## Not modelled

* The desktop application, the Windows service manager and the benchmark: their
  state is the framework's, the service database's or data; what they ask of the
  controller is any order of its calls, which `EngineController` has.
* The engine's host and its options: start-up code and parsing.
* Dissectors of payloads, cryptography and the platform layers: conversions and
  system calls. Where another module asks them something, the answer is a choice.
* Server mode in the reassembly, UDP protocols other than QUIC, the hash pool of
  the tracker and the IP cache.
* The strategies of `zapret-antidpi.lua` themselves: programs over the functions
  that `PacketSend` and `LuaPlan` model.
* Shell scripts: their state is the host's firewall.

## What is left

In this order:

1. Proofs: `PacketForms` with functions in place of its recursive operators, and
   what of `SendsAsAsked` needs no induction over headers; the exit that is lost,
   as a theorem on which engines `Running` may show.
2. The automatic list's `SignAfter` as a run of its own, and the server mode of
   `LuaPlan`.
3. `EngineOptions` (`--tls-split`).
