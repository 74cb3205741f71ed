# A TLA+ model of netTester

netTester measures a network between two hosts over UDP. One process is the
server (`nettester -s`); any number of others are clients (`nettester -c host`)
and run one test each: an RTT test, or with `-b` a bandwidth test. This
directory models the protocol between them, each process from its command line
to its exit, and the logging library it carries; it checks the models with TLC
on small instances and proves part of them with TLAPS for all instances.

## 1. Inventory

### Parts, their state and what they do

| part | source | state | operations | module |
|---|---|---|---|---|
| Server | `src/Server.cpp` | `testIdGen`, `currentTest`, the locals of `bandwidthTest`, the socket's last sender | one turn of `start()`, one turn of `bandwidthTest()` | Server |
| Client | `src/Client.cpp` | test id, message counter, rounds left, send loop | `startRtt`, `startBandwidth` | Client |
| Pacing | `src/Client.cpp:150-215` | packets sent, time passed, planned sleep | check of the arguments, a group, the end of a turn, the sleep | Pacing |
| Messages | `include/Message.h`, `seeker/common.h` | static send buffer, packet patched in place, receive buffer | write, patch, send, clear, receive, read | Message, MessageCodec |
| UdpConnection | `src/UdpConnection.cpp`, `seeker/socketUtil.h` | socket, addresses, `inited` | `init`, `sendData`, `reply`, `recvData`, `close` | Network, Connection |
| main and options | `src/main.cpp`, `src/cmdParser.cpp` | the options' results | choice of the program, exit | Program, CommandLine |
| cxxopts | `include/cxxopts.hpp` | `argv` compacted in place, `m_results` | loop over the words, defaults, integers, help | CommandLine, IntegerParser, HelpText |
| Amounts | `src/Server.cpp:32-66` | - | `formatTransfer`, `formatBandwidth` | Formatting |
| seeker headers | `seeker/common.h`, `seeker/database.h` | the database's singleton | string helpers; `init`, `exec`, `perpare` | Strings, Database |
| Logger | `seeker/logger.h` over spdlog's registry, loggers, pool, queue, flusher | registry, loggers, queue, file | `init`, log, flush, worker, destructors | AsyncLog, CircularQueue |
| Sinks | `spdlog/sinks` | files, counters, rings | daily, rotating, basic, filter, distribute, backtrace | FileSinks, Filters |
| Pattern | `spdlog/details/pattern_formatter-inl.h` | compiled formatters, caches | compile, format, colour | PatternFormatter |
| fmt | `spdlog/fmt/bundled` | parser and handler, buffer | parse, check, compile, run; integers, floating point | FormatString, NumberText |

### How they interact

Client and server share nothing but datagrams. The server's thread is in one of
two loops that read the same socket: `start()`, and inside the handling of a
bandwidth request `bandwidthTest()`, which takes packets and the finish of its own
test and drops everything else. Replies go to the sender of the datagram received
last. A client sends, then blocks in `recvfrom` without a timeout and takes whatever
comes for the answer.

Within a process `main` parses, sets up the logger, makes a `Server` or `Client`
around a `UdpConnection`, and a bandwidth client paces itself by the clock. Only the
logger has threads of its own: a flusher, and in asynchronous mode a worker behind
a bounded queue; they share the registry's and the flusher's mutexes.

### What is hard, and what makes it correct

* Several clients are served by one thread: their datagrams interleave, and what
  belongs to an earlier test arrives during a later one. Tests must stay *isolated*.
* UDP loses, duplicates and reorders. The printed results must be what they claim:
  a loss is a number of packets, a jitter a spread of delays, an RTT the round trip
  of the packet it is printed for.
* Time: the server gives up on a test by its own clock. It must never give up on a
  client that still sends, and a test must end; the client must keep its rate.
* State that outlives its use: buffers and an `argv` that are reused while they are
  read, a socket after `close()`, a cached date, a pool and a registry that are
  destroyed while threads or destructors may still want them.
* Limits: a full queue under a lock, a ring that wraps, narrow integers, digits that
  carry into one more digit.
* Failures: a receive, an open, a rename, a write or a sink that fails; a kill.

Every hazard is listed with its line and its properties in `PROJECT.json`.

## 2. Modules

```
Message <- Network <- Server \
                   <- Client  > NetTester <- MCNetTester              (TLC)
                TestService  /   <- NetTesterProofs

CommandLine, Connection, Pacing <- Program \
MessageCodec, IntegerParser, HelpText,      > Process <- MCProcess    (TLC)
Formatting, Strings, Database              /   <- CommandProofs <- ProcessProofs
                                                                <- CodecProofs
                                                                <- HelperProofs
CircularQueue <- AsyncLog \
FileSinks, Filters,        > Logging <- MCLogging                     (TLC)
PatternFormatter,         /          <- LoggerProofs <- SinkProofs
FormatString, NumberText /
                LogService

FoldProofs <- CommandProofs, LoggerProofs
```

A definition whose comment begins with *Mutant* is a broken version of the one that
follows it. Nothing uses it: put in the place of the original it makes the property
fail that `PROJECT.json` names, which shows that the property depends on that code.

### The protocol: NetTester

* **Message**: the six datagrams as records. A receiver that does not look at the
  type of a datagram reads its words at fixed offsets all the same (a client takes
  a second confirmation for a report and reads its packet count from offset 19), so
  the words at 15 and 19 are kept by offset (`w15`, `w19`). `ToTestId` and `ToInt`
  are the narrowing of wider values into the fields.
* **Network**: the datagrams in flight as a set, the clock, and the counters that
  bound failures. `Exchange(d, sent)` is one `recvfrom` that returns `d` together
  with what its handler sends; it may leave a copy of `d` behind. Delivery is in
  any order; `InOrder` asks for order per client, where a run wants to show that
  reordering is *not* needed to refute something.
* **Server**: one action per branch of the two loops. `sPc` says in which loop the
  thread is (`"down"` when the process has ended). `issued`, `reported`
  and `abandoned` are history variables: they decide no action.
* **Client**: one action per send, receive and end of `startRtt` and
  `startBandwidth`.
* **TestService**: the abstract specification, a server without network, clock or
  statistics: fresh ids, one bandwidth test at a time, nothing accepted meanwhile,
  at most one report per test, sent when it ends and to whom it was confirmed.
* **NetTester**: the composition, the properties, the refinement of TestService.

### One process: Process

What NetTester leaves out of a process, with the other side of the network left
open: what a receive returns is a choice. The modules share no state except inside
Program, so a behaviour exercises one of them (`part`).

* **CommandLine**: a word of `argv` is what the option's regular expression and the
  parsers of values make of it. One action per branch of `ParseResult::parse`; the
  array is compacted in place while it is read; `given` keeps what it was.
* **Connection**: `init` with either port, with both or with none, a `bind` that
  fails, `socket` and `sendto` whose results nobody looks at, `close`.
* **Pacing**: every millisecond is a step (`PassTime`); `late` is a history of the
  milliseconds that passed while there was something to do, so that properties can
  say what is due to the code and what to the machine. The division of doubles is
  exact or one below (`AheadTimes`). The limits of rate and length are `assert`s,
  which the default build (RelWithDebInfo) compiles out, so `Admit` is both builds: a
  test beyond them runs, or the process aborts. A rate that large can outgrow two
  ints: `packestPerGroup` then is `INT_MIN`, `totalPkt` wraps, and `overflowed`
  remembers that it did.
* **Program**: `main` around the three, to `"closed"` (through `client.close()`) or
  `"exit"`.
* **MessageCodec**: fields, little-endian bytes, the static buffer cleared after each
  send, a packet patched in place, a receive buffer that keeps old bytes.
* **IntegerParser**: `integer_parser`: the pattern, then one digit at a time into a
  number that wraps, then the sign.
* **HelpText**: the two passes of `help_one_group` and `format_description`'s loop.
* **Formatting**, **Strings**: the formatters of amounts and the string helpers.
* **Database**: threads that call `init`, `exec` and `perpare`; the compiler's guard
  of the function-local static as a lock, the unguarded flag as two steps.

### The logger: Logging

* **AsyncLog**: three threads (program, flusher, worker). A critical section without
  a wait in it is one step; the two mutexes `flush_all` can block under are
  variables. The file is what is on the disk and what is in the FILE's buffer.
* **CircularQueue**: spdlog's ring as a record with `head`, `tail` and one free slot.
* **LogService**: the abstract log: what is accepted reaches the file once and in
  order, a failed write is reported, closed means nothing is left, a kill leaves a
  prefix. `Implements` maps AsyncLog to it: what is pending is the FILE's buffer,
  the worker's message, the queue and the call under way, in that order.
* **FileSinks**: the three file sinks, file calls that fail, restarts.
* **Filters**: levels, backtrace, the duplicate filter, the distributing sink, the ring.
* **PatternFormatter**: compiling a pattern and writing a line through it; a cell of
  a text remembers the second it was computed for, so a stale cache shows.
* **FormatString**: one parser and four handlers; a string goes through all of them
  and through the run of its compiled form.
* **NumberText**: digits counted, reserved, written; Grisu's digits with a rounding
  that may be undecided, `snprintf`'s as the number printed exactly.

### What a step of the protocol is, and what is abstracted

* A step of the server or of a client runs from one blocking call to the next.
  Between two calls of `recvfrom` a thread touches nothing that another process
  sees except what it sends, and a send is one step, so nothing is lost by that.
* A handler reads the clock once. The code reads it up to three times within a
  turn; the readings may straddle a tick only where the model, too, allows a tick
  before the turn.
* There is one clock unit for milliseconds and microseconds; `Skew` is what the
  clients' clocks differ by. Sleeping is time passing before the next turn, so a
  client may also oversleep, and how many packets it sends per unit of time is
  left open within `MaxPackets`.
* Two equal datagrams in flight are held as one: the copies of a duplicated
  datagram are told apart only by their number, which `MaxDup` counts.
* The packet's bytes, the filler, `transferByte`, `totalRecvByte` (the packet
  count times a constant length) and all log output are left out, except the loss,
  which a property is about.
* Dividing by `passedTimeInMs = 0` is undefined behaviour: the model chooses
  between a trap (`BandwidthTrap`) and going on with some quotient (`BandwidthEnd`).
* An exception that reaches `main` ends the process: `sPc = "down"`, `cPc = "failed"`.
* After an RTT test or a report the client's process ends and its socket closes; what
  still arrives for it stays in `net`, unread.

### What is abstracted in the other two

* Texts are sequences of cells or small records; what no property tells apart (names,
  wording, colours' codes) is a model value.
* What another program decides is a choice: which call of the system fails, what a
  datagram holds, when a thread runs. `MaxFileErrors`, `MaxFailed`, `MaxThrown` and
  `MaxRestarts` bound how often.
* The program logs `MaxLogged` messages and the destructor's one; when it ends, or
  whether it is killed, is open.

## 3. Properties and runs

### The protocol

These runs instantiate `MCNetTester`. `IdSpace` stands for 2^16, `IntMax` for
`INT_MAX`, `Second` for 1000.

| run | instance | shows |
|---|---|---|
| TwoTesters | 2 bandwidth clients, 1 duplication, 1 failed receive, any order, clock to 5 | `TypeOK`, `TestIsolation`, `TimeoutSparesSender`, refinement of `TestService` |
| NoDuplicates | 1 RTT and 2 bandwidth clients, 2 packets or rounds each, any order, 1 loss, clocks 2 off | `LossIsACount`, `RttReplyMatches`, `JitterIsSpread` |
| RttLiveness | 2 RTT clients, 3 rounds each, everything is delivered | `RttCompletes` |
| TestLiveness | 2 bandwidth clients, everything is delivered, delays beyond the grace | `TestEnds`, `TesterIsServed` |

The bounds let the interesting cases happen. Two clients are enough for one to
disturb the other, since every property is about a client and one other; a test of
one second with a grace of one second and a clock to 5 times out with both clients
still under way; two packets give a first and a last arrival, a spread of delays,
and room for one to be late; one duplication can make a ghost test, a second
confirmation or a packet counted twice. `MaxTime` only stops the clock when no
send loop is waiting for it, so no client is held up by the bound; `MaxPackets`
keeps a client from starting a group, never from finishing.
`CHECK_DEADLOCK FALSE` everywhere: the system does stop, when the clients are
done or wait for an answer that was lost and the server waits for requests.

**Fairness** (`FairSpec`): the server's receives, each client's steps and the clock
are weakly fair; that is a scheduler that runs every thread and a network that
delivers what it does not lose. Nothing is assumed of losses, duplications and
failing receives. The liveness runs allow none of those, except that `LostFinish`
allows one loss.

### One process

Run **Process** takes every command line of up to three words out of 24 (each way to
write an option, values that parse and that do not, numbers in and out of range)
through the program, and each helper through its inputs. It shows

* `CompactionKeepsUnread`, `LastTextWins`: no word is overwritten unread, and what
  `main` asks is what was typed last. (A default does not count, which is why the
  256K of `-b` is never used, and `--server=false` still starts the server.)
* `RateNotExceeded`, `RateKept`, `FinishOnTime`: never more than 6 ms ahead, behind
  only by the time lost, and finished within a group and 6 ms of the end; at any rate
  and in either build, as long as the two ints hold (`IntsHold`).
* `ResultIsPrintable`: which tests have a time and packets to divide by, by how much
  the rate printed may exceed the rate asked, and when it fits the `uint32_t` it is
  passed as. It rests on no assertion of the code and allows any lost time, which is
  taken off the test. With the code's constants a test that keeps two seconds prints
  any rate up to 33 Gbit/s rightly; `-b 100G`, which the default build accepts, is
  beyond that, and its figure is cut to 32 bits. A test of 0 seconds divides by 0.
* `SocketDiscipline`, `EndpointIsNamed`: the socket is used between `init` and
  `close`, and the port named is the port used if it fits 16 bits.
* `RoundTrip`, `SendBufferClean`, `PatchedAsRebuilt`: bytes read back as what was
  written and no datagram carries old ones.
* `IntegerExact`, `WrapKeepsText`, `PrintedIsMeant`, `HelpersKeepText`,
  `DatabaseIsOpen`: see the comments in the modules, which also name the inputs for
  which the code is *not* exact (a long word after a break in the help; a transfer of
  at most 1 KB printed in Gbytes). `IntegerExact` covers every refusal (by the
  pattern, at a digit, by the test for the wrap, for the sign), and says which numbers
  beyond the unsigned type slip through: none up to 10/9 of it, but 9999999999 is
  read as 1410065407. `HelpersKeepText` says what `trim` does to a string that begins
  with blanks: as many places stay behind its last letter, or it throws.
* `EndsOrWaits` (liveness): every process ends or waits for a datagram.

Three words are enough for an option, its value and one word more that is kept,
repeated or wrong, and for a bandwidth client with a rate or a length of its own. A
second has 25 ms, so a group of 5 ms is a fraction of it (`LongSecond` asks for more
than 10); tests last 0, 1 or 2 seconds, of which the assertion allows 1. The rates are
0, 1, 4, 7 and 124 packets a second (the last two from a negative `-b`, beyond the
assertion's limit), so a group is empty, a part of a packet, one packet, several, or
more than an int holds; ints end at 15, which the packets of two seconds can pass.
`MaxLate = 3` exceeds the 2 ms by which a sleep is shortened. A byte of a message has 8
values; the word of the integers read has 32, and they have up to four digits of
either base, letters and characters that are neither, past the wrap. Three threads
are needed for one that builds the database, one that waits and one that comes
after a failed open.

**Fairness**: the program's thread and, while it paces itself, the clock are weakly
fair. That a datagram comes is not assumed, so waiting for one is an end.

### The logger

Run **Logging**: a queue of 2, two messages and the destructor's, one failed write.

* `LoggerAlive`: whoever posts finds the pool, whoever writes finds the file.
* `WarnIsFlushed`: a warning is on the disk when its call returns or the worker is
  done with it, so a crash loses at most what was still queued.
* `Implements`: the whole is a `LogService`.
* `ReachesFile`, `ShutdownEnds` (liveness): no message stays behind, and the
  destructors end, although the flusher posts to a full queue under two locks.
* `FilesKeepOrder`, `FieldsInPlace`, `FiltersLoseNothing`, `FormatStringsAgree`,
  `IntegerTextExact`, `FloatTextExact`: as their comments say.

A queue of 2 is full with a message and a flush and wraps after three posts; three
records and sizes of 1 and 3 against a limit of 3 rotate by one and by several;
days of two steps have a rotation at midnight and one before. Patterns hold every
flag, format strings every kind of field, right and wrong; numbers lie at the edges
of an int of 12 bits, of a count of digits, of a tie and of a carry.

**Fairness**: the flusher and the worker are weakly fair. The program's fairness is
strong: each time it looks the flusher may hold the map's mutex, but it waits two
seconds between its rounds, so the mutex is not always gone. That the program logs
or ends is not assumed.

Where the vendored code is not exact, the property's comment names the case and its
formula leaves just that out: padded `%D`, `%c` and `%E` tell the padder a size that
is not their text's; `{:#.0f}` at a tie, `{:.0g}` at a tie and `{:.1g}` of 0.001
come out wrong; a named or dynamic argument is not looked at by the compile-time
check; a missing argument throws only uncompiled.

### Where the code does not do what is written

Each of these runs ends with TLC's counterexample; the quotes are in `PROJECT.json`.

* **OneTest**: the README's constraint is one test at a time, but an RTT test does
  not occupy the server, which confirms a second one meanwhile.
* **BusyServer**: a request during a bandwidth test gets no answer at all, neither
  yes nor no; the client blocks.
* **SlowRate**: at a rate below one packet per second the client sends no packet and
  the server divides by zero when the finish comes. The same happens when all
  packets fall into one millisecond or the finish overtakes them.
* **DuplicatedPacket**: duplicates are counted, the loss gets negative.
* **FarClocks**: clocks more than `INT_MAX` microseconds apart make the jitter wrong.
* **LostFinish**: the server waits for ever in a test whose finish was lost, as the
  timeout is looked at only after a receive. (A lost confirmation does the same,
  and there the timeout is not even armed.)

The limits of rate and length hold only where assertions are compiled in
(`Client.cpp:130,133`); no run refutes them, since `Admit` says so itself.

`RttReplyMatches`, too, is false once datagrams are duplicated: a second
confirmation is then printed as an RTT reply. That is why its run has `MaxDup = 0`.

## 4. What is proved

TLAPS proves the following for all values of the constants that satisfy the named
assumptions. No invariant is assumed: each theorem is `Init`, every step, and a
temporal QED. Where a theorem about the protocol has a premise, a run of section 3
shows that it is needed; elsewhere the property's comment says what fails without it.

**The protocol**, for any number and kinds of clients, any width of ids, grace,
duration, faults and order of delivery (`NetTesterProofs`):

* `TypeCorrect`: `Spec => []TypeOK`. One lemma per process; what the constructors
  build and what the echo returns has the type of a datagram, and the network holds
  nothing else.
* `Isolation`: `Spec => []TestIsolation`. `TestIsolation` is not inductive: that a
  fresh id is fresh needs that the generator is past all ids issued (`IdsBelow`), and
  that a client's packets are its own needs that the id it took from its first
  datagram is its own (`ClientsOwn`), which in turn holds because whatever is in
  flight to it belongs to it (`DatagramsOwned`). `IsolationInv` is their conjunction,
  under the premise `NoWrap`; `NoWrapBefore` carries the premise back over a step,
  since the generator only grows.
* `Refinement`: `Spec /\ []NoWrap => ImplementsTestService`. `running` is the
  refinement mapping: the test issued under `currentTest` while the server is in
  `bandwidthTest`. A request is a step `Accept`, the four ways to leave a test are
  steps `End`, all else stutters. Beyond isolation it needs that the running test was
  not reported yet (`ReportInv`).
* `RoundTripIsOwn`: `[]RttReplyMatches`, if `MaxDup = 0`. A client and the server have
  at most one datagram between them (`OneOutstanding`), none while the client is about
  to send (`NoneOutstanding`), and while it waits that one is the packet of the round
  or its echo (`EchoOutstanding`).
* `TimeoutSpares`: `Spec => []TimeoutSparesSender`. The server counts from the first
  packet it gets, the client from its confirmation. They are related because a packet
  in flight was sent after its client's confirmation (`NetTimely`), no client's start
  is in the future (`StartsPast`), the duration in the request is the client's
  (`TestTimed`), and by isolation the packet that starts the server's count is the
  tester's (`TesterTimed`).
* `JitterBoundedBySending`: `[]JitterIsSpread`, if `-Skew` fits an int (FarClocks). On
  top of the above: a packet's stamp is its client's clock when it was sent
  (`PacketsStamped`), before the first one the extremes are where they start
  (`NothingMeasured`) and afterwards between `-Skew` and the time the client has been
  sending (`DelaysBounded`).
* `LossBoundedBySent`: `[](NoWrap => LossIsACount)`, if `MaxDup = 0`
  (DuplicatedPacket). The client subtracts a word of whatever comes after its finish,
  so that must be its report: the handshake is one datagram, gone before a packet is
  sent (`Phases`). And what a report counts was sent: the packets counted and those in
  flight are together no more than those sent (`FlightCounted`, `TesterCounted`,
  `ReportsCounted`, by cardinalities).

**Folds** (`FoldProofs`). Much of the rest is about `FoldLeft`, which the community
modules define by a `CHOOSE` of a function on sets of indices. `SetInduction` states
induction over a set instead of a predicate, proved from the well-foundedness of the
naturals, so that it can be cited without an operator parameter. From it follow
`FoldExists` (the function chosen exists) and `FoldRuns` (the fold is the last value of
a function that starts at the base and applies one element at a time). Each fold of
the model then has one lemma that says so of it, and the proofs induct over that.

**The command line** (`CommandProofs`), for any words and any number of them:

* `CompactionIsSafe`: `[]CompactionKeepsUnread`. `Compaction` says that no more words
  were kept than read, so a word kept is written where one was read.
* `LastTextIsUsed`: `[]LastTextWins`. `ResultsInv` compares `m_results` with the texts
  each option came with, by number and last one (`AgreesWith`), over the loop, the rest
  of the line and the filling in of defaults; and every text an option holds is one
  its parser let through (`ValuesParse`). From the latter follows `JobInv`: the values
  `main` hands to the client are numbers, which the theorems below use.

**One process** (`ProcessProofs`), for any command line and bounds:

* `ProgramTypesCorrect`: `[]ProgramTypeOK`, from `JobInv` and the invariants below.
* `DatabaseStaysOpen`: `DatabaseInv` says that at most one thread builds, and that
  whoever is past the guard found the instance built, hence its handle open.
* `RateIsNotExceeded`, `RateIsKept`, `FinishIsOnTime`: while the ints hold (and a step
  after which they do found them so) `PacingInv` bounds what was sent, times the length of a second, from both sides by the time passed (`Behind`,
  `Ahead`) and, once the end is past, by the end (`AtEnd`); during a sleep the bounds
  are those of the moment it ends.
* `ResultsArePrintable`: `[]ResultIsPrintable`, in either build and for any lost time.
  What has to be excluded is a loop that ends in its first turn, when no time has
  passed. `LastGroup` says that what was sent is within a group and 6 ms of what was
  due when the last group began, and at least what was due at the end but for the time
  lost: together they keep that group from having begun too early. `ResultFits` turns
  this into the bound of the `uint32_t`.
* `SocketIsDisciplined`: `SocketInv` says for each phase of `main` whether the socket
  is not yet opened, in use or left to the exit.
* `EndpointStaysNamed`: from `JobInv` and what `init` does with the port.

**The messages' bytes** (`CodecProofs`), for any radix, widths and buffer size that
fit the layout, and any numbers that fit their fields (`CodecAssumption`):

* `FieldsSurvive`, `BufferIsClean`, `PatchIsRebuild`: `[]RoundTrip`, `[]SendBufferClean`,
  `[]PatchedAsRebuilt`. `CodecInv`: the static buffer is zero between sends; the packet
  buffer is what writing the packet anew into a zero buffer gives; a datagram holds
  each field of what was sent at its place. Below it: a number is what its bytes
  join to (uniqueness of quotient and remainder), a field is written where the one
  before it ends, and no field touches another's bytes.

**The helpers** (`HelperProofs`), for any input:

* `HelpersAreRight`: `[]HelpersKeepText`. `SplitSoFar` says that the pieces cut off so
  far, joined, and one separator are what of the string has been passed, and that no
  piece holds the separator. `TrimCutsBehind` is what `trim` leaves of a string with
  blanks in front, where it uses the place of the last letter in the string as it was.
* `AmountsArePrinted`: `[]PrintedIsMeant`, from the choice of the unit (`UnitChosen`).
* `HelpIsWhole`: `[]WrapKeepsText`, if every word fits the width (`HelpAssumption`; a
  word of the code's help texts has less than the 44 characters there are). `HelpInv`
  knows where the last space is; `WordEndsInTime` says that after a break at a space
  the next one comes before the width is used up.
* `IntegersAreExact`: `[]IntegerExact`. `ReadSoFar` says that what was read is the number
  of the digits read but for whole words, and that if there are any that number is
  well past the word; `NextRead` keeps this over a digit and shows that the test for
  the wrap refuses only numbers of a word or more. The digits before the last stand
  for less than all (`PartsAreLess`), so what is refused early is too large as a whole.

**The logger** (`LoggerProofs`), for any size of the queue and any number of messages
and failing writes:

* `LoggerOutlivesUse`: `Spec => []LoggerAlive`. Lemmas about the ring (what a push and
  a pop do to the items between head and tail, around the end) carry `QueueItems`.
  `Control` says which of logger, pool and flusher each phase of the program's thread
  finds; `FileHeld` that whoever holds the logger (the registry, a queued message or
  the worker) keeps the file open; `TerminateLast` that nothing is queued behind the
  terminate, from which `WorkerDone`: the worker ends with an empty queue.
* `LogIsImplemented`: `Spec => Implements`, the refinement of `LogService`. `LogInv`
  adds what the mapping reads: the types, who holds a message (`Carried`), what is
  left when the log is closed. What is pending lies in four places one behind the
  other; a push, a pop, a write and a flush move it from one to the next, and the
  messages among the queue's items are a fold over them.
* `LoggerTypeCorrect`, `WarningsAreFlushed`: `[]AsyncLogTypeOK` and `[]WarnIsFlushed`,
  from the same invariant (`WarnHeld`).

**The sinks and their lines** (`SinkProofs`), for any messages, durations, sizes and failures:

* `FiltersKeepEverything`: `[]FiltersLoseNothing`. `HoldsNewest` says where in a ring of
  n + 1 slots the newest n of what was pushed lie (`PushedNewest`). `SinksInv` says that
  what a child was told and the duplicates counted are the log, and adds what that needs:
  while duplicates are counted, the last thing each child was told is the message they
  are duplicates of (`ToldAll`). One lemma per way through the filter (left out, shown at
  once, shown behind a line about those left out, that line failing) says what the
  children get; the dump of a backtrace is a fold over it. It is about the sinks and a
  log as values, so a step of the logger and each message of a dump use the same lemma.
* `FilesStayInOrder`: `[]FilesKeepOrder`. `Accounted` says that the records written are
  in exactly one file, in order within it, or gone, and that none is gone that is in a
  file. A rotating sink (`RotatingInv`) has its files ranked by age, knows of the open
  one at least its size, and has no gap in the names until a file call fails; the
  renames of a rotation are a fold over the names, and what each one does to the files
  is a lemma of its own. Of the daily sink `DailyInv` says that the next rotation is at
  most two days behind the day of the open file, which places every record's time, and
  that the names kept are the newest of those it opened, whose days are over at the
  next rotation if that is at midnight (`DaysKept`), so that a rotation never removes
  the file it opens. It assumes that a day has a length, that a rotation is at a time
  of the day and that a record is not empty (`FileSinksAssumption`).
* `LinesAreFields`: `[]FieldsInPlace`, for any patterns, largest width, period of the
  offset, seconds and sizes of texts. The line is a fold through the padder, which
  writes blanks before a text and cuts off its end behind it; the property compares it
  with another fold, that joins texts fitted to their widths. `FormatsOneMore` relates
  one step of the two; it needs that a formatter tells the padder the size of its own
  text, which is the property's premise (padded `%D`, `%c` and `%E` do not). `MarkedSoFar` adds
  where the marks of the colour range are: at the ends of the line when the last `%^` and
  `%$` were reached, from which the range is the marked fields. `PatternInv` carries
  this from the formatting to the printing; that the caches are those of the message
  (`Fresh`) follows from `format` alone, as no message is logged at second 0
  (`PatternAssumption`), the second the formatter starts from without having computed
  a date.

## 5. Only model-checked, and not modelled

Only model-checked:

* every liveness property (`RttCompletes`, `TestEnds`, `TesterIsServed`, `EndsOrWaits`,
  `ReachesFile`, `ShutdownEnds`), since the proof system does not reason about
  `ENABLED` and fairness;
* `FormatStringsAgree`, `IntegerTextExact`, `FloatTextExact`: they compare two
  computations over enumerated strings and numbers, step by step, and hold for those
  enumerated (some deviations of the code are excluded by name); their modules recurse
  over data throughout.

Not modelled:

* a wrap of the 16-bit test id: `NoWrap` excludes it in the properties about ids
  (with 65536 tests behind it the code does reuse them);
* a system clock that is set: the code uses it, and every property about time would
  be false;
* the narrowing of the jitter to an int in the report;
* a `reopen(true)` of the rotating sink that fails itself
  (`rotating_file_sink-inl.h:110,117`);
* fmt's `chrono.h`, `printf.h`, `color.h`, `locale.h` and `ranges.h`, unused here, and
  hexadecimal floating-point formats; the arithmetic of Grisu's scaled integers;
* spdlog's sinks of other platforms and its loggers by name;
* cxxopts' positional options and groups, which the program does not declare;
* hashing and random strings (wrappers without a protocol), the HTTP declarations
  (no bodies), and the SQLite destructor, at the exit of the process.

## 6. Plan

Done: the protocol with its failures and liveness, the process, the logger; the
theorems of section 4. What could follow, in order of weight:

1. A jump of the clock in `Pacing` and `Server`, to say which results survive it.
2. `printf.h` and `chrono.h` of fmt, should the program come to use them.
