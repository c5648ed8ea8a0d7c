# A formal model of ArtnetOpenRDMNode

ArtnetOpenRDMNode is an Art-Net node: it receives DMX frames and RDM requests over the network
and drives up to four OpenRDM USB dongles (FTDI chips), one for each output port. This
directory holds a TLA+ model of it: specifications that TLC checks on small instances, and
theorems about them that TLAPS proves for every value of the constants. All paths below are
relative to the repository; line numbers refer to `src/src/artnet_openrdm_node.cpp` (*node*),
`src/src/openrdm_device.cpp` (*device*), `src/src/openrdm.c` (*driver*) and `src/src/rdm.cpp`
(*rdm*).

## 1. The system

### Threads and shared state

    main thread                 dmx_thread (per port)        rdm_thread (per port)
    artnet_read() -> handlers   fetch / refresh, init()      one request per wake-up,
       |        |                  |                         discoveries
       |        +-- data_dmx ------+                            |
       |            (data_mutex)   (dmx_mutex)                  |
       +----------- data_rdm (data_mutex) ----------------------+
       +-- dmx_thread_sema --> dmx_thread      rdm_thread_sema --> rdm_thread
                                   |                            |
                                   +-- OpenRDMDevice (dev_mutex around each driver call)
                                                |
                                       libftdi, USB dongle, RS-485 line, responders

### Components

**Art-Net handlers** (node 196-258). State: `data_dmx`, `data_rdm`, the semaphores.
`dmx_handler` copies a frame into `data_dmx` and wakes `dmx_thread`; `rdm_handler` and
`rdm_initiate` queue a request (a full discovery is a message of length 0) and wake
`rdm_thread`. Correct when: every message is followed by its own wake-up, and the Art-Net loop
always comes back.

**`dmx_thread`** (node 47-99). State: its copy of the frame. Sends a changed frame after a
wake-up, repeats the buffer every `DMX_REFRESH_MS`, and is the only one to call `init()` when
the device is down. Correct when: the last frame ends up on the wire and stays there, whatever
the dongle does.

**`rdm_thread`** (node 101-193). Serves one request per wake-up under `data_mutex`, and runs
incremental discoveries. Correct when: requests are answered once each, by the wake-up that
belongs to them, and Art-Net's table of devices follows the device's.

**`OpenRDMDevice`** (device 9-90) and the **driver** (driver 59-166). State: the libftdi
context with its handle, `initialized`, `discovery_in_progress`, the lists of responders, the
RDM transaction number. `dev_mutex` covers single driver calls only; the flags are read and
written outside of it, by two threads. A failed write with -110 or -666 reopens the handle on
the spot; a failed DMX write with -666 or -19 deinitialises the device. Correct when: no handle
is lost or used after it was closed, the device comes back when the dongle does, and a
discovery is never refused for ever.

**Discovery** (device 92-329). State: `tod`, `lost`, `proxies`. A binary search over the UID
space that mutes each responder it finds; the incremental version first mutes the known and the
lost devices, reads the lists of proxies that have changed, and returns what it added and
removed. Correct when: the search ends and covers everything, the lists stay disjoint and free
of duplicates, the returned pair is what changed, and the table is exact when the bus is quiet.

**RDM transactions** (`sendRDMPacket`, device 331-404). State: the 8-bit
`rdm_transaction_number`, shared with `discover()` and reset by `init()`; per call the tries,
the time, the parts received. Retries with new transaction numbers, the match of an answer with
its request, ACK_TIMER and queued messages, ACK_OVERFLOW, the time limit. Correct when: an
answer is never taken for the answer to another request, the parts of a list come in order and
once each, and every call ends.

**Packet codec** (rdm, `getProxyTOD`, node 129-137). UIDs, the parsing constructors,
`writePacket`, the encoded discovery answer, the check sum, and how much of a controller's
message goes to the line. Correct when: what is written is parsed back, and what is damaged,
cut or in collision is not taken for something else.

**Start-up** (node 260-389). Checks the device strings, opens a device for each, counts the
ports, makes semaphores, starts the threads, announces the ports to Art-Net and reads. Correct
when: each device string drives its port, empty strings included.

**libartnet** (external): calls the handlers, and keeps its own copy of each port's table of
devices, which rdm_thread changes by additions and removals. **Device enumeration**
(`findOpenRDMDevices`, prints and exits), **argparse** (vendored), **build files**.

### What is hard here

- `data_dmx` is written under one mutex and read under another (node 244, 74).
- `initialized` is tested before `dev_mutex` is waited for (device 60, 74), so a write may
  reach a device deinitialised in between.
- Either thread may close and reopen the handle the other one is about to use.
- `init()` clears lists that the RDM thread may be working on.
- Wake-ups and messages are counted separately (semaphore and queue), and rounds that find the
  device down drop one but not the other.
- `data_mutex` is held for a whole exchange or discovery, and the Art-Net loop needs it, for
  DMX frames too, although the comment at node 40 gives DMX a mutex of its own. The loop is
  held up, not blocked for ever (`MainReturns`).
- libartnet's copy of the table is never replaced, only added to and removed from, and is
  flushed behind rdm_thread's back when a controller asks for a full discovery.
- An answer may arrive when its request has been retried or its call has ended, and 8-bit
  transaction numbers come round again.
- Responders come, go and answer at once between any two exchanges; answers get lost, garbled,
  survive a collision, or decode to a UID that nobody has.

`PROJECT.json` lists these hazards at their lines with the properties that would notice them
going wrong.

## 2. The modules

| module | what it is |
| --- | --- |
| `OpenRDMDevice` | one device object with the driver, used by two threads |
| `OpenRDMDevice_proofs` | its theorems |
| `PortThreads` | one port: handlers, both threads, queue, semaphores; composes `OpenRDMDevice` |
| `PortThreads_proofs` | its theorems |
| `DmxOutput` | abstract: what a port promises of the slots on its DMX line |
| `DmxBuffer` | the race on `data_dmx`, slot by slot; implements `DmxOutput` |
| `DmxBuffer_proofs` | its theorems, the refinement among them |
| `UIDList` | the lists of UIDs and the loops that merge and erase |
| `UIDList_proofs` | what those loops do with lists of any length |
| `DeviceTable` | abstract: what discoveries promise of the table of devices and its Art-Net copy |
| `Discovery` | full and incremental discovery against changing responders; implements `DeviceTable` |
| `Discovery_proofs` | its theorems, the refinement among them |
| `RDMCall` | abstract: what a caller of `sendRDMPacket` is promised |
| `RDMTransaction` | `sendRDMPacket` with retries, late answers, ACK_TIMER, ACK_OVERFLOW; implements `RDMCall` |
| `RDMTransaction_proofs` | its theorems, the refinement among them |
| `RDMUID` | UIDs as words and bytes |
| `RDMPacket` | the codec at work on a line that disturbs what it carries |
| `RDMPacket_proofs` | theorems about all UIDs, about packets of any content, and about the line |
| `NodeStartup` | `main()` up to the loop that reads packets |
| `NodeStartup_proofs` | its theorems |

### OpenRDMDevice

`usb` is `ftdi.usb_dev`: "null", a "live" handle, or a "dead" one that was opened before the
dongle was last detached. `dmx` and `rdm` say where each thread is inside a method; "out" means
it is in none. A method is split at every lock and unlock of `dev_mutex` and at every access to
the unprotected flags. `WriteDMX`, `WriteDMXOpenRDM`, `DeinitOpenRDM`, `DeinitDone` are the
steps of `writeDMX()`; `InitDevice`, `InitOpenRDM`, `InitDone` those of `init()`; `WriteRDM`,
`WriteRDMOpenRDM` those of `writeRDM()`; `StartDiscovery`, `DiscoveryExchange`, `EndDiscovery`
those of the two discovery methods, whose driver calls are only counted here. `WriteResults` is
what libftdi may return for the present handle (external); `DriverWrite` adds the reopening the
driver does. Of the error codes, -5 stands for all the code does not act upon; a write to a
dead handle is taken to fail with one of the codes the driver's comments name for a lost device
(-19, -110). The lists that `InitDone` clears belong to `Discovery` (its `Reset`).

### PortThreads

`main`, `dloop` and `rloop` are the positions of the three threads; the steps inside the device
are those of `OpenRDMDevice`, instantiated on the same variables. A frame or request is its
number of arrival. `data_mutex` is a variable only where it is held across other steps (by
`rdm_thread`); the short critical sections of the handlers are one step that needs it free.
`dmx_mutex` does not appear: only `dmx_thread` ever locks it. The time-outs (`DMX_REFRESH_MS`,
the incremental interval) are choices: `DmxRefresh` or `DmxNoRefresh`, `RdmScan` or
`RdmNoScan`. One port is modelled: ports share no state but the libartnet node. A message whose
device has no RDM is not queued (`rdm_handler`), so requests are those of a port with RDM
enabled. The semaphores' limit (0xffff) is above every bound used.

Both threads begin at "start", where they return for good if the device is down (node 50, 104).
`dropped` is history: it counts the wake-ups that were used by rounds of `rdm_thread` that
found the device down. It makes the relation between queue and semaphore exact
(`BacklogIsDropped`): the queue is ahead of the semaphore by that number and by nothing else.
`WakeupsUsed` counts the wake-ups of `rdm_thread` so far, and `ServedInOrder` says which request
each of them serves: the one with that number, less the wake-ups dropped.

### DmxBuffer and DmxOutput

`PortThreads` stores and fetches a frame in one step. The code does not: handler and thread
hold different mutexes. `DmxBuffer` makes each slot that a copy moves, the length and the flag
steps of their own; the slots of one copy move in any order, because the compiler makes memory
copies of `copy_n`. `DmxOutput` is the promise that survives: each slot on the line belongs to
a received frame and never goes back to an earlier one. Here the device is up; `PortThreads`
has the failures. (A data race is undefined behaviour in C++; the model is what byte copies and
an ordinary compiler make of it, with the stores of one thread in program order.)

### Discovery and DeviceTable

Discovery's lists are `UIDList`'s: a loop of the code that adds or erases one UID after the
other is a function of the number of iterations done. The recursion of `discover()` is the
sequence `pending` of branches still to be searched, in
the order the recursion would reach them; the lists its calls return are merged in that order
into `discovered`. One exchange is a step and stands for `sendRDMPacket()` with its retries. Of
a branch with several responders the answer is garbled, or decodes to one of their UIDs (with
`Capture`) or to a UID that none of them has (with `Phantoms`). `Lossy` lets any exchange fail,
and any silence be noise. `calm` is set by `CalmDown` at any time: from then on the bus does not
change, loses nothing, and the device stays up; `quiet` records that the present discovery began
then. Both are history and guard only the environment.

What a collision decodes to is a matter of the UIDs, not of the state of the bus: UIDs 1 and 4
have the check sums 0x5FB and 0x5FE, their union is 5 with the check sum 0x5FF, and so both
together always decode to 5. The code mutes 5, gets no answer and gives the branch up (device
256-264). Neither device is found, by this discovery or a later one, on however calm a bus,
unless a third one garbles the answers until the two are in different branches. Other UIDs, like
3 and 4, always garble. Since the model's UIDs stand for any others, `MayDecodeTo` leaves it
open at each collision which of the three happens, independently of `calm` and of losses.
`misheard` (history) records what this discovery has taken collisions for, and `Undisturbed`
says that it began on a calm bus and took none for an answer: these are the discoveries of which
exactness is claimed. That a union is the only UID two answers may decode to is what
`CollisionIsUnion` in `RDMPacket` says.

Assumptions about responders, which are external: a proxied device answers mute requests
through its proxy and does not answer DISC_UNIQUE_BRANCH; a proxy that is switched on, or whose
list changes, sets its change flag; reading the list clears it. `published` is libartnet's copy
of the table. A controller's request for a full discovery (`RdmInitiate`) may flush it at any
time, before rdm_thread gets to the discovery; a full discovery then adds its result
(`PublishAll`), an incremental one adds and removes its changes (`PublishChanges`).
`TableIsPublished` says that, while the device is up, the copy never lacks a device of the
table, unless a requested full discovery is on its way that will add it.

`Deinit` and `Reset` are `deinit()` and `init()` in the DMX thread (with `Resets`, which implies
`Lossy`: while the device is down exchanges fail). A discovery that has begun runs on. One that
has not is refused: if the device goes down after rdm_thread has looked at it (node 113),
`fullRDMDiscovery()` returns an empty list at once (device 93), the request has been popped, and
nothing is published (`Refuse`); then the copy may lack the whole table until `init()` clears the
table too. While a discovery iterates over one of the lists that `init()` clears, the code has no
defined behaviour, and the model leaves that interleaving out.

`DeviceTable` is what rdm_thread and the controllers behind libartnet may rely on: a discovery
changes the table once, at its end (`EndFull`, `EndIncremental`), and the Art-Net copy with it;
if the bus was calm all the while and no collision was taken for an answer, the table is then
what can be reached. The many exchanges in between are stutters (the first misheard collision
excepted, which takes the promise back: `Mishear`). `ScanLeft` measures what is left of a
discovery: the parts to come, the list or the UIDs not yet done, the size of the branch, the
calls due for one device.

### RDMTransaction and RDMCall

A call of `sendRDMPacket` is split where the outside can intervene: `Begin` takes a number,
`Transmit` purges the line and sends, one of `Silence`, `Garbled`, `Error`, `Stray`, `Ack`,
`AckOverflow`, `AckTimer`, `Nack` ends the exchange, `GiveUp` or `Retry` ends the loop body.
Callers are reduced to the three kinds of request they make: a broadcast, a discovery command
and a GET. Between calls `Branch` takes numbers for `discover()`, `WriteRDM` puts answers to
controllers' requests on the line, with any number, and `Reset` is `init()`.

Answers on their way are the set `line`. An answer that is not received at once may come later;
each transmission makes it older, and after `MaxLate` transmissions it is gone.
`NumbersAssumption` (`2 * MaxLate + 3 < TNs`) says that numbers come round again more slowly
than answers fade; with 256 numbers an answer may be late by up to 126 transmissions. The
factor 2 is there because a call may take a number without transmitting: `Retry` takes it
before the loop looks at the time. Elapsed time is not modelled; `slept` counts what ACK_TIMER
answers made the call wait, and any time may have passed otherwise, so `Retry` may always end
the call.

`RDMCall` is the promise: the result is a sequence of packets that were each sent in answer to
the latest request of this call, at most one for each request; a call that fails has no result.
`Contents` is what an answer may hold, `current` the answer to the latest request until it is
taken.

### RDMPacket and RDMUID

A run of `RDMPacket` puts one message on the line: a packet (`Frame`, as `writeRDMOpenRDM`
sends it), an answer to DISC_UNIQUE_BRANCH, or a controller's request in its Art-Net message.
At most one thing happens to it: other bytes follow, a byte is damaged, it is cut short, or
another answer collides with it bit by bit, with a preamble of its own. `Receive` is the code:
`Parse`, `ParseBranch` and `PassedOn` are the two parsing constructors and the trimming in
rdm_thread, byte by byte as the code reads. The format of the discovery answer (`Twice`,
`BranchAnswer`) is the responders', external. A byte's bits are a set (`Ones`, `ByteOf`), so
that `&` and `|` are intersection and union. The sum of the bytes is a recursive function that
goes by halves; that it is the code's running sum is proved (`SumIsSum`).

A UID is three words. `generateUID` and `Accepts` keep what the code computes: the hash is
compared with 0xFFFF (rdm 23), and the manufacturer's broadcast address is made with `<< 4`
(rdm 56), which leaves it at 0x0000FFFFFFFF.

### NodeStartup

`i` is the loop variable of the loops at node 321 and 348; the threads run as soon as they are
started. `OpenDevice` succeeds or fails. Deadlock is not checked: the program exits when no
device could be opened.

## 3. What is checked

Sizes are distinct states. Deadlock is checked in every passing run: no thread of these models
stops by design, except one whose device is missing at the start.

| run | constants | states | what it asks |
| --- | --- | --- | --- |
| `OpenRDMDevice` | 3 exchanges | 549 | no lost handle (`NoZombieHandle`), no discovery refused for ever (`DiscoveryNotStuck`), no hanging call (`RdmReturns`), return to service (`Recovers`) |
| `PortThreads` | 1 frame, 2 requests, 1 scan, 2 exchanges, flaky opening, dongle detachable | 590 000 | queue and semaphore differ by the dropped wake-ups exactly (`BacklogIsDropped`), wake-ups serve the requests in order (`ServedInOrder`) |
| `PortThreadsLive` | 2 frames, 1 request, no scan, 1 exchange, detachable | 147 000 | the last frame reaches the wire and stays (`LastFrameOnWire`); the Art-Net loop is not blocked for ever (`MainReturns`); requests are served unless a wake-up was dropped (`RequestsServed`) |
| `DmxBuffer` | 2 slots, 3 frames | 20 600 | the race never sends unreceived slots (`SentSlotsReceived`), nor slots older than the frame that was complete when the copy began (`CompleteFrameSent`), implements `DmxOutput`, is repaired by the refresh |
| `Discovery` | UIDs 0-4, responders 3 and 4, proxy 4 for device 1 | 2 100 000 | the search, the lists, the reports, the table after a quiet discovery, and the table with Art-Net's copy as `DeviceTable` puts them (`TableSpec`) |
| `DiscoveryNoise` | UIDs 0-2, responders 0 and 2, losses, noise, capture, phantoms (on a calm bus too), a device that goes down and comes back | 175 000 | discoveries advance with every step (`ScanAdvances`) and end (`ScanEnds`), Art-Net's copy lacks no device of the table (`TableIsPublished`, `TableSpec`), incremental ones converge (`Converges`) |
| `RDMTransaction` | 6 numbers, 2 retries, 2 time units, answers late by 1, up to 3 parts, timers of 1 and 5 | 216 000 | no answer taken for another (`AnswersAreCurrent`, `CallSpec`), whole answers (`CleanCallComplete`), bounded waits (`WaitBounded`), calls that end (`CallReturns`) |
| `RDMPacket` | words 1, 258, 65535; lists of 0, 1, 2, 38 devices; data of 1 and 231 bytes | 150 000 | round trips of packets, answers, lists and requests; damage, cuts and collisions |

Four more runs show a disagreement between a comment in the source and what the code does; TLC
finds each property violated:

- `PortThreadsBacklog` (`OneMessagePerWakeup`): `rdm_thread` acquires the semaphore, finds the
  device down and starts over (node 111-119). The wake-up is gone, its message is not, and from
  then on every request is one wake-up short: it is answered only when another one arrives. The
  comment at node 124 describes one message per wake-up.
- `DmxBufferTorn` (`WholeFrames`): `dmx_handler` fills the buffer under `data_mutex` (node
  244), `dmx_thread` reads it under the mutex the comment at node 40 calls the one for DMX.
  They do not exclude each other, and a transmission may mix two frames.
- `DiscoveryCapture` (`FullTOD`): `fullRDMDiscovery` "Returns full TOD"
  (`src/src/openrdm_device.hpp:27`), but a branch is not asked again after its first valid
  answer, so that a device whose answer was captured by a stronger one stays out.
- `NodeStartup` (`EveryDeviceDriven`): the help says an empty device string skips a port (node
  288). Devices are stored by position but ports are counted (node 321-329): after an empty
  string the last device is opened, and has neither threads nor an output port.

### Why the bounds are enough

- *Device*: the two threads are all the clients there are. A discovery makes 1 to 3 exchanges,
  so there is a first, an inner and a last one. The dongle may be attached and detached without
  limit, at any step. With `FlakyOpen = FALSE` every handle can still be missing (detached
  while it is reopened); the safety properties are proved for both values.
- *Port*: two requests suffice for one to overtake or to be left behind by another; one scan
  lets a request meet a discovery. Two frames let one arrive while the other is being written.
- *Buffer*: two slots are what it takes to tear a frame, three frames let a frame arrive while
  the thread still holds the one before the last; lengths vary from 1 to 2.
- *Discovery*: a range of five UIDs is odd, splits into halves of unequal size, and has
  branches of one and two UIDs; the responders 3 and 4 collide in the whole range and again in
  the upper half. Two responders, one of them a proxy, are enough for one to leave while the
  other is read. What a range of 2^48 UIDs adds, the arithmetic of the halves, is proved for
  any size. With losses the range is three UIDs: garbled answers to every request already
  produce the full search tree. One request for a full discovery waits at a time.
- *Transaction*: 6 is the least number of transaction numbers that `NumbersAssumption` allows
  for answers late by one transmission, so that numbers come round as soon as they may. Three
  parts are the most that two retries let through. A timer below and one above the time limit.
  For all other values the safety properties are proved.
- *Packet*: the words are the ones with a byte 0x00, with two different bytes, and with 0xff
  twice (broadcast addresses). 38 devices and 231 bytes are the largest list and the largest
  data of a packet. Every byte position is damaged and every length cut to; preambles go from 0
  to 7.
- *Start-up*: four positions as in the code; two strings, so that repeated, different and empty
  ones occur in any order.

### Fairness

- `OpenRDMDevice`, `PortThreads`: each thread loops for ever and goes on when it can. Strong
  fairness, because a thread that waits for a mutex must be let in although its holder takes it
  again and again; both threads sleep or block between rounds, which lets a waiter in.
  `LastFrameOnWire` also assumes that writes to a live handle do not fail for ever. Arrival of
  packets, the RDM thread's calls in `OpenRDMDevice` and the dongle are unfair.
- `DmxBuffer`: weak fairness of the handler once entered, and of the thread. A thread that is
  always awake refreshes after `DMX_REFRESH_MS`; as frames are bounded it runs out of wake-ups
  anyway.
- `RDMTransaction`: weak fairness of the steps of a call; driver calls and sleeps end. `Begin`
  and what other parties do are unfair.
- `Discovery`: weak fairness. A discovery that runs goes on, and an incremental one starts when
  nothing prevents it for ever (`RDM_INCREMENTAL_SCAN_INTERVAL_MS`, with `--incremental-scan`).
  Full discoveries start the interval anew (node 158), so that those that keep coming may put
  the incremental ones off for ever; `Converges` therefore assumes that they stop. It also
  assumes that the bus falls calm, and that searches stop meeting phantoms, which they do or do
  not according to the UIDs. Captured answers need not stop: whoever was captured is muted first
  in the next incremental discovery, and the others answer.

## 4. What is proved

TLAPS checks the following for every value of the constants that the modules' assumptions allow
(the assumptions say what type a constant has, and, for `RDMTransaction`, how many numbers there
are). Every invariant that a passing run checks is a theorem here, except `CollisionIsUnion`; so
is every action property, and the three refinements. What is left to TLC is what needs fairness,
and the reasons are at the end of this section.

**`OpenRDMDevice_proofs`**: `TypeCorrect`, `NoHandleLost`, `DiscoveryAvailable`. The invariant
`IInv` adds to the type invariant who holds `dev_mutex` where (a thread that is in a driver
call holds it, and nobody else does), what `initialized` is at each of the DMX thread's
positions (only that thread changes it), and that the flag `discovery_in_progress` is set
only during a discovery. `NoZombieHandle` is not inductive without the first two: a late RDM
write could reopen the handle between `deinit()`'s close and its `initialized = false`.

**`PortThreads_proofs`**: `BacklogExact` (`BacklogIsDropped`) from the order of push and
release, the single pop of a round, and the one place where a wake-up is dropped, for any
number of packets; `WakeupsCovered`, its consequence that no wake-up ever finds the queue
empty; `RequestsInOrder` (`ServedInOrder`): the queue always holds consecutive requests up to
the last one pushed (`OrderInv`), so its head and its length tell each other, and the length is
what `BacklogExact` counts; `MutexesOrdered` (`NoCircularWait`), from where each loop can be
while its thread is inside the device (`LoopInv`) and who holds `dev_mutex` there. The steps of
the port that reach the device are steps of `OpenRDMDevice`, so its invariant, inductive for
these, is instantiated on the port's variables and holds there too; that gives
`DeviceSafeInPort` and the device's half of `TypeCorrect`.

**`DmxBuffer_proofs`**: `TypeCorrect`, `NothingUnreceived` (`SentSlotsReceived`),
`FreshnessKept` (`CompleteFrameSent`) and `BufferImplementsOutput`, for frames of any length and
number. The invariant `IInv` relates the value of each slot in the buffer, in the thread's copy
and on the line to the frame being received and to the last one completely stored. A slot's
value only grows (`FreshInv`). In the buffer the slots below the stored length are at least as
new as the last complete frame, also while a newer one overwrites them (`StoredInv`). Hence a
slot that a copy has fetched, or has still to fetch, is at least as new as what was complete
when the copy began (`FloorInv`), however many frames are stored meanwhile, which is
`CompleteFrameSent`; and no slot is fetched that was never received (`CopyInv`). The semaphore
is needed too (`SemaInv`): it bounds the wake-ups by the frames.

**`UIDList_proofs`**: `MergeNewProperties` and `EraseAllProperties`: what the merging and the
erasing loops make of lists of any length, without duplicates and in order. The library's
induction takes a predicate as a parameter, which the provers cannot instantiate; here
induction is stated over the set of indices at which a fact holds (`SetInduction`,
`IntervalInduction`), and a loop is shown to be a function that satisfies its own equations
(`LoopExists`). The proofs about `RDMPacket` use them too.

**`Discovery_proofs`**, for a UID space of any size, any responders and any proxies:

- `HalvesPartition` (for every start < end the halves of a branch are non-empty, adjacent and
  make up the branch) and `SearchInOrder`, which lifts it to the sequence of pending branches.
- `TypeCorrect`, `ListsAreConsistent`, `TablePublished`, with losses, captured answers,
  phantoms, and a device that goes down, refuses requests and comes back.
  `ListsConsistent` is not inductive: `ListsInv` adds what the lists of a discovery in progress
  may have in common with `tod` and `lost` in each phase.
- `ReportsExact`: what an incremental discovery returns is exactly what it has changed, under
  `~Resets`. When `init()` clears the table meanwhile, the report is about a table that is gone.
- `FullDiscoveryFindsAll` and `DiscoveryFindsAll` (`ScanFindsAll`): after a discovery on a bus
  that was calm from its beginning, and that took no collision for an answer (`misheard = {}`),
  the table has exactly the devices that can be reached, whatever came, went, was lost, reset or
  misheard before. With `Capture` and `Phantoms` false, `misheard` is always empty; with either
  of them true the theorems speak of the discoveries that were spared. For UIDs that collide to
  a phantom there may be no such discovery while both devices are on the bus, and then nothing
  is claimed. The argument is `SearchInv`: whoever has
  answered can be reached, whoever has been muted is on a list that ends up in the table,
  whoever has not been muted lies in a branch still to be searched, and of a proxy that was
  found the devices are found as well. For incremental discoveries `KnownListed` carries, from
  one discovery to the next and through any disturbance, that a known proxy's devices are in
  some list or the proxy will report a change; `QuietKnown` says that it is asked.
  That the restriction is needed is what the run `DiscoveryCapture` shows. For incremental
  discoveries there is a hypothesis, `ListsArrive`: with losses there are no proxies, because
  the code does not read a list again that was lost after its change flag had been cleared.
- `TableImplemented` (`TableSpec`), under the same hypothesis: the end of a discovery is a step
  of `DeviceTable`, the first misheard collision takes back its promise of exactness, and every
  other exchange is a stutter. What is published is the table's change
  because of `FinishSets`, what it contains is `DiscoveryFindsAll`'s invariant; one conjunct is
  new, `LostInTable`: on a calm bus nothing is reported as gone that the table did not have,
  since `init()` cannot have cleared it meanwhile.
- `DiscoveryAdvances` (`ScanAdvances`), with no hypotheses: each step of a discovery lowers
  `ScanLeft` in the lexicographic order of four natural numbers, and nothing else changes it. A
  branch that is done with leaves those behind it, which begin later (`BranchesInOrder`); one
  that is divided leaves a smaller one that begins in the same place (`HalvesPartition`). As the
  order is well-founded, a discovery has finitely many steps; the run adds what fairness gives,
  that they are taken (`ScanEnds`).

**`RDMTransaction_proofs`**: `TypeCorrect`, `NoStaleAnswer`, `WaitsBounded`,
`CleanCallsComplete` and `TransactionImplementsCall`, under `NumbersAssumption` and
`LimitsAssumption`. The invariant `IInv` counts, for each answer on the line, the numbers taken
since its own (`NumbersInv`): at least one, at least two once it has been overtaken, at most
`2 * age + 3`. As that is less than `TNs`, its number cannot have come up again, and an answer
with the latest number is the latest request's. `RequestInv` and `TimeInv` tie the request to
the counter and the wait to the limit. `CleanInv` says of a GET that has lost nothing that its
parts are the first ones in order and that the responder is about to send, or has just sent,
the next. The refinement maps a transmission to `Ask`, the end of an exchange or of the loop to
`Take`, `Miss` or `Fail`, and the rest to stutters; that an `Ack` is a `Take` is where
`NoStaleAnswer` is needed. `CallsAdvance` (`CallAdvances`): each step of a call lowers a number
that is at most `3 * Retries + 3` (every branch of the loop body leads to a later one or to the
next try), so that a call makes no more steps than that, whatever is received.
`NoCircularWait` and `CallAdvances` are stated beside their proofs and checked by no run of
their own: the deadlock check and `CallReturns` ask the same of the small instances.

**`RDMPacket_proofs`**: about the codec, for packets and UIDs of any content,

- `ReadBack`: `RDMPacket()` returns every field of what `writePacket()` has written, whatever
  follows, if the packet is for the device, and refuses it otherwise;
- `DamagedRefused`: with one byte replaced by any other it is refused (a byte changes the sum by
  less than 65536, so the check sum differs), the length byte excepted, which moves the check
  sum to another place;
- `BranchReadBack`, `DamagedAnswer`: the same for the answer to DISC_UNIQUE_BRANCH after any
  preamble, with a byte stuck at 0 or 255;
- `UnionDecoded`: two answers that begin at the same time are decoded to the union of the UIDs,
  if to anything;
- `RequestForwarded`: the trimming in rdm_thread leaves a request as it was written.

From these, `TypeCorrect`, `PacketsReadBack`, `AnswersReadBack`, `DamageIsDetected`,
`ProxyListsRead` and `RequestsPassedOn` state the run's invariants for any words, lengths and
lists within the format's limits. The invariant `LineInv` says that what is on the line is what
was sent, followed by other bytes, damaged in one place or cut short, and what was decoded is
what is on the line. The lemmas underneath: where each field lies in a packet (`BodyBytes`), the
sum of bytes (`SumIsSum`, `SumShift`, `SumDifference`), and the bits of bytes (`BitsOfByte`,
`ByteOfBits`).

About UIDs: `UIDRoundTrip` for all 2^48 of them. `GeneratedUID`: the node's own UID is a
device's address for every hash except 0xFFFFFFFF, for which it is the manufacturer's
broadcast address; the test at rdm 23 compares the 32-bit hash with 0xFFFF and catches
another value.

**`NodeStartup_proofs`**, for any number of ports (a natural number, the theorems' hypothesis)
and any strings: `PortsAreSound`: no dongle is opened for two ports, and a thread in its loop has
its semaphores and an initialised device; `WhichAreDriven`: the devices with threads and a port
are those whose position is below the number of non-empty strings. So `EveryDeviceDriven`, which
the code does not have in general, holds if no string is empty. The invariant `NodeInv` says
that `num_ports` is the number of non-empty strings `main()` has come past.

Only model-checked:

- everything temporal with fairness (`RdmReturns`, `Recovers`, `LastFrameOnWire`,
  `MainReturns`, `RequestsServed`, `LastFrameOnLine`, `ScanEnds`, `Converges`, `CallReturns`),
  as the prover does not reason about ENABLED. Of `ScanEnds` and `CallReturns` the part that
  rests on the code and not on the scheduler is proved (`DiscoveryAdvances`, `CallsAdvance`);
  of `MainReturns`, that the mutexes are never waited for in a circle (`MutexesOrdered`);
- `CollisionIsUnion`: when the answers begin at different times, bytes of one meet different
  bytes of the other, and it is the check sums of the UIDs checked that rule out a wrong UID. It
  need not hold for all UIDs; `UnionDecoded` is the part that does;
- the four runs that expect a violation.

## 5. What is not modelled

- libartnet: only as the caller of the handlers and the keeper of a copy of the table. Whether
  its node may be used by several threads at once (node 140) cannot be read off this
  repository.
- Real time: time-outs are choices. The duration of a DMX break, of reads and of sleeps is left
  out.
- Shutdown (after node 389): unreachable, as the comment in the source says.
- The undefined behaviour of `init()` clearing a list while it is iterated over.
- `findOpenRDMDevices`, which prints and exits, argparse, logging, build files.
- A reset of the transaction number by `init()` between the moment a request takes its number
  and the end of its exchange.
- Bytes of `pdata` beyond a list whose length is not a multiple of 6: they were never written.
- The driver may read 513 bytes into an `RDMData` of 512 (driver 136); responders send at most
  257.
- How many ports share a network: the ports share no state but the libartnet node.

Observations, read in the code and kept in the models, that no text of the repository
contradicts: `writeRDM` parses its packet without the start code that the constructor expects,
so that it always waits for an answer (device 76-77); an ACK_OVERFLOW answer of more than
retries + 1 parts is returned in part; libartnet's copy keeps devices that `init()` made the
table forget, and those found between a flush and the full discovery that follows and gone by
then.

Known limits: devices whose answers collide to a UID that none of them has are not found by any
discovery (see Discovery above), so `ScanFindsAll` and `Converges` exclude searches that met
such a phantom; a proxy's list that could not be read after its change flag was cleared is not
read again until it changes, so that with proxies `ScanFindsAll` is checked with reliable
exchanges only; a port whose device is missing at start-up stays down for ever (`Recovers`
excludes it by name).

## 6. The plan

1. `OpenRDMDevice` with its proofs: done.
2. `PortThreads` composing it, with its proofs, the device's invariants inherited: done.
3. `DmxBuffer` and the abstract `DmxOutput`, with the refinement proved: done.
4. `Discovery` with Art-Net's copy of the table and the abstract `DeviceTable`, with the
   refinement and the other proofs: done.
5. `RDMTransaction` and the abstract `RDMCall`, with the refinement proved: done.
6. `RDMPacket` and `RDMUID`, with their proofs: done.
7. `NodeStartup`: done; its property is one the code does not have, and what holds instead is
   proved.

Left: a model of libartnet's node shared by several threads, should its sources be at hand; real
time, to bound how long the Art-Net loop can be held up.

## 7. Running it

    tlc -workers 2 -config OpenRDMDevice.cfg OpenRDMDevice     # and the like for the other runs
    tlapm OpenRDMDevice_proofs.tla                             # and the other seven

The definitions marked "variant" in the modules are what a plausible mistake would make of the
definition below them. `PROJECT.json` pairs each property with the variant that violates it.
