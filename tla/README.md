# A TLA+ development of MuMuDVB

MuMuDVB reads a transport stream from a DVB card and redistributes its
channels: multicast UDP/RTP, HTTP unicast, HLS, with an optional software or
hardware descrambling. It is one process of several threads that share
channels, buffers and client lists. The modules here are translated from the C
sources under `src/`; file names below are relative to it.

## 1. Inventory

| Part | Sources | State it keeps | Operations |
|---|---|---|---|
| Main loop | `mumudvb.c` | the card buffers' reading side, flags | swap or read, PSI packets, dispatch to the channels, `buffer_func` |
| Threaded card reading | `dvb.c`, `mumudvb.c` | two buffers, `bytes_in_write_buffer`, `main_waiting` | `read_card_thread_func`, the wait and the swap of the main loop |
| Stop flag | `mumudvb_common.c`, `mumudvb.c` | `interrupted`, its mutex | `get_interrupted`, `set_interrupted`, `SignalHandler` |
| Descrambling ring | `scam_common.c`, `scam_decsa.c`, `scam_send.c`, `mumudvb_common.c` | per channel: slots, two times per slot, three indices, two counters | `buffer_func`, `decsathread_func`, `sendthread_func`, start and stop |
| Control words | `scam_getcw.c`, `scam_capmt.c` | odd/even key, fresh flags, `ca_idx` and its count, oscam socket | CAPMT sent by the monitor, keys received, reconnection |
| Unicast sending | `unicast_queue.c` | per client: queue, errors and their time | `unicast_data_send` |
| Unicast clients | `unicast_clients.c`, `unicast_http.c` | descriptor table, list of clients, a list per channel, `num_clients` | accept, request, close |
| Section reassembly | `ts.c`, `crc32.c` | partial and full section, continuity counter | `get_ts_packet` |
| Autoconfiguration | `autoconf*.c` | versions, services, `channel_ready` | one handler per table |
| PSI rewriting | `rewrite*.c` | stored tables, generated packets, versions, counters | one handler per table, sending |
| Channels, PID filters | `mumudvb_channels.c`, `dvb.c` | `asked_pid`, sockets, descrambling started or not | update, remove, start, set filters |
| CAM | `cam.c` | CA info, resets, `need_cam_ask`, ask time, state of the menu | poll, reset, ask, ask again, keys (the EN50221 stack is a library) |
| Monitor | `mumudvb_mon.c` | `has_traffic`, scrambling ratio, timers | one pass per period |
| SAP | `sap.c` | a message per channel, its version, when it was last sent | update, send |
| HLS | `hls.c` | a slot per channel, its chunks; playlists on disk | write, rotate, remove silent channels, stop |
| Datagrams, RTP, T2-MI | `mumudvb_common.c`, `rtp.c`, `t2mi.c` | the buffer of a channel, sequence numbers | fill, send |
| Start and close | `mumudvb.c`, `mumudvb_mon.c` | threads, descriptors, files, tables | the steps of `main`, each of which may fail; `mumudvb_close` |
| The rest | `tune.c`, `log.c`, `network.c`, `multicast.c`, `unicast_monit.c`, `unicast_EIT.c`, Windows port | | options, ioctls, formatting |

How they interact. The card thread hands packets to the main loop through the
two buffers (mutex, condition variable). The main loop gives each packet to
the PSI handlers, then to each channel that has its PID. A channel's packet
goes into its datagram, or into its ring when it is descrambled; the datagram
is sent by the main thread in the first case, by the channel's send thread in
the second, to the sockets and through the queues of the HTTP clients. The
monitor thread looks at the counters and asks oscam for keys, which another
thread receives and the decsa threads load. Any thread may set the stop flag.

What is hard in it, and what makes each part correct:

- *Ring*: three threads, two sleeps with stale reads, a decryption in place
  without the lock, no flow control. Every packet leaves once, in order,
  decrypted, no earlier than its delay; the ring stops when told.
- *Card reading*: both threads test each other's state without the mutex; a
  wakeup can be lost. Nothing is overrun, lost, or treated twice; the main
  thread wakes up; a signal ends the program.
- *Unicast sending*: partial writes, repeated errors, a client removed from
  the list that is walked. Clients get the stream in order, queues are bounded
  and drain, only clients that fail for long are disconnected.
- *Clients*: a table that moves its last entry while it is walked. Table,
  lists and counts agree.
- *Sections and PSI*: lost packets, version changes, services that come and
  go. Only whole valid sections are used; what is sent follows what was received.
- *Keys*: two keys, one in use; a batch is never decrypted with the key of
  another period.
- *CAM*: answers that may never come, resets, and two threads that mark and ask
  the same channel. The CAM has the PMT in force; it is given up only when it
  stays silent; a channel in trouble is asked again.
- *Timers* (monitor, SAP, HLS): a decision taken from a time that another branch
  resets, or from a flag set before or after what it is about. The program stops
  when nothing is received and never otherwise; announces and playlists tell
  what is.
- *Rewriting*: tables in several sections, versions that follow each other, one
  buffer for several channels. A channel sends its own tables.
- *Closing*: threads that are told and not joined, from whatever step the start
  had come to. Nothing is freed in use, nothing is left behind.

`PROJECT.json` lists the hazards with their lines, and for each the properties
that cover it or the reason why none does.

## 2. What is modelled

### ScamRing, DelayLine

`ScamRing` is the ring of one descrambled channel. The critical sections of
the main and send threads are one action each (`M_Write`, `S_Read`, `S_Take`);
what a thread reads and then uses after it released the mutex is in its local
variables (`s_time` and the decision to leave the `read` step). The decsa
thread keeps the mutex from one iteration to the next, so holding it is a
predicate on its control state (`DecsaHoldsLock`) that the others' guards use.
`D_Decrypt` clears one slot at a time, without the mutex, as the library call
and the loop on `scnt_field` do. Time is a counter; a sleep is the guard
`now >= time`. Whether a scrambled packet goes into a batch depends on keys that
are not modelled: it is a free choice of `D_Take`.

History variables: every slot holds the packet's rank, its arrival and what the
decsa thread made of it; `last_out` is a copy of the slot taken last.

`DelayLine` is what the ring promises: packets arrive, are released in groups,
leave in order. `Line` instantiates it with `arrived <- written`,
`released <- sent + to_send`, `out <- last_out.slot.pkt`.

### CardThread

The main loop's wait, swap and walk over the packets, the card thread, the two
mutexes and the signal handler. `carddatamutex` matters in one place only: between
`main_waiting = 1` and the sleep (`mpc = "towait"`), since the card thread looks
at `main_waiting` without it; the other sections are one action each.
`interrupted_mutex` is held in the steps `head_in`. The handler runs in place of
the thread it interrupted, and that thread does not move until it returns.
Positions and sizes count packets. The sleep of 100 ms with which the
card thread starts is taken to be long enough for the main thread to allocate
the buffers.

### UnicastQueue

One channel, its clients, one action per call of `send()`: `SendWhole`,
`SendPart` (any number of bytes), `SendNothing` (`EAGAIN` or another error).
Bytes are known by their rank, so a queue is a sequence of intervals, and order,
holes and repetitions are comparisons of integers. `errno` after a partial
write is any value, as it is what an earlier call left. A client disconnected
during the loop leaves the list, and the loop's double step (`chan_next` of
`chan_next`) is in `AfterShort`. The configuration option `flush_on_eagain` is
a variable that `Init` chooses and nothing changes.

History variables: the last byte each client received, the reasons for which it
may miss some, the time it last took all it was sent.

`MCUnicastQueue` adds the symmetry set for TLC.

### TsPacket

`get_ts_packet` and its caller's loop. `GetPayload` and `GetRefused` are its two
halves before and after the early returns; the calls of `add_ts_packet_data` that a
packet needs, the recursive ones too, are the elements of `todo`, and the `Add...`
actions are its branches. `MoveToFull` is `ts_move_part_to_full`. A byte is the
section it belongs to and its rank there, so a CRC is right when the bytes are
those of one section, and a header that is not one section's says any length.
Any early stop of the caller's loop (`StopCalling`) is allowed, as its condition
depends on what the sections say.

The stream is the environment (external in the map): `Continuation` and
`Beginnings` are the packets a multiplexer may send next, and `Arrive`, `Miss`,
`Damage`, `Refuse`, `Repeat`, `NoPayload` what becomes of them. A packet is missed also
when a handler does not pass it on.

History variables: the sections delivered, those a fault touched (`spoiled`), and
those the code itself gives up, by reason.

### Psi, Autoconf, Channels

`Channels` has the operations on the list of channels and on the filters of
the card, `Autoconf` those of the tables (PAT, CAT, SDT, PMT); they are operators on
the state of the main thread, named as in the code. `Psi` is the state machine: a
transponder whose tables change, the main thread, and who descrambles. A packet is
handled in two steps, `NewPacket` and `ForEachChannel`, because only the second
one holds `chan_p->lock`; between them the CAM thread (`CamReask`), the monitoring
thread (`SendCapmt`, `NoteCapmt`) and the getcw thread (`CamdHangup`) move. A PID, a
service and a version are numbers; a section may be cut, sent ahead of its
change, or be of another transponder. `stale` is what `autoconf_read_pmt` reads in
memory it never wrote.

History variables, each the name of an exception that TLC showed to be needed:
`ahead` (a section sent ahead was received), `early` (a service left before it
was streamed), `moved` (its PMT went to another PID). `MCPsi` gives two services
their tables.

### Parts

Thirteen modules model components that share no variable with each other in
the code, or share one through a single value that the module chooses freely.
Each is a specification of its own, with its `Init`, `Next`, `Spec` and properties;
`Parts` instantiates all, and a behaviour of it is one of one of them (`part`
tells which, and the variables of the others keep their first values). They
could be thirteen runs: the state space is the sum and not the product, and no
property speaks of two parts. The constants and variables of all are in
`PartsState`, with the instances that `Parts_lemmas` is about; `RewriteState` adds those
that `Rewrites_proofs` is about; `Parts` adds the rest, `Init`, `Next` and the seven
invariants. The split serves the proofs, as the provers are slow when they see
everything. `MCParts` has the constants that a .cfg cannot write, `MCParts.cfg` the others.

| Module | Code | What a step is | History variables |
|---|---|---|---|
| `ScamKeys` | `scam_getcw.c`, `scam_capmt.c`, keys of `scam_decsa.c` | a message of oscam, a packet examined; the ring is a sequence of periods | `timely`: periods whose key came while the decsa thread had two batches of the period before to go; `misused` |
| `Cam` | CAM thread, PMTs sent | a round of the thread, a PMT, a second | `resets` |
| `CamMenu` | MMI callbacks, keys of the HTTP interface | a callback; a key in two steps, since no lock is held | |
| `Monitor` | `monitor_func` | a round | `seen`: when a channel last had full, or some, traffic; `tuned` |
| `Sap` | `sap.c`, names changed by the main thread | a poll, a message, a name: reading the name and writing the message are two steps | `changed`; `crossed`: renamed while its message was built; `rebuilt`: messages built since one was sent |
| `NitPsip` | `autoconf_nit.c`, `autoconf_atsc.c`, names | a packet | `unread`, `untimely`: sections counted, or read, before they apply; `missed`: channels listed after their section |
| `Clients` | `unicast_http.c`, `unicast_clients.c` | one descriptor of the walk | `due`: reported and not seen yet; `zeroed` |
| `Hls` | `hls.c` | a buffer written; a slot scanned; rotated; the master playlist | `twice`: two chunks of one name; `collided`; `late`: something written after `hls_stop` |
| `SdtRewrite` | `rewrite_sdt.c` and its caller | a packet, for all channels in turn | `failed`, `unlucky`, `late_ready`, `early`, `seen_versions` |
| `EitRewrite` | `rewrite_eit.c` | a packet | `given_twice` |
| `PmtRewrite` | `rewrite_pmt.c` | a packet of one channel | `pmt_fresh`, `pmt_lost` |
| `Lifecycle` | `main`, `mumudvb_close` | a step of the start or of the close, which fails or not; a thread ends | `failed_at` |
| `Datagrams` | `buffer_func`, `send_func`, `rtp.c` | a packet; the channel leaves or comes back | `came`, `taken`, `out`, `datagrams` |

A history variable that appears in a property as an exception is one that the
code needs: without it TLC finds a behaviour of the code, described in section 3.
`ScamKeys` assumes of oscam that it sends a key no earlier than a period ahead;
`Hls` that the periodic thread runs on time; `Clients` that the send threads
close no client during a walk.

## 3. What the runs check

| Run | States | Result |
|---|---|---|
| `ScamRing_safety` | 1.1 million | seven properties hold |
| `ScamRing_live` | 26 thousand | both liveness properties hold |
| `ScamRing_overflow` | | `OverflowDetected` violated |
| `CardThread` | 30 thousand | five properties hold |
| `CardThread_repeat` | | `HandledOnce` violated |
| `CardThread_signal` | | `SignalCloses` violated |
| `UnicastQueue` | 641 thousand | six properties hold |
| `UnicastQueue_requeue` | | `NonSentKept` violated |
| `TsPacket` | 2.4 million | six properties hold |
| `Psi` | 277 thousand | seven properties hold |
| `Psi_oscam` | | `OscamHasLatest` violated |
| `Parts` | 577 thousand | seven properties hold |

**Bounds.** `ScamRing_safety`: a ring of four slots and batches of two, so that
the batches of a hand-over may fill the ring, six packets, so that slots are used
again, and a send delay longer than the other. `MaxInFlight = RingSize` states
the assumption a user makes when he sizes the ring; the overflow run drops it.
`ScamRing_live` has the shorter send delay, packets without payload, and a stream
that stops anywhere. `CardThread`: reads of one or two packets into a buffer that
holds a read and a half, so that it fills with and without room for one packet;
five packets let the buffers swap three times. A signal
may come to a thread that has nothing else to do; the signal run delivers it to
the main and card threads too. `UnicastQueue`: datagrams of two
bytes, the least that can be split; queues that hold two of them; three
datagrams, two clients, two seconds around a timeout of one.
`UnicastQueue_requeue` has one client, room for all datagrams and no clock, so
that the only way to lose a byte is the requeue. `TsPacket`: packets of eight
bytes and sections of three and seventeen, so that up to three sections end in
one packet and the long ones take three; a header is cut in two at one or two
bytes; two places for full sections; a continuity counter modulo four, more
than the two faults, as sixteen is more than the code expects to miss. As
`NeverDropped` depends on it, `SizesAssumption` says that `MAX_TS_SIZE` is more than
`MAX_FULL_PACKETS` payloads (4096 and 15 * 184 in the code, ts.h).

`Psi`: two services, one clear, whose PMT can move and whose PCR is in its streams
or not, and one scrambled, which may become something else than television; the
PAT and the SDT have two sections each, one per service, so that every order of
the sections happens. Two changes or odd sections without descrambling, two
changes of SDT and PMT with a CAM (the tables that make it asked), one of any
with oscam: each mode has what its properties need, and more states than that take
too long. `FirstCat = 1` as version 0 is not read.

`Parts`: the constants are in `MCParts.cfg` under the module they are for, the sets and
functions among them in `MCParts.tla`. They are the least with which the interesting case happens: keys, batches of two in
periods of five packets, so that a batch spans a change, four periods, so that
each key is replaced once in use, one lost connection; CAM, two resets and an
interval of two seconds within nine; menu, answers of one and three digits;
monitor, a sample in every band of the scrambling ratio, on each side of both
thresholds, rounds of one and two seconds, with and without tuning; SAP, an
interval of two seconds and four names of which one is too long; NIT and PSIP,
two sections, three versions, and three channels of which one is in no section; clients, two, one listening port; HLS, two services,
two chunks in a playlist, a period of a second; SDT, two sections, and a service
that the second version does not describe; EIT, two versions of two and one
sections; PMT, versions of two and three packets, so that the parts of one may
be taken for the other's; start and close, all options, none, or all but one;
datagrams, of three packets, or two with the RTP header, and eight packets, so
that the two sequence numbers come round.
`CHECK_DEADLOCK FALSE` in these two runs: clocks, versions and packets have
bounds, and the closed program stops.

**Fairness.** Each thread runs when it can. The send thread of the ring, and both
threads in `CardThread`, contend for a mutex that is released again and again
(for a sleep, a decryption, a poll): strong fairness. Nothing is assumed of data,
of spurious wakeups, or of when the program is stopped. `poll` returns after its
timeout, which `CardThread` uses: the main thread is woken at least that often.
`EveryPacketLeaves` asks for `2 * BatchSize - 2` packets after the one that must
leave, since as many may wait in an incomplete batch for ever. `Psi` and `Parts`
check safety alone and assume no fairness: what they say of time ("announced
after the interval", "asked again") is said by clocks in the state.

**Violations**, each a disagreement between the code and its documents:

- `OverflowDetected`: the monitor's test leaves out the packets in the batch.
- `HandledOnce`: after a timeout of the card the main loop treats, and sends,
  the packets of the reading buffer again; the same when the writing buffer is
  full, or on a spurious wakeup. `NothingSkipped` shows that this is all that
  can go wrong with the order.
- `SignalCloses`: the handler takes a mutex its own thread may hold; and the card
  thread leaves without a wakeup for the main thread.
- `OscamHasLatest`: the main thread stores a new PMT and marks the channel as to
  be asked in one step (`chan_new_pmt`, `chan_update_CAM`), and copies the PMT for the
  monitoring thread in the next (`scam_new_packet`). A CAPMT sent in between has
  the PMT the channel had before, and the channel counts as asked; the second
  step then has nothing to copy, and oscam keeps the old PMT.
- `NonSentKept`: a partial write of a queued packet overwrites the packet after it.

Other observations, stated as conditions of the properties: `written_len` may be
-1 when it is used as a length (`SentInOrder` holds for parts inside their
datagram only without `flush_on_eagain` and with a queue of two datagrams); the
client after a disconnected one misses a datagram (`HolesExplained` lists it
among the four reasons); a partial write counts as an error for the timeout,
while README_CONF.asciidoc:321 says a client is disconnected "if no data have
been sucessfully sent" (`ClosedAfterTimeout` is about whole packets).

In `TsPacket`, `AllAccountedFor` names the two reasons for which a section that
arrived intact is lost. A packet refused early (no payload, a PES, a field too
big) may take the last full section out and return 0, so nobody reads it
(`unreported`). And sections are `skipped` even by a caller that takes all of them:
those of the last packet but one still wait when the next is added, so the 15
places "in one TS" (ts.h:816) have to do for two. Tables are sent again, so both
cost time only. `NeverDropped` says the branch called unrecoverable (ts.c:405)
is not reached.

`KeepsStreaming` says that a service stays up across the steps in which the tables
are read again. The sentence "once a section was sent ahead" in `Served`,
`NoGhosts` and `KeepsStreaming` names the reason found by TLC: `autoconf_read_pat`
marks a section as seen before it looks at `current_next_indicator`.

Every property has a slip of the code it catches; the slips are operators that
stand before the definition they alter, under a comment that begins with
"Slip of".

What the other modules showed of the code, besides what they check. Each is
the reason for an exception in a property, or a fact noticed in modelling:

- *Autoconfiguration.* A CAT of version 0 is never read (autoconf.c:113-125).
  When a PMT moves to another PID, the comment "if old PMT in the PID list we
  replace" (autoconf_pat.c:292) is not what happens: the new PID is looked for,
  so the old one stays first. A service that leaves the PAT before it is READY
  is streamed after the next SDT. With oscam, a READY_EXISTING channel becomes
  READY between two sections of a PAT. A READY channel whose type becomes data
  stays READY. Filters are never closed. The PCR is looked for in entries of
  an array that were not written. NIT and PSIP are read once; a VCT channel
  without descriptors has a NULL name with LIBUCSI (autoconf_atsc.c:336-366).
- *Keys.* With constant keys no message of oscam is read (scam_getcw.c:127-135).
- *CAM.* `ca_resource_connected` and `ca_info_ok_time` are never cleared, so a module
  that falls silent after its CA info is neither reset nor given up. The menu is shared by two
  threads without a lock; `EnquiryFits` holds all the same.
- *Monitor.* With `tuning_no_diff` less than `timeout_no_diff` the program never
  exits, though doc/README_CONF.asciidoc:88 says that it does; hence the
  condition of `NeverForever`. `tune_it` is called with `chan_p->lock` held, and
  its wait does not look at `interrupted` (tune.c:1259-1293).
- *SAP.* A channel that is removed stays announced (sap.c:643). The name is
  read without the lock (sap.c:372), hence `crossed`. Time 0 is taken for "never".
- *Clients.* A request kept with status 501 stays in the buffer and is answered
  again with what comes next (unicast_http.c:1025). After a hang-up the
  descriptor before is treated again (unicast_http.c:442). `update_chan_net` sets
  `num_clients` to zero for a channel that has clients (mumudvb_channels.c:306), hence
  `zeroed`; it goes below zero when they leave.
- *HLS.* The age of a chunk is tested without the lock (hls.c:412); a chunk can last
  three periods, against doc/README_CONF.asciidoc:338; the checksum of the master
  playlist is a sum, so a change may not be seen (hls.c:262), hence `collided`; the
  periodic thread is not joined and descrambled channels are stopped after
  `hls_stop`, hence `late`.
- *SDT rewriting.* A channel that gets READY after a section of a version was
  read may be skipped until the next version; sections of two versions can be
  counted together; `generated_sdt_version` is set even on failure, hence `failed`;
  the packet is overwritten in place, so a skipped channel sends what the one
  before it made (rewrite_sdt.c:422). *PAT*: only one section is kept. *EIT*: the
  search for an element misses the last one, so a table may be listed twice.
  *PMT*: the number of parts is wrong for lengths 184 to 187, and the packet with
  which a channel is rewritten sends what the shared buffer held (rewrite_pmt.c:237).
- *Start and close.* `scam_channel_stop` is called for rings never started
  (mumudvb_mon.c:307). `ERROR_DEL_FILE` when the program fails before the PID file
  exists (mumudvb_mon.c:413-421); the names of the list files are not set when
  the failure is before line 868 of mumudvb.c. A failure of `hls_start` exits with code 0
  (mumudvb.c:1114). Joins give up after five seconds and free what the thread
  uses; the card and HLS threads are not joined, the getcw thread is cancelled
  and not joined. Before the card is tuned signals have their default effect and
  files are left.

## 4. What is proved

Every safety property that a run checks is a theorem too, but for `KeepsStreaming`.
The theorems about a module are in its `..._proofs`. For the thirteen of `Parts` the
invariants and their lemmas are in `Parts_lemmas` (seven components), `Rewrites_proofs`
(the three of rewriting, and `Datagrams`) and `Parts_proofs` (`Sap`, `NitPsip`, and the
theorems). They hold for all
values of the constants that satisfy the assumption the component's module
states (`SizesAssumption`, `QueueAssumption`, `PsiAssumption` and so on), which TLC
evaluates on the values of the runs. Each has the same plan: an inductive
invariant, one lemma per action that keeps it, and one implication per property.

*ScamRing.* `TypeCorrect` and `Accounted` need no bound on the stream: they hold
when the ring overflows. The invariant `IInv` adds to `TypeOK` and
`CountersAgree` what the local steps know (a send thread past its test has
`to_send > 0` because nobody else takes packets; a decsa thread in its delay
has a packet to take). The other six theorems assume `MaxInFlight =< RingSize`.
Their invariant `StreamInv` says of each packet in flight what its slot holds,
by the interval it is in (to send, in the batches, to descramble): it needs all
intervals at once, since a packet moves from one to the next. The step that
carries it is the arithmetic of slots: distinct ranks less than a ring apart have
distinct slots (`%` is handled by lemmas of their own). `Refinement` maps every
step to a step of `DelayLine` or a stutter: `M_Write` to `Arrive`, `D_HandOver` to
`Release`, `S_Take` to `Emit`. `OrderKept` (packets leave in order, each once)
is part of what the refinement says; no run repeats it.

*CardThread.* `TypeCorrect`, `StreamKept`, `NoPacketSkipped`. Besides
`BuffersHoldStream` the invariant says what the card thread knows after it
tested the room without the mutex (the main thread can only make more of it),
and how far the main loop is in its buffer.

*Datagrams.* `DatagramsNeverTooLong`, `DatagramsNothingLost`, `DatagramsNumbered`, the three
conjuncts of `RewrittenRight` about it as theorems of `Datagrams` itself (`D!Spec`, in
`Rewrites_proofs`), under `SizesAssumption` (a packet and the RTP header fit in a datagram). `NeverTooLong` is not inductive alone:
a channel that got its header while its buffer fills would pass the bound. `Settled`
says that this cannot be, as `rtp` only changes while the buffer is empty and nothing was
sent. `NextFollows` ties the number that is prepared to the last one sent.

*UnicastQueue.* All six properties of the run: `TypeCorrect` (no queue passes
`unicast_queue_size`), `BytesCounted`, `InOrder`, `Explained`, `ClosedOnlyAfterTimeout` and
`CatchUp`. Sums over a queue (`Bytes`) are a recursive function, and a few lemmas say
what adding, removing and cutting a packet make of them; they rest on an
induction for subsets of `Nat` which the module derives from the least-element
principle (`Induction`). The invariant has six parts, since each property
needs the others: `AllCounted` ties the counter of a queue to its packets;
`Loop` says which clients the walk has served and what is left of the walk after
a client was removed; `Sending` which packet is in `buffer`; `Streams` that
what a client got, what is being sent to it and its queue are one chain of
bytes that ends with the last datagram (`Chain`), and a chain without a hole
for a client that lost nothing (`Whole`).

*Psi.* `TypeCorrect`, `DescramblerUpToDate`, `PidsFiltered`, `PatHonest`, `ServedRight` and
`NoGhost`, for any number of services, sections, PIDs and changes. Besides the sizes,
`PsiAssumption` says of a transponder that no PID carries two PMTs, or a PMT
and a stream: with a PID shared by two PMTs, `PatHonest` is false.
Every packet does the same to the state whatever its table (`autoconf_new_packet` ends
with the filters and the status of all channels), so the invariant `MainOk` is
about the state of the main thread, and each operator of `Autoconf` and
`Channels` has a lemma saying what it keeps. `ServedRight` and `NoGhost` need what
the main thread knows of the tables before all of them were read:
`PatKnown` and `SdtKnown` hold section by section, for the versions in force;
`StatusKnown` adds the status that follows the last section of the SDT; and
`GoneChannels` says which states a channel can be in whose service left.

*TsPacket.* All six properties of the run: `TypeCorrect`, `SectionsWhole`, `InOrderAlways`,
`NoneLost`, `PromptAlways` and `NeverDroppedAlways`, for every size of packets, headers
and buffers, every stream of sections that fit, and any number of faults.
The first half of `TsPacket_proofs` has what the proof needs to know of bytes (what the parts of a sequence
are, what a run of sections and the end of one look like, what putting a section
in the buffer or taking one out makes of it, what packets the sender makes);
the second has the invariant and one lemma per action. The invariant has eight
parts. `Stream`, `Assembled` and `Call` describe the sender, the partial section and
the calls left to do: every byte is one that was sent, an end is an end of
one section, a beginning is a run of sections. `Held` ties `buffer_full` to
`full_lengths` by functions that say where each section ends and which one it is.
`Ordered` says more than `InOrder`: the sections in the buffer are older than any
byte still to come. `Accounted` says for an intact section that is not known yet
where it is: it begins in the packet that is gone through, or what is in
`data_partial` is all of it so far, and the next bytes come with the next counter.
`Room` is what `NeverDropped` needs: what lies in the buffer after the i-th section
came in at most `MAX_FULL_PACKETS - i + 1` payloads, since each packet takes one
section out. `Prompted` counts a packet that comes twice like any other, so `Prompt`
needs no exception for it. `TypeCorrect` says that neither
`full_lengths` nor `buffer_full` is ever written past its end, for all sizes.

*Parts.* `DescramblingIsServed`, `MonitorIsHonest`, `AnnouncesAreRight`, `ClientsDoAgree`,
`FilesDoAgree`, `RewritesAreRight` and `EndsCleanly` are the seven invariants of run
`Parts`. `EachAlone` says that a step of the whole is a step of a component or leaves
its variables alone; so each component's invariant, kept by its own steps, holds
in `Parts`. None of the properties is inductive alone. What each needs besides:

- *ScamKeys* (`KeysInv`): the ring is in order and holds this period and the last;
  and a key that came in time is in one of three places. It is given and not yet
  taken, with all of the batch of the next round still of the period before
  (`Pending`); it is the one loaded (`Loaded`); or no packet of its period is left (`Past`).
- *Cam* (`CamInv`): each reset gave the module its interval (`CamResets`), and a channel in
  trouble before the last check was looked at then (`CamChecked`). *CamMenu*: the
  interface types a digit only where there is room for it.
- *Monitor* (`MonInv`): the time without traffic is counted from a round after the last
  good one (`MonQuiet`), and, without tuning, from the next one at the latest (`MonCounted`).
- *Sap* (`SapInv`): what is announced was last sent an interval ago at most (`SapClock`); a
  name that is not in the message is pending for this poll or the next (`SapFresh`); the
  version in the message is the one on air plus the messages built since, modulo
  16 (`SapVersions`). TLC showed that the last needs `rebuilt`: after 16 messages that
  were never sent, a version comes again with another text.
- *NitPsip* (`NitInv`): a section counted while it applied is in the channels listed by
  then (`NitValues`), and nothing asks for a packet once the table is read (`NitDone`).
- *Clients* (`ClInv`): the listening sockets come first in the table and stay there, and
  after them each client once (`ClTable`); the list of a channel has each client whose
  `chanptr` it is, once (`ClLists`, `ClChannels`); what the walk still owes is ahead of it (`ClDue`).
- *Hls* (`HlsInv`): a service has one slot, whose list of chunks is bounded and counted
  (`HlsSlots`); files and playlists are those of slots (`HlsFiles`, `HlsMaster`); the age of a
  chunk is bounded by the last round that scanned its slot, which depends on how
  far the task is in this one (`HlsLastRound`, `HlsAges`).
- *SdtRewrite* (`SdtInv`): a source in use is a section of the version read last
  (`SdtSource`); a channel still to be rewritten is in none of the sections seen
  (`SdtUnseen`), so one that is skipped is in none at all (`SdtSkipped`).
- *EitRewrite* (`EitInv`): a table has at most two places in the list, since one is appended
  only when the search missed the last element (`EitTwice`); once a section of the
  version on air was stored, none of an older one is being received (`EitGiven`).
- *PmtRewrite* (`PmtInv`): what is copied is counted (`PmtCopied`), and it is the section
  being received as far as it came (`PmtSoFar`), unless a packet was lost.
- *Lifecycle* (`LifeInv`): the steps of the start and of the close have ranks, and what is
  there, released, joined or alive is bounded by the rank the program is at.

What the parts assume of their constants, besides that times and sizes are numbers:
`ScamKeys`, that the ring spans a period at most (both come from outside the program:
the delay from its user, the period from the broadcaster); `Monitor`, that the lower
threshold is not above the upper one (80 and 30 by default, log.c:107, and the
configuration does not test it; the two are a hysteresis); `Hls`, that time and
count of the rotation are at least 1, which unicast_http.c:315-325 enforces, and that there
is a service, none of number 0, as 0 marks a free slot; `Sap`, that the interval is
not negative (`atoi` would read a negative one, and an announce would go out at
every poll); `NitPsip` and `SdtRewrite`, that a service is in one section or in none;
`PmtRewrite`, that a PMT takes a packet or more; `EitRewrite`, that there is a table to look
for; `Clients`, that a finite number of channels have a port
(`max_clients` may be anything); `CamMenu`, that an answer has a digit.

*Only model-checked*: liveness (`EveryPacketLeaves`, `StopReturns`,
`EveryPacketHandled`, `MainWakesUp`), which is out of the prover's reach; and `KeepsStreaming`, which holds on the bounded run only. With a change more than the run allows, a service that leaves
and comes back between two sections of the SDT may be judged by the `free_CA` it had
before, until the rest of the SDT is read.

## 5. Plan

What is left to do: `Clients` with the send thread of a descrambled channel, which may
close a client during a walk (scam_send.c:159). It joins `Clients` and `UnicastQueue`, and the
invariants of both speak of what is assumed there not to happen.

**Not modelled and why.** Parsing of options, tuning, ioctls, logging, socket calls
and pages are sequential and change no shared state; the EN50221 stack,
libdvbcsa, `pthread/` and the Windows port are other people's code or the same
program again. T2-MI is a demultiplexer over one buffer at the level of bytes:
its bounds would be a numeric model of its own. Failures
of `malloc` are left out everywhere. Two boundaries are left to tests: sizes of
the ring that overflow `round_up` (scam_common.c:69) and batches of 256 packets,
which an `unsigned char` does not index (scam_decsa.c:130); the model's sizes are far
from both.
