# A formal model of gr-wisun

gr-wisun is a set of GNU Radio blocks and flow graphs that receive Wi-SUN FSK
frames (IEEE 802.15.4 SUN FSK) on one or many channels and hand them to
Wireshark. This directory holds TLA+ specifications of its stateful parts, from
the command line of a sniffer to the capture it writes, model checker
configurations for them, and machine-checked proofs.

* `X.tla` specifies component X. `MCX.tla` defines the inputs the model checker
  tries for it. `X.cfg` and `X_<question>.cfg` are TLC configurations.
* `XProofs.tla` holds the theorems about X; `InductionLemmas.tla` holds lemmas about
  natural numbers that several of them use.
* Within a module, `Op_fault` is the definition `Op` with a seeded fault. No
  action uses it. Replacing `Op` by it makes a property fail, which shows that
  the property can tell the code from a plausible slip in it.
* `PROJECT.json` lists components, runs, seeded faults, theorems, known hazards,
  and for every definition the lines of source it models.

Commands: `tlc -config X.cfg X` (or `MCX` where there is such a module),
`tlapm XProofs.tla`.

## The system

### Signal path of a channel receiver

`python/wisun/baseband_channel_receiver.py` connects, in this order

| block | state | what it does |
|---|---|---|
| `gated_power_squelch_relative_cc` | noise floor tracker, open or closed, trailing zeros left | passes bursts, tags their first item (`squelch_sob`) and the item behind them (`squelch_eob`), adds trailing zeros, drops the rest |
| or `power_squelch_relative_cc` (single-channel sniffer) | noise floor tracker, open or closed | an item for an item, zero outside bursts; one item late in opening and closing |
| `rssi_tag_cc` | sum and count of a window | tags power readings |
| quadrature demodulator (GNU Radio) | | one item for one item |
| `tag_based_dc_correction_ff` | no signal / estimating / correcting, sum, start of the burst | subtracts the average of a burst's first items from the rest of it |
| AGC, symbol synchroniser, slicer (GNU Radio) | | signal to bits |
| `correlate_sync_word_bb` | preamble counter, two shift registers, history | tags the first bit of a frame with its length (`wisun-packet`) |
| `packet_data_gate_bb` | items remaining, RSSI flags | passes the bits of frames only, moves tags along, picks the frame's RSSI |
| `data_whitening_bb` | header and payload bits remaining, PN9 register | de-whitens payloads |
| `unpacked_to_packed_bb` (GNU Radio) | | 8 bits to an octet, tag offsets divided by 8 and rounded |
| `tagged_stream_to_pdu` (GNU Radio) | | as many octets as the length tag says become a PDU |
| `pdu_fec_decode` or `pdu_fcs_check` | counters | decodes, checks, drops |
| `pdu_set` (GNU Radio) | | adds metadata |

### From channels to Wireshark

`multi_channel_receiver.py` feeds one channel receiver per active channel from a
polyphase channelizer. Each receiver's PDUs go through a `pdu_add_pcapng_header`
of its own, and all of these publish into one port that a FIFO is written from.
All receivers also publish into one `pdu_duplicate_monitor`, which counts frames
that came on two channels at nearly the same time.

### From the command line to the receivers

The applications under `apps/` make sure that their output is a FIFO (`cli.py`),
build one or several configurations from the tables of the standard
(`configuration.py`, `parameters.py`), plan sample rate and center frequency
(`multi_channel_sniffer.py`), build the receivers, open the output and run until
Enter is pressed or a signal arrives. State is what has been set up so far, what is
at the output path, whether the flow graph runs, and where a signal handler is.
The channel receivers of one multi-channel receiver are told their channel in a
dictionary that they share.

### How parts interact, and what is hard about it

* Blocks are threads. Two stream blocks share a bounded buffer. The scheduler
  calls `work` with any part of what has arrived and any room there is in the
  output: no result may depend on where calls end, and that is what unit tests,
  which run a flow graph to its end, hardly vary.
* Blocks talk to those behind them by tags at absolute offsets. A block that
  drops items has to move them; a block that changes the rate rounds them.
* Message ports are queues. A handler runs in the thread of the receiving block,
  one message at a time, and handlers of different blocks interleave between
  their publications.
* State survives the frame it belongs to: flags, counters, estimates and shift
  registers must be renewed exactly when the next frame or burst starts, also
  when the one before was cut short, overlapped or never ended.
* Counters and offsets are of several widths.
* A signal handler runs between any two steps of the program, also of another
  handler; another process may make the same FIFO, and its reader may leave it full.
* There is no persistence, no retransmission and no timeout in this code. Time
  matters in the duplicate monitor only.

### What makes each part correct

* *Squelch*: the noise floor is that of the recent past; a burst is passed
  whole and marked where it begins and ends.
* *DC correction*: a burst is corrected by its own beginning and nothing else.
* *Correlator*: tags exactly the frame starts the stream has.
* *Gate*: outputs the frames and nothing else, keeps every tag on its item, picks
  the second reading of a frame as its RSSI, never writes past its buffer.
* *De-whitening*: depends on the last length tag alone.
* *Framing chain*: one PDU for one frame, in order, with the frame's own bits.
* *Capture*: every frame once, in order within its channel, in a stream a reader
  can resolve.
* *Duplicate monitor*: counts repeats within a window of time and history.
* *FEC and checks*: what is damaged a little is published as it was sent, and
  nothing that was not sent is published as valid.
* *Channel plan*: every channel asked for is heard by one channel receiver, at the
  right channelizer output and under its own number.
* *Application*: what cannot be received ends it with an error before it starts;
  packets go to a FIFO only; it can be ended at any time, unless a full FIFO that
  nobody reads holds up its file sink, and it stops its flow graph.

## The modules

### PacketDataGate

`packet_data_gate_bb_impl.cc`. An item (a bit) is identified with its offset in
the input, so the output is a function from output offsets to input offsets and
"the right bits, in order" can be said without looking at bits.

| model | code |
|---|---|
| `read`, `written` | `nitems_read(0)`, `nitems_written(0)` |
| `remaining` | `d_remaining_samples` |
| `rssiDone`, `firstDiscarded`, `warningDone` | the three `d_packet_rssi_*` flags |
| `packetOffset`, `packetRssi` | `d_current_packet_absolute_offset`, `d_packet_rssi` |
| `tags` | `add_item_tag` on the output |
| `packets` | history: frames opened, for the properties |
| `Called`, `Forecast` | the scheduler's choice of `ninput_items` and `noutput_items`, restricted by `forecast` |
| `Work` = `DiscardAll`, `OpenPacket`, `Copy` | the three ways through `general_work` |
| `Arrive`, `Drain` | the neighbours and their buffers |

One call of `general_work` is one step: it is not interrupted, since only its own
thread touches its state. `CurrentTagOffset` is the difference of offsets
converted to `int`; `IntHalf` stands for 2^31.

### DataWhitening

`data_whitening_bb_impl.cc`. Output is the index of the PN9 bit an item is
combined with, `Plain` if none: two bits of the sequence may be equal, so this
says more than the sequence itself would. `Whiten` is one call of `work`. The
module is a part of `PacketFraming`, which has its neighbours.

### PacketFraming and FrameStream

`PacketFraming` composes the gate, the de-whitening, the packer and
`tagged_stream_to_pdu`: the output of one is the input of the next, every block
steps on its own. The last two are GNU Radio's; they are modelled from what the
receiver needs of them (rounded tag offsets, a length tag on the first octet or
an exception). `FrameStream` is the abstract specification of the chain:
detections outside an earlier frame are delivered, in order, and what has
arrived is delivered eventually, unless the receiver fails, which
`ThrowsOnlyAfterWrap` confines. `DeliversFrames` is `FrameStream!Spec` under the
mapping that traces a PDU back to the item its first bit was. The chain
implements it, fairness included.

### SyncWordCorrelator

`correlate_sync_word_bb_impl.cc`. `Step` is a pass of the loop: the preamble
counter follows the bit itself, the delimiter register is fed from 16 bits ahead
and the header register from behind that. The properties say what a start of
frame is in the stream, without registers. What a header decodes to is the
constant `FrameLength`. Of the tags put on a frame the length and the length of the
preamble are modelled, as the alternating bits before the frame.

### NoiseFloorTracker, GatedSquelch, DcCorrection, BurstPath

`NoiseFloorTracker` is the class in `noise_floor_tracker.cc` as a record and
functions on it: `Update` is `update` with `update_noise_floor`. The smoothing
filter is not modelled: its output is the input of the model, any sequence of
power levels.

`GatedSquelch` is `gated_power_squelch_relative_cc_impl.cc`. `Sample` is a pass
of the loop in `general_work`, `Processed` the loop, which ends when the input is
used up or the output allowed is produced, and `Squelch` a call. A sample is its
index. The module also has `power_squelch_relative_cc_impl.cc`: `PassOrMute` is a
pass of its loop and `Mute` a call; which of the two blocks there is, is chosen at
the start (`squelch.gated`). They share the tracker and the statement of what a
burst is.

`DcCorrection` is `tag_based_dc_correction_ff_impl.cc`. For every output item it
has the set of offsets whose average was subtracted, `Copied` for none, and
`Stale` for an item that was counted as produced but not written. `SeekSignal`,
`LostAtStart`, `Estimate` and `Correct` are the ways through `work`.

`BurstPath` connects the two; the blocks between them output one item for one
item and do not touch the tags.

### MultiChannelCapture, DuplicateMonitor, MultiChannelReceiver

`MultiChannelCapture` is `pdu_add_pcapng_header_impl.cc` in as many instances as
there are channels. `PublishSection`, `PublishInterface` and `PublishPacket` are the
stretches of `handle_msg` up to one `message_port_pub` each; between them the
handlers of other channels run. A block is its kind, its channel and its frame.

`DuplicateMonitor` is `pdu_duplicate_monitor_impl.cc`. `Handle` is `handle_msg`. The
time a frame arrived is the time it is *handled*, while what a user means is the
time it was *received*; the model has both and the constant `Latency`, how long a
message waits at most, relates them. It is an assumption on the host, not on the
code.

`MultiChannelReceiver` puts both behind the same channel receivers, as
`multi_channel_receiver.py` connects them: `Hear` is a frame that a channel
receiver publishes to its header block and to the monitor.

### WiSunParameters, Channelizer, SnifferSetup, SnifferProcess

`WiSunParameters` has the tables of `parameters.py` that a configuration depends on,
in kHz. `Channelizer` has the plan of `multi_channel_sniffer.py` and the two
conversions of `util.py`.

`SnifferSetup` is what happens from a command line to the receivers:

| action | code |
|---|---|
| `RejectMode`, `DescribeOfdm`, `ConfigureMode` | the ways through `build_configuration` with `WiSunConfiguration.__init__`, for one mode after the other |
| `TuneMulti`, `TuneModes`, `TuneSingle` | sample rate and center frequency in the three kinds of application |
| `BuildMulti`, `FailAssertion` | `multi_channel_receiver.__init__`: all asserts, and the loop over the outputs |
| `BuildSingle` | `single_channel_receiver.__init__` |

A receiver is its output, the channel number it puts on frames, whether it reports
them as outside the mask, and its samples per symbol.

`SnifferProcess` is the life of the application around it: `CheckPath` and `MakeFifo`
are the two calls of `ensure_fifo`, `OpenOutput` the construction of the file sink,
which waits for a reader, `Start` to `WaitForGraph` `run_until_interrupted`. A signal
starts `HandlerStop`, `HandlerWait` if the handlers are installed, and kills the
program if not; a further signal starts the handler anew on top. `sink` is the thread
of the file sink, which is GNU Radio's: a running flow graph may start to `Write`, and
the write is `Written` or finds the FIFO full (`Fill`) until its reader reads on or
closes it (`Drain`). `wait()` returns when this thread has ended too: `Wait` is enabled
only when it is not in a write. The environment is the reader, who opens the FIFO and
drains it, `OtherMakesFifo`, `Answer` (Enter or the end of the input) and `Signal`.

### Fec and FrameReception

`Fec` has the functions of `fec.cc` and the encoder of `python/wisun/fec.py`,
which the tests take as what is on air. Sizes are the real ones: blocks of 16
symbols, eight states, both check sequences. The Viterbi decoder keeps with every
survivor its bits instead of pointers to predecessors; ties are decided as by the
loops of the code. A register of a check sequence is the set of its bits that are
one, and the octets are taken in as the bits they are sent as.

`FrameReception` follows one frame: `Damage` flips bits of what `OnAir` sent,
`Acquire` is what the correlator does with the header (`decode_coded_phr`, the
number of octets to collect), `DecodeCoded` is `handle_msg` of `pdu_fec_decode`
and `CheckUncoded` that of `pdu_fcs_check`. Each way out of the handlers is an
`outcome`. Whitening is left out on both sides: it flips bits independently of
their values. A frame that announces more than was sent stays in `collecting`, as
what would follow it on air is not modelled.

The header is decoded twice, on its own first, where the code that runs on behind
it is cut off, so that damage to its last symbols may leave two words equally near.
`docs/sun-fsk-fec.md:257` says that the result is the same as that of the full
decode; it need not be, which the handler expects (it logs the difference), and
which does no harm: `LastHeaderBitHarmless`.

## The runs

| run | question | properties |
|---|---|---|
| `gate` | does the gate do its job under any chunking? | `TypeOK` `NoOverrun` `PacketsIntact` `OnlyPacketBits` `DetectionsHandled` `TagsOnTheirItemsBeforeWrap` `PacketRssiIsSecondReading` `TruncationReported` `AllItemsRead` |
| `gate_tag_wrap` | and tags, after 2^31 dropped items? | `TagsOnTheirItems` is violated (finding 1) |
| `framing` | does the chain implement `FrameStream`, with the right bits and RSSI, and break before the wrap? | `PdusAreFrames` `PdusDewhitened` `ThrowsOnlyAfterWrap` `RssiIsOwn` `DeliversFrames` |
| `correlator` | are the tags the frame starts? | `TypeOK` `DetectionsAreStarts` |
| `burst` | are bursts passed, marked and corrected by themselves? | `TypeOK` `FloorIsRecentMinimum` `BurstsMarked` `CorrectedByOwnBurst` `PathCatchesUp` |
| `burst_gap` | and is what lies between them passed on? | `GapsUnmodified` is violated (finding 3) |
| `capture` | what does a reader get from several channels, and which frames count as duplicates? | `ReceiverTypeOK` `FramesRecorded` `DescribedForOneChannel` `ReadableOnceOpened` `DuplicatesCounted` `CopyReported` `RetransmissionPasses` |
| `capture_sections` | can every packet be resolved? | `InterfacesDescribed` is violated (finding 2) |
| `coded` | what becomes of a damaged frame? | `TypeOK` `ErrorsCorrected` `ValidMeansSent` `SurvivorIsNearest` |
| `sniffer` | does an application receive what it is asked for, and can it be ended, as long as its reader reads? | `TypeOK` `PlanHolds` `ModesNeedConditions` `ChannelsReceived` `SingleAlwaysFits` `OutputIsFifo` `CleanExit` `Ends` |
| `samples` | are samples per symbol 2 for every mode? | `TwoSamplesPerSymbol` is violated (finding 5) |
| `ofdm` | is every OFDM mode rejected? | `OfdmRejected` is violated (finding 4) |

### Bounds

Every run explores its whole bounded state space. Deadlock is not checked: a
bounded stream ends, and the liveness properties say that everything before the
end was dealt with.

* `gate`: octets of 2 bits, frames of 1 or 2 octets, streams of 7 items with up
  to three length tags anywhere, or two adjacent frames with up to four readings
  on any of their bits; buffers smaller than two frames. So frames open in one
  call, are copied in several, and overlap; a call is limited by each of the
  three bounds; all three RSSI flags are set, and reset by the next frame.
* `gate_tag_wrap`: `IntHalf` 3, so that a stream of 8 reaches it. Nothing but the
  position of the wrap depends on the width.
* `framing`: two detections of frames of up to 3 octets anywhere in 9 items, or
  frames with up to three distinct readings anywhere on them, overlapping frames and
  ones shorter than their header included; all buffers at or near the least with
  which the chain can progress. `IntHalf` 6 is reached only by frames that start at
  the end of a stream: the chain throws on them, and `ThrowsOnlyAfterWrap` says that
  nothing but the wrap makes it do so. A tag displaced by the wrap is then behind the
  end of the stream, as it would be 2^32 items ahead of it.
* `correlator`: every stream of 12 bits with 3 preamble bits, 3 delimiter bits
  and 2 header bits: room for a start, a false start within it and another behind
  it, and for the initial contents of the registers to leave them. The header
  register is wider than the header, as in the code.
* `burst`: for either squelch, every sequence of 10 levels out of two, half windows of 3, so that two
  half windows are retired, the floor rises when all of a window is loud and falls
  again; 2 trailing zeros, so that a burst starts before, with and after the last
  of them; estimates of 2 samples, so that bursts are too short for one, just long
  enough, and longer. A buffer of three items is limiting.
* `capture`: two channels with two frames each of two values, so that a repeat is
  told from a reorder; a third channel adds no pair of handlers. The monitor has a
  history of two, so that frames are evicted, window 2 and latency 1, so that copies
  are inside, at the edge of and outside either. Channels and frames are symmetric;
  this run has no liveness property, which symmetry would not allow.
* `coded`: PSDUs of 2, 3, 4 and 5 octets, so that both parities of the length and
  both check sequences occur, with both values of padding. In the shortest frame
  with a payload, coded and uncoded, every one and every two bits are damaged, in
  the other coded ones every one. Two more frames have the blocks behind the
  header jammed, which brings the decoder to refuse them or to a wrong PSDU. The
  search for a nearer word is over the first six symbols: twice the memory of the
  code, so that all states are reached and paths meet again.
* `sniffer`: every FSK mode of every domain and plan on the default oversampling, with
  no channel list, its two ends, gaps, masked channels and one beyond the plan; other
  oversamplings; the single-channel sniffer on three channels; everything a
  configuration is rejected for, and OFDM; several modes on four sample rates and
  three center frequencies, which hold all, some or none of their channels. Two
  signals, so that a handler is interrupted by another.
* `samples`, `ofdm`: the part of these command lines that each is about.

### Fairness

A stream block has a thread that calls `work` again as long as it has input and
room (GNU Radio's thread-per-block scheduler), and a message block's thread is
woken by a message in its queue: `WF` of each block's step (`gate`, `framing`,
`burst`). In `sniffer` it is the program that is scheduled, `WF` of `Program`, and the
thread of the file sink, `WF` of `FileSink`: a write ends or finds the FIFO full. Nothing
makes the user answer or send a signal, or anybody open the FIFO or go on reading it.
`Ends` therefore says two things. A sniffer that waits for somebody to open the FIFO can
be ended. One whose reader has opened it and left it full cannot: `stop()` does not get
the file sink out of its write, and `wait()` (`cli.py:193`, `205`) waits for it. This is
the one exception, stated as the premise `ReadOn`, that no write stays blocked for good;
without the premise TLC finds the sniffer that is stuck. Nothing is assumed of
sources: the air may fall silent. No strong fairness is needed, as no block's step
is disabled by another's once it is enabled.

## Proofs

A theorem holds for all values of the constants that its module's `ASSUME`s allow, and
for any number of steps; an assumption of its own is named below. For each component
one inductive invariant carries the properties, none of which is inductive alone.

### The gate: `PacketDataGateProofs.tla`

About `Spec` of the gate, for all streams, frame lengths, buffer sizes and widths of an
int, under `GateConstants` only (non-zero sizes, streams of the right type).

| theorem | states |
|---|---|
| `TypeCorrect` | `Spec => []TypeOK` |
| `FramingCorrect` | `Spec => []FramingInv` |
| `OutputFits` | `Spec => []NoOverrun` |
| `FramesComeOutWhole` | `Spec => []PacketsIntact` |
| `OutputIsFrames` | `Spec => []OnlyPacketBits` |
| `NoDetectionLost` | `Spec => []DetectionsHandled` |
| `TagsStayAligned` | `Spec => []TagsOnTheirItemsBeforeWrap` |
| `RssiCorrect` | `Spec => []RssiInv` |
| `RssiOfEveryFrame` | `Spec => []PacketRssiIsSecondReading` |
| `TruncationOfEveryFrame` | `Spec => []TruncationReported` |

That a copied item is the right one needs to know where in which frame the block is.
`FramingInv` adds this as `FramesInOrder`: every frame opened is finished (wholly behind
both cursors) or is the current one, whose `remaining` tells the position in the input
and in the output alike; while something remains there is a current frame; and of two
frames one is before the other in the input and in the output. The proof splits on how a
step moves the cursors: not at all or over items without a detection (`SkipStep`), up to
a detection, adding a frame (`OpenStep`), and by `n` copied items (`CopyStep`), where `n`
is at most what remains, what is there and what fits (`ToProcessBounds`). Alignment of
tags follows as below `IntHalf` the conversion to int is the identity (`ToIntValue`), and
dropped items only ever increase the difference, so that what holds now held when earlier
tags were put.

`RssiInv` adds what the three flags say about the readings of the current frame that
were passed on (`RegistersTell`): none yet, the first, the second and what it was,
whether a later one was too low. The tags the gate makes itself are on items it has
already written (`OwnTagsBehind`; for the truncation tags below `IntHalf`), so that none
of them lands on an item of a later frame, and a frame cut short by the next one, or by the end of a call, keeps its own reading.

### The chain: `PacketFramingProofs.tla`

| theorem | states |
|---|---|
| `ChainRunsGate` | `FramingSpec => Spec`: what is proved of the gate holds in the chain |
| `ChainCorrect` | `FramingSpec => []ChainInv` |
| `PdusAreWholeFrames` | `FramingSpec => []PdusAreFrames` |
| `NoThrowBeforeWrap` | `FramingSpec => []ThrowsOnlyAfterWrap` |
| `WhiteningCorrect` | `FramingSpec => []WhiteInv` |
| `PdusAreDewhitened` | `FramingSpec => []PdusDewhitened` |
| `PdusRssiCorrect` | `FramingSpec => [](RssiEarly /\ PdusCarryRssi)` |
| `RssiOfEveryPdu` | `FramingSpec => []RssiIsOwn` |
| `ChainImplementsFrameStream` | initial states map to initial states of `FrameStream`, and as long as the offset has not wrapped every step maps to a step or a stutter of it |

`ChainInv` is `FramingInv` with where the packer and the PDU block are: the tags are at
the rounded offsets of frames (`TagsMoved`), the PDUs lie in a row in what was packed
(`PdusInARow`), and the PDU block is at the end of a frame, each PDU being one
(`PdusOnFrames`, before the wrap). It rests on `DetectionsSpaced`, an `ASSUME` of
`PacketFraming`: two length tags that round to the same octet would be taken for each
other. The correlator justifies it: `DetectionsAreApart`, below, proves that it never tags
two items that close. Everything about PDUs is said *until the wrap*; what happens behind
it is finding 1.

`WhiteInv` says of the de-whitening what each written bit was combined with, and that the
counters are those of the bit's distance from its detection (`ReadyFor`). A call is a
recursive function of its items (`CountersOfItems` unrolls it with `FiniteRecursion`); the
step is an induction over them, with `CountersForward` for one item: a detection on it
starts the counters again, otherwise they advance by one. `PdusDewhitened` had been stated
without its hypothesis about the wrap, and held on the streams of the run; the proof did
not go through, and a longer stream shows why. If the frame in which the offset wraps
follows a frame with a detection in its last half octet, the tag of that detection is
rounded to where the lost one should be, and the PDU block takes its length.

`RssiEarly` says that the gate's RSSI tag is not behind the reading it carries (the first
item of the call that met it). So a reading before the last half octet has its tag rounded
to an octet of its own frame; of the tags on those octets the last is chosen, and others
come from before the frame (`LastIsOwnRssi`).

### The correlator: `SyncWordCorrelatorProofs.tla`

| theorem | states |
|---|---|
| `CorrelatorCorrect` | `Spec => []CorrelatorInv` |
| `CorrelatorTypes` | `Spec => []TypeOK` |
| `StartsAreDetected` | `Spec => []DetectionsAreStarts` |
| `DetectionsAreApart` | with 16 bits of preamble and one of the code's two delimiters, no two detections are within 16 bits, whatever is received |

`CorrelatorInv` says what the registers hold as a function of the stream: the delimiter
register is the number that the next `SfdBits` spell, the header register (reduced to the
header) the one that those behind them spell, and the counter the length of the
alternation so far. A number spelled by bits is a function defined by recursion on their
number; the shifting and masking of the code are lemmas about it. `DetectionsAreApart`
is a fact about the two delimiters: neither holds the alternation that a preamble ends in
at an offset that would let a second frame start within the first one's delimiter.

### The capture and the monitor: `MultiChannelReceiverProofs.tla`

About `ReceiverSpec`, for all channels and frames, and all windows, histories and delays in
the monitor's port (`MonitorConstants`: all of them natural numbers).

| theorem | states |
|---|---|
| `ReceiverCaptures` | `ReceiverSpec => Spec` of the capture |
| `CaptureCorrect` | `Spec => []CaptureInv` |
| `EveryFrameRecorded` | `ReceiverSpec => []FramesRecorded` |
| `OneChannelReadable` | `ReceiverSpec => []DescribedForOneChannel`, if interfaces are described |
| `ReadableBetweenOpenings` | `ReceiverSpec => []ReadableOnceOpened`, if interfaces are described |
| `CountIsExact` | `ReceiverSpec => []DuplicatesCounted` |
| `CopiesReported` | `ReceiverSpec => []CopyReported` |
| `RetransmissionsPass` | `ReceiverSpec => []RetransmissionPasses` |
| `ReceiverTypesCorrect` | `ReceiverSpec => []ReceiverTypeOK` |

`CaptureInv` says that in every channel the section comes once, the interface behind it,
and the packets behind both (`LeadingFirst`, `BlocksInOrder`), and that the packets of a
channel are the frames it has handled; which place of the capture holds the n-th of them is
counted (`Rank`), not selected recursively, so that a new block at the end leaves all earlier
counts alone. Two theorems assume `PrependInterface`, a flag of the block's constructor that
all applications set (`multi_channel_receiver.py:140`, `gr-wisun-single-channel-sniffer:99`):
without it no interface is ever described.

`IInv` adds what the monitor knows without storing it: the port is a queue in which
nothing waits longer than `Latency` (`PortInOrder`), so that what was handled was
handled in time (`HandledInTime`); `d_recent` is the end of the history, all of it or
`d_history` frames (`RecentAreLast`), so that searching it finds what searching the
history would (`ReportedRepeat`); and the counter is the size of what was reported
(`CountsReported`).

### The burst path: `BurstPathProofs.tla`

For all finite sets of powers and all values of the constants: window, settling, threshold,
trailing zeros, buffers and estimation length. The assumption on the powers, that
none reaches full scale times the threshold, is that of `NoiseFloorTracker`.

| theorem | states |
|---|---|
| `BurstPathTypes` | `Spec => []TypeOK`, with the bounds of both buffers |
| `FloorAlwaysRecent` | `Spec => []FloorIsRecentMinimum` |
| `BurstsAlwaysMarked` | `Spec => []BurstsMarked` |
| `AlwaysOwnCorrection` | `Spec => []CorrectedByOwnBurst` |
| `StartsAlternate` | between two start marks there is an end mark |

`BurstsMarked` says of the squelch's output what it is, but not why the next pass of the
loop continues it: nothing of it mentions the tracker, whether the squelch is open, or
how many zeros are left. `Good` does, by the powers alone. Behind sample `r - 1` the
tracker's two minima are those of the half window that sample is in and of the one before
(`Tracks`); `d_output_active` is whether the sample is open (`Follows`); and while the
squelch is closed the zeros left tell which sample was open last (`Zeros`). So the
tracker's threshold is the one of `Open`, which never mentions a tracker (`AboveIsOpen`),
one pass of either loop leads from `Good` to `Good` (`SampleGood`, `PassOrMuteGood`), and
so does a call, which is a recursive function of passes: `LoopExists` finds it, `LoopGood`
runs it. Samples that arrive change nothing of this (`GoodKept`), since every window ends
at its sample.

The correction sees tags only. `Inside(k, b)`, the burst that starts at item b has not
ended up to item k, is what it can know of a burst. Because marks alternate
(`EndBetweenStarts`) an item is inside one burst at most (`InsideOnce`). `DcState` says of
its state in front of item n that outside of the bursts all of them have ended, on item n
at the latest, and that inside the estimate is of the first items of the burst that began
at `d_signal_start_offset`; `Item` says what this allows to be subtracted. Both are stated
for marks below the items read, which later calls of the squelch do not touch
(`MarksKept`), so the two blocks do not disturb each other. What leads back to samples is
that items inside a burst are consecutive samples from its first on (`InsideRuns`) and
that a sample without an end mark is inside one (`SampleInside`). The restart inside a
burst, for which `work` has code, needs no case in the proof: `StartsAlternate` excludes it.

### The applications: `SnifferProcessProofs.tla`

For all command lines (`CommandLineTypes`) and any number of signals.

| theorem | states |
|---|---|
| `PlannedBandReachesChannels` | for all channels, spacings and frequencies: in the band the multi-channel sniffer plans, exactly one channelizer output is at each channel asked for |
| `EveryChannelReceived` | `Spec => []ChannelsReceived` |
| `PlanNeverFails` | `Spec => []PlanHolds` |
| `ModesFollowConditions` | `Spec => []ModesNeedConditions` |
| `SingleChannelFits` | `Spec => []SingleAlwaysFits` |
| `ApplicationTypes` | `Spec => []TypeOK` |
| `ExitsClean` | `Spec => []CleanExit` |
| `OutputStaysFifo` | `Spec => []OutputIsFifo` |

The setup runs in a few steps, and its invariant is a record of what each has left:
configurations are accepted ones (`ConfigsBuilt`), the tuner is as its application plans it
(`TunedOnce`), every list of receivers is the one for its configuration (`ReceiversBuilt`),
and a program that has crashed had a reason (`EndsExplained`). The work is in what these
imply. An accepted configuration is `Sound`: its channels are some and finitely many, its
symbol rate is one of the table's and its spacing at most 600 kHz, which follows from the
tables row by row and from their agreement, `TablesAgree`. TLC evaluates that
assumption about tables completely, in every run of the module. A sampled band of whole
channels is a number of outputs around a channel (`Band`); in it, output k is at a channel
exactly if the channel is k above the center or as far below as the upper half wraps
(`ChannelAtOutput`), each channel of the band is reached once (`WithinBand`, `ReachedOnce`),
and folding of the spectrum leads to the same output (`Folded`). So the asserts of
`multi_channel_receiver` hold exactly if the band covers the channels
(`CoversIffReceived`), which is `ModesFollowConditions`, and with `PlannedBand` (how far a
channel is from the middle) `PlanNeverFails`.

The life of the process needs that the program has a status only when it has ended
(`EndedOnce`), that a handler runs only after its installation and before the end
(`HandlerRuns`), and that nothing but a FIFO comes to the path behind the check
(`OnlyFifoAppears`).

### FEC and checks: `FrameReceptionProofs.tla`

What is about `Fec` alone is proved without assumptions, for whatever is received. What
is about `FrameReception` holds for all setups: any payload the header can announce
(`FramesFitHeader`, the 11 bits of `fec.py:155`), both check sequences, any padding, any
bits on air jammed (`JammedOnAir`) and any number damaged beyond those.

| theorem | states |
|---|---|
| `DecodedIsNearest` | for every sequence of symbols of any length: the decoder returns a word whose code is nearest to it, and as metric the bits they differ in |
| `SurvivorAlwaysNearest` | `Spec => []SurvivorIsNearest` |
| `InterleavingUndone` | deinterleaving inverts interleaving, for every sequence of whole blocks of any symbols |
| `CodedLengthExact` | for every frame length, what is collected is a whole number of blocks and exactly header, PSDU, tail and padding |
| `LastHeaderBitHarmless` | an even length and the next one occupy the same octets on air |
| `ReceptionTypes` | `Spec => []TypeOK`: nothing too short and no broken block reaches the decoder |
| `ErrorsAlwaysCorrected` | `Spec => []ErrorsCorrected` |

*The decoder.* `Decoded` is a recursive function over sets of survivors; `DecodedIs`
unrolls it (`FiniteRecursion`) into a `Trellis`, and `Survivors` is what holds in every
column of it: each survivor's metric is the number of bits its own word's code is wrong in
(`Errors`), and into the state where any word leads, one survivor leads that is no worse.
A column keeps it because the code and the state behind a symbol depend on the bits up to
it only (`CodeLocal`), so a word is an older one with a bit more, and the branch of that
one's rival is among those that meet (`ExtendedSurvives`).

*What nearest is worth.* The code is not systematic and its tail is not used by the
decoder, so the bits at the end are less protected. `CodeDistance` counts from the first
difference on: two words are two bits apart in the symbol of that
difference, three with the next one, five within six symbols. With at most two wrong bits
the decoded word is therefore the one sent but for the last five bits, and with one but for
the last (`DecodedRight`). Behind a PSDU there are at least eight bits (`SentBitsIs`), which
is why that is enough for it; behind the header decoded alone there is nothing, which is
why `ErrorsCorrected` allows one damaged bit there, and why `LastHeaderBitHarmless` is
needed: the headers agree but for the last bit, so the same number of blocks is collected
(`HeaderAlike`).

*The air.* `Position` says where a bit of the code is on air. It is a bijection that keeps
the first block (`PositionInjective`, `PositionOnto`), so that as many bits of the code are
wrong as were damaged (`DamageCounted`), and in the header's block no more than there
(`HeaderDamage`).

*The specification.* `ReceptionInv` adds to the types that the air is what was sent except
for the damaged bits (`AirAsSent`) and that what was collected is whole blocks, or at least
a header (`Collected`). `CorrectedInv` says where a frame with little damage is on its way:
collected completely and as received, or published as sent. Neither `TypeOK` nor
`ErrorsCorrected` mentions what `pdu` holds, so neither is inductive alone.

### Induction: `InductionLemmas.tla`

The library states induction for predicates, which the provers cannot instantiate.
`InductionLemmas` states it for sets of natural numbers (`LeastNatural`,
`GreatestNatural`, `SetInduction`) and for functions defined by recursion
(`FiniteRecursion`, `RecursionUnique`), derived from the natural numbers being
well-founded. The proofs of the gate, the correlator, the capture, the burst path, the setup and the
decoder use it.

### Model-checked only

* Liveness (`AllItemsRead`, `PathCatchesUp`, `Ends`) and with it the refinement of
  `FrameStream!Spec` as a whole, fairness included (`DeliversFrames`): beyond the prover.
  Its safety part is proved.
* `ValidMeansSent` of `FrameReception`. It is a property of the check sequences for the
  damage of the setups that are run and not of the code alone: enough jammed bits turn any
  frame into another valid one. With as little damage as `ErrorsCorrected` allows it
  follows from `ErrorsAlwaysCorrected`, as no frame is published twice.

## Findings

1. `packet_data_gate_bb_impl.cc:116` holds the difference of two 64 bit offsets in
   an `int`. After 2^31 dropped bits every tag is put 2^32 items away from its
   item, `tagged_stream_to_pdu` finds no length tag and throws. With a squelch that
   lets noise through all the time that is 12 hours at 50 kbit/s. `gate_tag_wrap`
   shows the misplaced tags, `framing` that the chain then throws and does not break
   otherwise, and `TagsStayAligned` proves that tags are right until then.
2. Each channel opens a PCAPNG section of its own and describes its interface in
   the next message. A packet of another channel can get in between and names an
   interface that its section does not have (`capture_sections`). `capture` shows
   that this is confined to the moments between the two messages, and cannot
   happen with one channel.
3. `tag_based_dc_correction_ff_impl.cc:102` returns 1 without writing `out[0]` when
   a call starts on the item with the end tag: the first zero behind a burst is
   then replaced by whatever the buffer held (behind the ungated squelch it is the
   last sample of the burst). `burst_gap` shows it, `burst` that no other item is
   affected.
4. `build_configuration` (`cli.py:176`) prints the radio configuration of a supported
   OFDM mode before it rejects it, which raises `NotImplementedError`
   (`configuration.py:297`): a traceback instead of the message at line 179 (`ofdm`).
5. The comment at `multi_channel_receiver.py:17-19`, and with it the docstring at
   `qa_multi_channel_receiver.py:10-12`, says that channel spacing over symbol rate is 2
   for every FSK mode in every domain. By the tables it is for some only, and
   for modes like number 5 on the EU's 200 kHz plan it is not whole: the configuration
   accepts them and the receiver's assertion ends the application (`samples`; `PlanHolds`
   says that this and an oversampling that does not divide the outputs are the only ways
   a planned band fails).

## Not modelled

* Signal processing (channelizer, demodulator, AGC, symbol synchroniser, IIR
  smoothing, taps): numerics without protocol state.
* `rssi_tag_cc` and `clipping_detector_c`: a windowed mean and counters for the log. The
  gate, which reads the tags of the former, is checked against every placement of them.
* `pdu_add_pcap_header`: used by no application; its control is that of
  `MultiChannelCapture` with `PrependInterface` FALSE.
* The octets of PCAPNG blocks, TAP headers and padding; log texts and printed tables.
* The tag `dc_correction_correction_start`, which no block reads.
* `argparse`, and the options that print lists and exit.
* The graphical sniffer's event loop (Qt) and plots; its receivers are those of the
  multi-channel sniffer.
* Bindings, block descriptions, build files, and `docs/doxygen`, which is generated
  code and two thirds of the lines of the repository: the share of all lines that is
  modelled stays small, although of the blocks, receivers and applications nearly all
  control is.

## Plan

What is left, in this order:

1. `RssiTag` before the gate, so that the RSSI properties hold for readings as the
   tagger places them.
2. A run of `FrameReception` that shows the header decoded alone to differ from the
   full decode, against `docs/sun-fsk-fec.md:257`.
