# A TLA+ verification project for gr-ccsds

gr-ccsds is a set of GNU Radio blocks that receive and send CCSDS/ECSS telemetry:
the receive chain finds sync markers in a stream of symbols, cuts frames out,
sorts them, decodes them; the transmit chain encodes frames and puts markers and
preambles in front of them. This directory models the parts of it that keep state
from one call to the next, checks them with TLC on small instances and proves
properties of them with TLAPS, for every value of the constants that the assumptions
named in section 5 admit.

Paths below are relative to `src/`; `lib/x` stands for `lib/x_impl.cc`.

## 1. Inventory

### How the parts interact

A block is called by the GNU Radio runtime on a thread of its own. The runtime
calls `work()`/`general_work()` with as many input items as it likes (for a
`gr::block`, at least what `forecast()` asks for), message handlers between two
calls of `work()`, and `stop()` once at the end. So inside a block nothing
interleaves; what varies is *how the stream is cut into calls*, in which order
messages arrive, and when the stream ends. Blocks talk to each other through
streams, tags in those streams, and messages (a pair of header dictionary and
data, or `EOF`). Only `asynchronous_start` shares state between threads.

| Component | State | Operations | What is hard | Correct means |
|---|---|---|---|---|
| frame sync buffer (`frame_sync_buffer`) | four rotating vectors, number of items, offset counter | `read_signal`, `advance`, reads by absolute position | three vectors of different lengths, partial reads, unsigned arithmetic at the start of the stream | every index holds the symbol, correlation and SNR the offset arithmetic says it does |
| frame synchroniser (`frame_sync`) | the buffer, a queue of frames being copied, a sequence number | `work`, `processBuffer`, `processFrameQueue`, `stop` | one position is generated by several blocks; a frame is copied over several rotations; flush at the end | each frame sent once, with its own symbols, its header from its own ASM, in time, none lost |
| frame sync configuration | constants | `make` | signed head and tail lengths | lengths are not negative |
| frame sorter (`sort_frames`) | ring of slots, current frame number | `store_frame`, `flush_frames`, `work`, `stop` | gaps, late frames, duplicates, EOF at any time | slots are not mixed up, nothing twice, best duplicate kept, nothing lost |
| ambiguity resolver (`mpsk_ambiguity_resolver_f`) | SEARCH/LOCK, confidence, message buffer, offset within a symbol, tag bookkeeping | `general_work`, `stop` | frames that begin inside a symbol and span calls; consumption in symbols; tags | the frames of a scanner that sees the whole stream at once |
| convolutional coding (`conv_encode27_bb`, `conv_decode27`) | shift register, puncturing position, two bytes of buffered bits | `general_work`, `process_message` | bits left over between calls, two computations of one length | the bits of the code, whatever the calls |
| bit and byte message blocks (`randomiser`, `reversebits`, `soft_to_hard_message`, ...) | the randomiser's register, a stop flag | one message in, one out; EOF | each on a thread of its own; state between messages; EOF twice | the conversion of each frame by itself, in order, EOF behind the last |
| stream and message adapters (`blob_msg_source_b`, `softbit_msg_sink_f`, `tag_storage`, ...) | a queue, a counter, a stop flag, stored tags | handler and `work` | a message over several calls, tags seen ahead of their items, end of stream | bytes in order, header at the right byte, every tag once, end after the last byte |
| frame assembly (`add_asm`, `trunk_tail`, `block_prefix_bb`, `mpsk_preamble_cc`) | position within a prefix or block | handler, `general_work` | lengths that are not checked | marker in front of every frame, tail cut off |
| block codes (`rs_*`, `ldpc_*`, `interleaving_aux`) | buffers that survive a call | one message in, one out | two interleavings that must be inverse; giving up half way | errors that are few enough per codeblock are corrected, wherever they lie |
| asynchronous start | one static state, mutex, condition | `start`, `stop`, `wait_for_start`, `is_stopped` | threads | no thread waits for a start that has happened |
| the receiver program (`python/bpsk_rx.py`) | options, queue, counters of `rx_callback` | merge, check, build, callback on a watcher thread | priorities of three sources; an 8-bit counter; a thread that dies | the right option wins, stages agree on lengths, losses are counted |
| headers, utilities | none | conversions | unsigned arithmetic | - |
| modulation, loops and filters, SNR, Doppler and orbit | real numbers | - | numerical | out of TLC's reach |
| GRC, SWIG, generated documentation | none | - | - | configuration only |

The hazards, each at its line, are in `PROJECT.json` under `hazards`.

### What is not modelled, and why

- Floating point signal processing (`pll_cc`, `dll_cc`, `lpf2`, `snr_est`,
  `mpsk_detector_soft_cf`, constellations, the interpolation of the SNR, Doppler
  and orbit code; `sgp4` is vendored): real-valued state whose correctness is
  numerical.
- libfec, libldpc, the GNU Radio runtime, PMT and VOLK: external. The runtime
  appears as the nondeterminism of the calls, libfec as the codes it implements.
- The LDPC blocks: a length check and one call of libldpc, which is not part of the
  repository.
- `block_prefix_bb`: `set_output_multiple` (`block_prefix_bb_impl.cc:55`) makes every call
  begin and end between two blocks, so a call is one loop that finds no state of an
  earlier one; what it puts out is plain to see, and to test.
- Blocks without state between two items: `pack_bit_to_bytes`, `softbittobit`,
  `byte_to_softbits_bf`, `mpsk_mod_bc`; `mpsk_preamble_cc` writes complex samples;
  `softbit_msg_source_f` is `blob_msg_source_b` without headers; `msg_null_src`
  sends nothing, `message_info` only prints.
- Debug output of every block, the wording of warnings, the layout of headers, the
  conversion from hexadecimal, the validation of arguments in `make()`.
- Most of the Python in the repository. `python/bpsk_rx.py` is the one program in it
  with state of its own and is modelled (`Receiver`). The rest is the class
  library that doxygen's XML is parsed with (`docs/doxygen/doxyxml`, of which
  `generated/` alone is more than half of all Python), flow graphs that only pass
  constants to blocks, and the unit tests of the blocks. The core logic is the
  C++ in `lib/`, and that is where the models are.

## 2. Plan

The most important behaviour comes first: what the receiver does to a stream that
arrives in arbitrary pieces.

| Step | Modules | State |
|---|---|---|
| 1 | `FrameSyncBuffer` | model, run and proofs |
| 2 | `FrameSync` | model, run, proofs of all its invariants |
| 3 | `SortFrames` | model, run, proofs of all its invariants |
| 4 | `AmbiguityResolver`, `AmbiguityScanner` | model, run, proofs of its invariants and of the refinement |
| 5 | `ConvCode`, `ConvEncode`, `ConvDecode`, `ConvLink` | model, run and proofs of all its properties |
| 6 | `MessageBlocks`, `MessagePath`, `TagStorage` | models and runs; proofs of all safety invariants |
| 7 | `AsynchronousStart` | model, run and proofs |
| 8 | `ReedSolomon` | model, run and proofs |
| 9 | `Receiver` | model, run and proofs |
| 10 | the frame synchroniser feeding the frame sorter by messages | open |

No module uses a `RECURSIVE` operator, so that all can be proved about.

## 3. The modules

### FrameSyncBuffer (`lib/frame_sync_buffer.cc`, `.h`)

`buf` is the object: `items`, `offset_counter`, `signal`, `correlation`,
`snr_tags`, named as in the class. `read_signal` and `advance` are the methods;
`offset_start`, `offset_last_symbol`, `localOffset`, ... are the methods of these
names. A symbol is its position in the input stream; a correlation value is *the
tuple of symbols it was computed from*, an SNR tag *the number of symbols seen
when it was estimated*. So a stale or misplaced value is visible as such. The
energy correction is computed symbol by symbol and rotated with the signal, hence
not a variable. `BufferSpec` drives the buffer by any client that reads pieces and
rotates only a full buffer (`advance` throws otherwise). `CorrelationInPlace` is about
the positions that the loop of `read_signal` has come to, `CorrelationAvailable` about
those that the header file calls available; between the two lies the position that the
loop leaves out (section 6).

### FrameSync (`lib/frame_sync_impl.cc`)

Extends `FrameSyncBuffer`. `queue` is `d_frame_queue`; a task has the fields of
`frame_copy_task_t`, its message buffer is the sequence of symbols copied, its
header the symbols its score was computed from. The list is a set here: no two
tasks match (proved: `NoFrameTwice`), and list order only decides the order of
messages that leave in one call, so `out` is a sequence of batches.

| Action | Code |
|---|---|
| `Work(n)` | the runtime calls `work()` with n symbols |
| `WorkPartial` | an iteration of its loop that does not fill the buffer |
| `WorkBlock(index, amb)` | an iteration that does: search, `processBuffer`, `processFrameQueue`, `advance`; or the exception of `queueFrameOutput`, with what was queued before it |
| `WorkReturn` | the last `processFrameQueue` |
| `StopEmpty`, `StopSearch(index, amb)` | `stop()`: fill with zeros, search what is left, flush, EOF |

Which position of a block has the largest correlation, and with which ambiguity,
is open: any may win. `status` becomes `failed` by an exception and stays so,
since the runtime ends the thread. Assertions are compiled out of the default
(Release) build, so they do not restrict the model; the two that a call may break
are recorded in `violated`.

### SortFrames (`lib/sort_frames_impl.cc`)

The variables have the names of the members. `store_frame` and `flush_frames` are
split at the iterations of their loops (`Receive`, `MoveWindow`, `StoreFrame`;
`ReceiveEof`, `FlushStep`, `FlushEnd`) and `mode` keeps everything else out in
between. `Drop` is any message that is only warned about. `Stop` and
`WorkAfterStop` are the end without EOF; the runtime is free not to call `work()`
after `stop()`, and in that case the frames of the window are lost. `offered` and
`accepted` are history variables. `EofPassedOn` counts the EOFs in the output, so that it
says of each EOF received that it leaves the block, behind everything else.

Which of several frames without a score is kept is stated three times in
`include/ccsds/sort_frames.h`, and differently: the first received (lines 51-52); the first
with `pick_highest_score` and the last without (81-83); the last with it and the first
without (85-86). The code does the last of these. `StoreFrame` models that, and
`BestIsKept` judges by scores only.

### AmbiguityResolver, AmbiguityScanner (`lib/mpsk_ambiguity_resolver_f_impl.cc`)

A soft bit is its position. `matches` says at which positions and in which of the
ambiguity streams the correlation exceeds the threshold; if one search sees
several matches, any of them may have the largest correlation. Each iteration of
the loop of `general_work` is an action: `SearchFound`, `SearchFailed`, `Fill`,
`CheckKept`, `CheckLost`, and `WorkReturn` when fewer bits are left than
`forecast` asks for. `d_msg_buffer_fill` is not initialised by the constructor:
both values are initial states. Of the tags only `rx_time` is modelled; a tag whose value
is neither a pair nor a tuple of two (`malformed`) makes `extractTags` return early. The time of a frame is
the reference and the *unsigned* difference of the positions (`FrameTime`, modulo `Word`).
`skipped` is a history variable: the tags that `updateTags` takes for read without having
read them. `FrameTimeFromLastTag` says what holds of the times in spite of that, and
`FrameTimeRight` what the header file promises, which does not hold.

`AmbiguityScanner` is what the header file promises, without calls, buffers and
symbols: a scanner over the whole stream that searches, locks, delivers,
confirms, tolerates and loses. `Scanner == INSTANCE AmbiguityScanner WITH ...`
maps the resolver to it: what has been read but not delivered (the message
buffer, the offset within a symbol) is still to be dealt with for the scanner.

### ConvCode, ConvEncode, ConvDecode, ConvLink (`lib/conv_encode27_bb`, `lib/conv_decode27`)

`ConvCode` has what encoder and decoder share: polynomials, patterns, and the code
of a whole stream as a function of its bits, which is the reference. `ConvEncode`
is the encoder block; `d_buffer` and `d_buffer_count` are one sequence of bits, the
shifts and masks are concatenation and `SubSeq`. A call is `Enter`, an
`EncodeByte` per iteration and `Return`. `ConvDecode` is the message handler of the
decoder, with the conversion of polynomials, start and termination state and
unpuncturing; libfec is external: `Survivors` is the set of paths that fit the
buffer without an error, and the decoder returns one of them (`Guess` if there is none). `ConvLink`
puts the encoder, a receiver that cuts frames out of the stream, and the decoder
(`Decoder == INSTANCE ConvDecode`) together, as `python/qa_conv_decode27.py` does.
`CodeUnique` says of the polynomials that no frame that is sent shares what is
transmitted of its code (`FrameCode`) with another. Marker and frames have any number of
whole bytes; `NextBytes` are the bytes with which a marker and a frame that have been
begun can go on.

### MessageBlocks, MessagePath (randomisers, bit reversal, markers, sinks, sources)

`MessageBlocks` has the conversions of the message blocks as functions of a frame:
`Randomise` and `RandomiseSoft` (`randomiser`, `randomiser_softbits`),
`ReverseBits` (`reversebits`), `TrunkTail`, `SoftToHard`, `AddAsm`, `Pack`. A frame is a
sequence of bits, and a randomiser's register is state that a message leaves behind.

`MessagePath` connects blocks by `Subscribers`; each has a thread (`running`), a
queue of messages and its stop flag. The flow graph is one of two:

    softbit_msg_sink_f -> randomiser_softbits -> trunk_tail -> soft_to_hard_message
                                                     +-------> softbits_msg_to_bytes_b
    blob_msg_sink_b -> reversebits -> randomiser -> add_asm -> blob_msg_source_b

| Action | Code |
|---|---|
| `Feed(b, n)` | `work()` of a sink with n items |
| `Convert(b)`, `ConvertEof(b)`, `Harden` | the message handlers of the blocks between |
| `SourceMessage`, `PackerMessage` | the message handlers of the sources |
| `Work(b, space)` | `work()` of a source with room for so many bytes |
| `Finish(b)` | the thread of a source ends because its `work()` returned -1 |
| `EndOfInput(b)` | the thread of a sink ends because the input has ended |
| `Interrupt(b)` | the runtime ends a thread wherever it is: `tb.stop()`, a "done" from a neighbour at the port `system`, or an exception of the handler; with all three the runtime then calls `stop()` |
| `Post(b, m)` | anybody else posts a message to a source |

The runtime never calls `work()` of a block that has no streams. The converters and
`harden` return -1 from a `work()` that is not called, so that they end by `Interrupt` only,
of which nothing is certain. `trunk_tail` and `add_asm` read a message without looking at its
length (`Reads`): `trunk_tail` throws when the message is too short, and `add_asm` reads
behind it, so `Convert` is not enabled for such a message, and the thread may only be ended.

`published` and `arrived` are history variables, and `tags` is the set of the tags
that the source has put on its stream. The reference of `FramesArrive` is
not the code again: it is the linear recurrence `Prbs` of the randomiser
polynomial and a formula for each bit (`HardAt`, `SentAt`). That of `StreamWhole` and
`HeadersInStep` is what a source makes of each message that came (`BytesOf`,
`HeadersOf`), one after the other (`Concatenated`), without any queue.

### TagStorage (`lib/tag_storage_impl.cc`)

The stream is a set of tags (offset, key, number). Upstream adds a tag (`add_item_tag`) at any
time of its own call, to any item of that call and in any order, and the tag is visible at once,
before the item is produced (`produce`). `general_work(n)` looks at the tags up to `LookAhead`
items beyond the n that it consumes. `stop` may come at any time. `InOrder` is the order in
which the runtime returns tags: the k-th is the one that k - 1 others come before. `ordered` is
a history variable: upstream has added its tags in the order of the stream so far.
`TagsInStreamOrder` is about that case; otherwise the look-ahead may store a later tag
before an earlier one.

### AsynchronousStart (`lib/asynchronous_start.cc`)

The one module with threads that share memory. Each thread has a `pc`, one value
for each place between two accesses to the mutex, the state or the condition
variable; `wait` and `notify_all` are those of boost, with spurious wakeups.

### ReedSolomon (`lib/rs_encode_impl.cc`, `lib/rs_decode_impl.cc`, `lib/interleaving_aux.h`)

A symbol records what it was made from: a byte of a frame, or a parity symbol of
the data of a codeblock. The code of libfec is external and is modelled by its
distance: at most `E` errors give the data back, more make the decoder fail or
find a wrong codeword. `Encode` is the handler of the encoder. `Decode` is the decoder's, given a message
that a burst has hit or that arrives with another length, with its early return that
leaves `d_buf_data` half written (`Good`).

### Receiver (`python/bpsk_rx.py`)

`phase` is the place in `main()`: `getFileConfig`, `merge`, `validate`, then the four
constructors that `receive_path` calls one after the other (`construct(name)`, in the order
of `NextStage`), the output (`receive_path`), and `running`. A constructor passes to its
decoder the length it finds in the options (`Told`) and may change `options.message_bits`
for those behind it (`Changed`). From then on frames arrive (`Deliver` with
some lost before it, `DeliverShort`) and the watcher thread takes them out of the queue:
`Watch` is `rx_callback`, `WatchShort` the exception that ends the thread. `account`
is a history variable: the frames really missed since the lock, and the gaps that the
eight bits of a number cannot show (whole turns of the counter, that is 256, 512, ... frames).

The decoders are external because they have to be: `bpsk_rx.py` cannot run at this
commit. `viterbi27_bb`, `framer_sink_dual`, `randomiser_bb`, `rs_decode_bb` and the `crc16` that
`python/crc16.py` asks of the bindings are not in the repository, nor is the class
`ccsds_conv_encode`. The model says what the program does given decoders that hand on
the frames of a link in order; the checksum, which changes nothing in the account, is left out.

## 4. The runs

| Run | Shows |
|---|---|
| `frame_sync_buffer` | *violation:* the last position before the overlap of a full buffer does not have the correlation that the header file calls available |
| `frame_sync` | one frame before and after each ASM, a head and a tail symbol, any search result, any cut into calls, stop at any time, two positions known in advance: signal, correlation, SNR tags and absolute reads stay in step; each frame is sent once, with its own symbols, its header from its own ASM, not later than necessary, none that was found or known in advance is lost, and the assertions hold until `stop()` |
| `sort_frames` | the four configurations (duplicates kept; best, last or first kept): slots are not mixed up, nothing is sent twice, the best scored duplicate is kept, EOF empties the ring and is passed on as the last message |
| `sort_frames_lost` | *violation:* when the window moves over a slot it is cleared without being sent |
| `resolver` | two bits per symbol, frames of three bits that begin anywhere in a symbol, missing and stray markers, two time tags of which one may be malformed: whole frames, every symbol consumed once, from which tag the time of a frame is counted and which tags are missed, termination, and the refinement of the scanner |
| `resolver_times` | *violation:* a frame with a time tag behind its first bit that an earlier call has read gets a time that is wrong by a turn of the 64-bit difference |
| `conv_link` | all five puncturing schemes, nine bytes cut into calls in every way: what is sent and what is stored are the code of one stream, the 16-bit registers suffice, no call is in vain, and the decoder recovers each frame at which the puncturing pattern starts anew |
| `async_start` | two sources that start and stop twice, two waiters: no wakeup is lost, and a waiter returns once a start is not taken back |
| `message_path` | either path, every interleaving of its threads, messages of others, threads that end early: frames arrive converted and in order, EOF comes last, sources put out all bytes, headers at their first byte, and EOF reaches the end of the path unless a thread on it is ended before |
| `tag_storage` | all streams of five items with up to three tags, added in any order and before or after the calls that look ahead at them, also several EOF tags: every tag once and none missed, in the order of the stream if they are added in it, finished when the EOF tag stored last is reached |
| `receiver` | every mixture of options on the command line and in the file, and the constructors one after the other: what each decoder is told; frames lost in every pattern over three wraps of the counter, whole turns of it included: the account of lost frames and the lock |
| `reed_solomon` | every burst of up to five symbols anywhere in two frames of three codeblocks, messages of wrong length, a decoder that fails or finds a wrong codeword: frames restored, damage confined, nothing stale |

### Bounds, and why they are enough

- `FrameSyncBuffer` (`frame_sync_buffer`): two blocks of history and a head of two symbols; the
  first full buffer already has the gap. The properties that hold of the buffer are checked in the run
  `frame_sync`, where it is driven by the synchroniser, and proved for every client of
  it and every geometry.
- `FrameSync`: a block of 3 symbols, buffer of 3 + 3 + 2 symbols; `MaxSymbols` 18
  is five blocks. A frame before and after means each position is generated by
  up to three blocks, and frames are longer than what one call supplies
  (`MaxRead` 4), so they are copied in pieces. The buffer is two blocks and
  two symbols (head and overlap), and its vectors are rotated five times. With five blocks, a frame is queued, copied
  and sent while later blocks still generate its neighbours.
- `SortFrames`: a ring of 3, numbers to 5, 4 arrivals: every gap up to and beyond
  the ring, wrap-around, late frames, three duplicates and an EOF.
  `sort_frames_lost` has one more arrival and numbers to 7.
- `AmbiguityResolver`: frames of 3 and markers of 2 bits at the positions 0, 1 or 2
  onwards, i.e. aligned and not aligned with symbols of 2 bits; four markers, of
  which any may be missing, and a stray one in another stream. `StreamLen` 24
  leaves room to lock, lose the lock and lock again; `MaxRead` 8 is more than
  forecast ever asks for. Tags at 3 and 6 are before, at and behind the first bit of a
  frame, depending on where the frames begin.
- `ConvLink`: markers and frames of one byte alternate; nine bytes reach the first
  frame at which the pattern of rate 7/8 starts anew (the fourth), which is the
  longest way of all schemes. Two bytes of room and two of input per call leave
  every number of bits from 0 to 15 between calls that a scheme can leave.
- `AsynchronousStart`: with two sources a start of one and a stop of the other
  interleave; two starts of each let a waiter miss one start and get the next.
  The proofs remove the bounds.
- `MessagePath`: the pieces fed are not multiples of a frame; two frames tell
  whether a register is reset; frames with and without reversed bytes, with bits
  blanked and cut off. The input of the soft path ends within a frame. Others post
  only to the sources, which is where the tests post. Two threads of the soft path may end
  early (`MaxInterrupts`): one block and one that listens to it.
- `TagStorage`: `LookAhead` 2 instead of 20, with calls of up to three items, so that a
  tag is seen by up to four calls, and its item may be produced before, between or after them.
- `Receiver`: frame numbers modulo 5 instead of 256. Four frames for a
  lock and eighteen sent leave room for three wraps, and for gaps of one and two whole turns before and
  after the lock.
- `ReedSolomon`: depth 3, two data symbols, one correctable error: bursts of three are
  just corrected, of four and five break one or two codeblocks of three.

`CHECK_DEADLOCK FALSE` everywhere: a stopped block does nothing more, and the
streams are bounded.

### Fairness

`SortFrames!FairSpec` and `AmbiguityResolver!FairSpec` have weak fairness of the
steps *inside* a handler or a call, and of nothing else. The thread of the block
runs that code to its end; nothing obliges the runtime to deliver a message or to
call `work()`. The liveness properties say accordingly that a flush that was begun
ends with EOF (`EofPassedOn`) and that each call returns (`WorkReturns`).

`MessagePath!FairSpec` has weak fairness of `Threads`, the *disjunction* of all that the
threads behind the sink do by themselves: some thread that can go on does. That
is weaker than fairness of every thread, and enough, since the input is finite. A thread
that runs handles the messages in its queue, and `work()` of the two sources, which have an
output stream, is called again until it returns -1; that is all `Threads` has. Nothing is
assumed of the input, of other senders, of the threads that the runtime ends, or of the
end of the blocks without streams: `EofTravels` asks of those only that they pass EOF on.

`AsynchronousStart!StartFairSpec` has weak fairness of a source inside a call and strong
fairness of a waiter inside a call: others take the mutex again and again, and a
waiting thread gets it in the end. No thread has to make a call, and no wait has to
end without a notification.

## 5. What is proved

The assumptions are those the modules state about their constants:
`BufferAssumption` (a block is longer than its marker, the marker is not empty),
`BufferBounds`, and `FrameSyncAssumption` (an output frame has no negative length,
positions known in advance are not in the first head symbols). They hold for every
configuration that does not throw at construction or at the first block.

**`BufferTypeCorrect`, `BufferSignalInPlace`, `BufferCorrelationInPlace`,
`BufferSnrTagsInStep`, `BufferAbsoluteReads`** (`FrameSyncProofs`). The invariant
`BufferInv` is the conjunction of type, signal, correlation and SNR tags, and of
`OverlapKept` (a buffer that has been rotated holds at least history and overlap),
without which an absolute position could lie outside. Per operation there is one
lemma for each conjunct (`ReadType`, `ReadPlaced`, `ReadCorrelation`, `AdvanceType`,
...). The step that needs thought is the correlation after a partial read:
`read_signal` starts `AsmLen` positions *before* the first new symbol, which is
exactly what the previous call had to leave out. `BufferAbsoluteReads` needs a
marker of two symbols or more (see section 6). `BufferCorrelationInPlace` does not reach the
position before the overlap, which `frame_sync_buffer` shows to be stale.

**`SyncTypeCorrect`, `SyncNoFrameTwice`** (`FrameSyncProofs`). `NoFrameTwice` is not
inductive: a block could generate a frame that has already left. `SyncInv` adds
that no queued frame has been sent (`OutApart`) and, while blocks may still come,
that everything sent lies before `offset - FramesBefore * BlockLen` (`OutBefore`).
A block found at `offset` or later generates nothing before that threshold
(`ProcessBufferQueue`), and only what lies before it is sent (`SendQueue`,
`indx_threshold`). That is why the threshold in the code is right, and the
mutant `indx_threshold_NoBefore` shows that a smaller one would not be.
`SyncTypeCorrect` includes that every symbol and correlation value is read
*inside* the buffer (`ReadInside`, `CopyTaskType`).

**`SyncFrameContents`, `SyncNothingOverdue`, `SyncFramesDelivered`,
`SyncAssertionsUntilStop`** (`FrameSyncProofs`). `TasksInv` speaks of every task of
the queue between two iterations: what has been copied are the first symbols of its
frame, the next one to be copied is still in the buffer or yet to come (a task never
falls behind a rotation), its header is there as soon as its marker has been read,
and every frame that a found marker or a position known in advance calls for is
queued or has been sent. Each theorem has the hypothesis without which TLC finds a
counterexample, that is, the configurations for which the code keeps it:

| Theorem | holds for | otherwise |
|---|---|---|
| `SyncFrameContents` | `AsmLen > 1` | the last symbol of a block is copied while the buffer still has an older one at that index |
| `SyncNothingOverdue`, `SyncFramesDelivered` | `HistoryLen > 0` | a frame whose marker begins at the last symbol of a block is never sent |
| `SyncAssertionsUntilStop` | `OutputLen > HeadLen`, and no head or one that is covered by a frame before (`HeadCovered`) | a frame leaves before its marker has come, or the SNR of the marker is looked up in the head area |

**`ResolverTypeCorrect`, `ResolverFramesWhole`** (`AmbiguityResolverProofs`), for every
length of symbol, marker and frame. `ResolverInv` says that the message buffer holds
the bits that come before the first one not used yet (`BufferBits`), that only whole
symbols are consumed (`WholeSymbols`, `OffsetBits`), that the message buffer is empty
between two frames and never full (`BetweenFrames`), and that everything sent is a whole frame.

**`ResolverImplementsScanner`** (`AmbiguityResolverProofs`): the refinement that the run
checks on one instance. Under the mapping the scanner's position is the first bit that
has been read but not delivered; `SearchFailed` is a `Skip` of
the scanner, `SearchFound` a `Lock`, `CheckKept` a `Confirm` or a `Tolerate`, `CheckLost` a
`Lose`; a `Fill` is a `Deliver` when it completes the frame and a stutter when it does
not, and calls and returns are stutters. It takes nothing beyond `ResolverInv`.

**`ResolverFrameTime`** (`AmbiguityResolverProofs`), for every length of marker. `TimesInv` says that of the
tags before the next update all but the skipped ones have been read (`Tidy`); that none
has been read beyond the symbol being used or the frame being filled (`ReadSoFar`); and of every
frame sent that its time is right if it has no tag behind its first bit (`TimeOfFrame`). The
difference does wrap round for the others: `resolver_times`.

**`LinkTypeCorrect`, `LinkOneStream`, `LinkCallsProduce`** (`ConvLinkProofs`), for all
polynomials, puncturing schemes and divisions into bytes and calls. `EncoderInv` adds to
type and `OneStream` that the shift register holds the last seven bits of the input
(`RegisterOf`), that the position in the pattern is that of the stream (`PhaseOf`), and
that a running call has output a byte or has input left (`CallInv`). The facts about the
recursive function in `Punctured` are proved by induction on the length of the stream:
puncturing two sequences one after the other is puncturing them together
(`PuncturedConcat`), only the place in the pattern matters (`PuncturedPhase`), and of the
16 bits of a byte at least 8 are kept (`KeptAtLeast`), so that every byte of input gives
one of output. `CodeOfByte` says that the code of a byte needs no more of the stream than
the register holds. From `CallAssumption` and `LinkAssumption` (marker and
frames are whole bytes, the marker is not empty).

**`LinkAlignedFramesDecoded`** (`ConvLinkProofs`): encoder, channel, receiver and decoder
together, for any marker and any length of frames in whole bytes. `DecodedInv` adds to
the above that the input is markers and frames in turn (`Alternates`), and that the frame last found has been encoded and is what was published
(`FoundInv`). The steps of the argument:

- The polynomials that `convert_poly` reverses and signs give in libfec the bits of the
  encoder (`PolyReversed`, `LibfecSame`); a polynomial without a connection would lose
  its inversion, zero having no sign.
- The survivors of the search are the paths between start and termination state that
  agree with every soft bit (`SurvivorsAgree`, by induction over its steps), that is, those
  whose transmitted code is the one received (`PathKept`).
- At an aligned frame the decoder, which starts the pattern anew with each message,
  unpunctures the code of that very frame: the bits kept before it and those kept of it
  add up (`CountJoined`), each is found where the bits kept up to it end
  (`KeptElement`), and the code of a frame depends on nothing but the frame and the
  bits of the markers around it (`FrameCodeIn`, `FrameReceived`). Since at least one of
  two bits is transmitted, the marker behind the frame has been encoded by the time
  enough soft bits have been sent (`FrameConsumed`).
- So the path of the frame is a survivor, and by `CodeUnique` the only one
  (`FrameDecoded`).

The hypothesis `CodeUnique` is about the constants only: two equal polynomials, say, or
zero, do not meet it. `MCConvLink` assumes it, so that TLC evaluates it for the
polynomials of the standard and every puncturing scheme, and the run checks that its instance is
one of those the theorem is about. For other lengths, markers and polynomials the hypothesis
is one to be checked; the theorem does not say which of them meet it.

**`StartTypeCorrect`, `MutualExclusion`, `WakeupNotLost`** (at the end of
`MessagePathProofs`: the state belongs to the message sources),
for any number of threads and calls. The invariant is type, `OneInside` and
`NoLostWakeup`; a thread can only go to wait while it owns the mutex, so no source can be
between setting the state and leaving the mutex at that moment. From `StartAssumption`
(sources and waiters are different threads).

**`PathTypeCorrect`, `PathEofLast`, `PathStreamWhole`, `PathHeadersInStep`,
`PathFramesArrive`** (`MessagePathProofs`), for any connection of the blocks, any lengths and input, any messages
posted by others, any order of the threads, and threads that end anywhere.

- `EofInv` is what `EofLast` needs: what waits at a converter ends with EOF and is
  nothing but EOF once the converter has sent it (`QueuedEofLast`); an EOF at a converter or
  sent by it was sent by the block before it (`EofFromAbove`); a sink that has sent EOF
  has ended, and `harden` that has sent it is stopped. `PathEofLast` has the hypothesis
  `OneUpstream`: each converter listens to one block. A converter goes on converting
  after EOF, so with two blocks in front of it a message of one can follow the EOF of
  the other. The flow graphs of the run and of the tests are like that, one of the
  examples is not (section 6).
- `StreamInv` says of each source that it has handled some p of the messages that came
  (`SourceAt`): the others are its queue, its output and its queue of bytes together are
  the bytes of the p, and it is stopped if and only if one of them was EOF. `InStep`
  says the same of tags and queued headers, and that the number of bytes
  put out is a place in the stream at which a message begins if it is a multiple of
  `BLOB_LEN`; `CountFirstBytes` counts the messages that begin within a call of `work()`.
  `JoinedSame` and `JoinedLonger` are about the recursive function `Concatenated`.
- `ArriveInv` is what `FramesArrive` needs: every block of the two chains, not only the
  last, has sent the frames of the input in order as it has to convert them
  (`FramesSent`, with `FrameAt` for frame f at each place); what waits at a block that still
  answers is just what the one before it has sent and it has not answered
  (`FramesQueued`); and the unfinished message of the sink begins where the frames sent
  end (`Gathered`). `RegisterDiagonal` and `PrbsBits` show that the register, shift after
  shift, puts out the linear recurrence `Prbs`; `SoftHardened` and `BytesMarked` that the
  converters one after the other make `FrameOf` of a frame. The theorem has two hypotheses:
  `StandardPath`, each block of a chain listens to the one in front of it and to no
  other, and there is one input; and `LengthsFit`, the sinks send messages of the type
  and length the blocks behind them are made for (other messages are dropped or, if a frame
  is not whole bytes, lost at the end), and the input of bytes is bits. `MCMessagePath`
  assumes `StandardPath` and `BlocksFit`, the part of `LengthsFit` that TLC can evaluate, so
  that the run checks that its instance is one of those the theorem is about.

The others need `PathAssumption` and `BlocksAssumption` only, and `PathEofLast` its
hypothesis.

**`StorageEveryTagOnce`, `StorageTagsInStreamOrder`, `StorageFinishedAtEof`** (`TagStorageProofs`), for every
look-ahead, every stream of tags added in any order, and every division into calls of both sides,
from `StorageAssumption`. The invariant `StorageInv` says that a tag that is not stored lies
where the next call looks for it (`StoredOnce`: upstream adds tags only to items that it has not
produced, and the block has not consumed); that as long as upstream keeps to the
order, everything stored comes before everything that is not (`StoredInOrder`), although the
look-ahead stores tags in the middle of an upstream call; and that the EOF offset is that of the
EOF tag stored last (`EofKept`). `InOrderFacts` (counting the tags before a tag numbers them
without gaps, by the pigeonhole principle) and `InOrderJoined` (two sets, one before the
other, are ordered one after the other) are about the order of tags.

**`ReceiverLossAccount`, `ReceiverLockEarned`** (`ReceiverProofs`), for every size of
the counter and all losses, from `ReceiverAssumption`. The invariant says that frames in the queue have increasing
numbers after the last one counted (`InOrder`), that `p_frameno` is that one's number, and that
the lock is at most the length of the current row (`RowInv`). Two numbers determine a gap
up to whole turns of the counter (`Numbers`), so that is how far the account can be right:
`LossAccount` leaves the whole turns out, and `LockEarned` has the exception of a gap of
whole turns before the lock, which `rx_callback` takes for none (`bpsk_rx.py:591`).

**`ReceiverPipelineBits`** (`ReceiverProofs`): for every size of a frame and choice of stages,
the decoders fit together and the number of bits handed on is right. `ChainInv` says what the
constructors before each point of `receive_path` have left in `message_bits`, and
`Constructed` that each is told the right length because of it; with another order of
`NextStage` it would not be.

**`CodeTypeCorrect`, `CodeRestoresFrames`, `CodeConfinesDamage`, `CodeNothingStale`**
(`ReedSolomonProofs`), for every depth, code and length of burst. At the centre is
`Transposed`: `interl_indx(b * width + j, I, width * I) = j * I + b`, that is, the
modulus with its special case for the last index is a transposition of a matrix. From
it follow `EncodedAt` and `WordAt` (data and parity interleaved one by one are
deinterleaved as one) and `FewErrors` (a burst of `I * E` symbols hits no codeblock
more than `E` times). The invariant adds that the messages on the link are those the
encoder makes (`LinkOK`). From `CodeAssumption` and
`SymbolAssumption`.

**`SortTypeCorrect`, `SortSlotsHoldOwnNumber`, `SortNothingTwice`, `SortBestIsKept`,
`SortNothingLeftAtEof`** (`SortFramesProofs`), for every window, configuration and number
of frames, from `SortAssumption`. The central fact is `Numbered`: slot k holds frames of
the number `current_frame - Back(k)` only, `Back` being the distance along the ring.
`SlotOfNumber` shows that `get_duplicates` computes its inverse for the window and, for
the number just behind it, the slot of the current frame; `Moved` that a step of the
window shifts every distance by one. `NothingTwice` needs that frames of different
slots have different numbers, that one slot holds each frame once (`Distinct`), and
that the frame being stored is younger than all others (`AllOlder`). `Best` strengthens
`BestIsKept` by `best_value`, which `KeptFrames` needs for every order of duplicates.
`Emptied` says how far a flush has come. The frames that the window loses on its way
(`sort_frames_lost`) contradict none of this.

### Only model-checked

- Liveness under fairness (`EofPassedOn`, `WorkReturns`, `EofTravels`, and what
  `AsynchronousStart` says of waiters): the prover does not reason about `WF` and `SF`.

Most type invariants are proved and are therefore not among the properties of the runs.
Where a proof needs induction (the recursive functions of `Punctured`, `Survivors`, `Concatenated`, `Registers` and `Prbs`)
it is done with sets: the set of the numbers for which a statement holds contains 0 and
with each number the next, hence all of them (`SetInduction` of `ConvLinkProofs` and
`MessagePathProofs`, from the well-foundedness of the natural numbers).

## 6. Remarks on the code

Met while modelling; those that a run shows on its own (`frame_sync_buffer`,
`sort_frames_lost`, `resolver_times`) are under `findings` in `PROJECT.json`.

Frame synchroniser:

- The loop of `read_signal` stops `AsmLen` symbols before the end, so the last position of
  the block in a full buffer has no correlation of its own yet, but a value that an
  older block left there. The header file says that only the overlap of
  `AsmLen - 1` symbols has none, and `findMaximumInBuffer` judges that position like any
  other (`CorrelationAvailable`, the run `frame_sync_buffer`). `FrameSync` lets any position
  win the search, so its properties do not depend on the value.
- `stop()` sends frames whose ASM never came into the buffer. They have no header,
  which breaks `assert( header_computed )` in `generate_pmt_to_send`; `AssertionsUntilStop` is about
  the time before and says nothing of that flush.
- Without history (no frames before and no head), a frame whose ASM starts at the last
  symbol of a block is never sent: the correlation at that symbol is there only after the
  buffer has moved on, and then the symbol has left it.
- `stop()` fills the overlap with zeros; the zeros may complete a frame, which is
  then sent like any other (`Expected` in `FrameSync` allows it).
- With a marker of one symbol there is no overlap, and `offset_last_symbol()` is one
  too large right after a rotation: the symbol that is copied then is one of an older
  block. The runs use longer markers, and `SyncFrameContents` and `BufferAbsoluteReads`
  assume one.
- With a head, an ASM found in the first head symbols of the stream makes
  `queueFrameOutput` throw, which ends the block, although the comment there says
  the frame is ignored.
- With a head and no frames before, an ASM found at the last symbol of a block gets its
  header only after the buffer has moved on. It then lies in the head area, for which
  there is no SNR tag, and the lookup breaks `assert(local_pos >= d_HEAD_LEN)`
  (`frame_sync_buffer.cc:237`; `Broken` in `FrameSync` records it).
- `assert(local_pos >= d_HEAD_LEN)` cannot fail when there are frames before and the head
  is not longer than the marker, as in the run `frame_sync` (`SyncAssertionsUntilStop`). With
  a longer head the first symbol of the oldest frame lies in the head area.
- A frame that is not longer than its head (a negative tail) is complete before its marker
  has been read; it is sent without a header, against `assert( header_computed )`.

Convolutional code:

- A soft-bit message with too few values passes the decoder's length check if its
  length is a multiple of eight, and breaks `assert(num_softbits >=
  d_BLOCK_NUM_BITS_IN)` (`aborted` in `ConvDecode`); in a release build values are read
  past its end.
- The decoder unpunctures each message from the start of the pattern. The pattern of
  the encoder runs on, so with rate 3/4, 5/6 or 7/8 only some frames meet it
  (`AlignedFramesDecoded` claims no more). The code warns that puncturing is not
  fully supported.
- `forecast` of the encoder wraps round when 9 to 15 bits are stored and room for one
  byte is asked for (`conv_encode27_bb_impl.cc:47`), and the conversion of the result to
  `int` is undefined. The model takes it to ask for nothing, so that every call that any outcome could
  allow is possible; even the one without input outputs the stored byte (`CallsProduce`). That the
  runtime calls at all is not claimed.

Ambiguity resolver:

- The time of a frame may be counted from a tag behind its first bit, when a call has ended
  within the frame: the difference of the unsigned counters (`mpsk_ambiguity_resolver_f_impl.cc:300`)
  wraps round, and the time is garbage (`FrameTimeRight`, the run `resolver_times`).
- `get_tags_in_range` excludes the end of its range, and the next update begins one behind
  the beginning of the last one, even if the last one had nothing to read: it skips the tag at that
  position. The very first update begins at 1, so a tag at item 0, where an SDR puts
  its first `rx_time`, is never read. Against it stand `mpsk_ambiguity_resolver_f_impl.h:252`
  ("Scan for all tags"; only the end of the range "is not included") and the comment at
  `.cc:264` ("if equal there is one sample to check"). `skipped` has these tags, and
  `FrameTimeFromLastTag` excepts them.
- Since only the beginning of the range is remembered, tags are read again by the next
  update. An update that ends earlier than the one before it (after a frame that ends
  within a symbol) makes `d_tag_last_rx_time` go back to an older tag; the header file calls it
  the counter "when the rx_time was seen last time" (`mpsk_ambiguity_resolver_f_impl.h:107`).

Frame sorter:

- The sorter's slot is computed modulo the window, so for a frame number that
  just left the window it is the slot of the current one. `send_frame` for that
  number sends the newest frame while older ones are still stored, and the slot that is
  reused next is cleared unsent (`sort_frames_lost`).
- `include/ccsds/sort_frames.h` says three different things of frames without a score
  (section 3, `SortFrames`); the code agrees with lines 85-86.
- A sorter that is stopped without EOF flushes only if the runtime calls `work()`
  once more.

Asynchronous start and message blocks:

- A converter (`randomiser_softbits` and the like) forwards the first EOF it gets and ends.
  In `examples/move2_postprocessing/move2_postprocessing.grc` (lines 644, 646 and 656) both
  `frame_sync` and `mpsk_ambiguity_resolver_f` feed one randomiser, and a selector gives
  the stream to one of them. When the stream ends, the idle one has nothing to finish and
  sends EOF from `stop()`, while the other may still have input: its last frames then
  reach the randomiser after EOF, and are converted behind the forwarded EOF or, when its
  thread has ended, not at all. This is why `PathEofLast` has the hypothesis `OneUpstream`.
- `randomiser_softbits` writes eight values at a time into a vector of the message's length:
  a length that is no multiple of eight runs past its end.
- `asynchronous_start::stop()` notifies nobody, and `wait_for_start()` tests for `STOPPED`
  only on entry: a thread that waits when the flow graph is stopped goes on waiting.
- `message_info` in silent mode returns before it looks at EOF, so its thread does not end
  by itself; `msg_null_src` would send EOF only for a negative number of outputs.
- `soft_to_hard_message` sends EOF twice; `softbits_msg_to_bytes_b` accepts messages after EOF.
- `tag_storage` takes the EOF tag that it stored last: a second one keeps the block going
  if it is seen before the first is reached.
- `tag_storage` looks 20 items ahead, where upstream may still be adding tags: if upstream
  does not add them in order, they are stored in the order in which they were seen.
- `add_asm` copies as many bytes as it was told, however short the message is, and
  `trunk_tail` throws on a message that is too short, which ends its thread.

Block codes:

- `rs_encode` always uses the dual basis (`encode_rs_ccsds`), so `rs_decode` has to be created
  with the Berlekamp representation. The tests run the chain without errors only.

The receiver program (which cannot run at this commit, see section 3):

- The value of `pseudo-derandomize` in the file is stored under a key that is never
  merged; sections of the file are read only if the *file* switches them on, even when
  the command line does (`Read` of `Receiver`).
- A gap of exactly 256 lost frames, or a multiple, is taken for none (`bpsk_rx.py:591`): it
  is not counted, and before the lock it does not reset it.
- Across a wrap of the frame number up to two lost frames are not counted (`LossAccount`),
  frames whose checksum is wrong are counted like others, and the lock is never given up.
- A payload of fewer than three bytes ends the watcher thread with an exception. The
  thread is a daemon: frames still queued when the program ends are lost.

Unused:

- `min_correlation_primary_pct` and `min_correlation_secondary_pct` are documented
  but not used by the synchroniser.
