# A TLA+ development for aixd

aixd is the voice assistant of a robot: it streams the microphone to a speech
dialog service over a secure websocket, plays the speech that comes back, and
turns transcripts that match a list of local actions into calls of the robot
over LCM. This directory holds specifications of its concurrent core, the TLC
runs that check them on small instances, and TLAPS proofs of their most
important properties. Paths below are relative to the repository.

## 1. The system

The program `xdai` (`src/ai.cpp`, main) opens the two sound devices and calls
`AiSoundTask` (`src/aixd.cpp`), which loads `localai.json`, constructs a
`HuoshanEngine` and then loops forever: `engine.Poll(); lcm.handleTimeout(10)`.
There are three threads:

- **Main** runs that loop, hence every asio handler, one at a time;
- the **playback thread** of miniaudio runs `SoundDev::AudioCallback` once per period;
- the **capture thread** does the same for the recording device.

| component | state | operations | talks to |
|---|---|---|---|
| `Connection`, outgoing (`ws_client.hpp` 84-271) | `send_queue`, `closed`, `timer` | `send`, `send_close`, `send_from_queue` and its handler, `set_timeout` | called by Main and by the capture thread; asio |
| `Connection`, incoming (`ws_client.hpp` 441-708) | `in_message`, `fragmented_in_message`, `num_additional_bytes` | `upgrade`, `read_message`, `read_message_content` | asio handlers on Main; `on_message`, `on_ping`, `send_close` |
| `SocketClient<WSS>` (`wss_client.hpp`) | `connection`, `auto_reconnect` | `connect`, `handshake`, `connection_error`, `connection_close` | creates Connections; the engine's callbacks |
| `ScopeRunner` (`utility.hpp` 433-478) | one atomic `count` | `continue_lock`, `~SharedLock`, `stop` | every asio handler; the client's destructor |
| `HuoshanProto` (`HuoshanEngine.hpp` 80-367) | `is_ready`, `disabled_remote`, `asrText`; the format of frames | `parse` and the frame builders | read by the capture thread, written by Main |
| `HuoshanEngine` (`HuoshanEngine.hpp` 481-675) | `apool`, `pcm_converter`, the client | the callbacks of the client and of both devices, `HandleResponse` | everything |
| `LocalAi` (`HuoshanEngine.hpp` 402-476) | the actions | `LoadAction`, `MatchAction` | `HandleResponse` |
| `SoundDev`, `PlayDev`, `RecordDev` (`sound.hpp`) | `cbs` | `Open`, `AddCb`, `AudioCallback` | the device threads |
| `AudioQueue`, `PcmConverter` (`sound.hpp` 86-178) | the queue under a mutex; the resampler's phase | `push`, `pop_front`, `Convert` | Main fills, the playback thread empties |

What is hard here: `send()` runs on two threads that share one queue and one
stream; a write's completion races with new sends, the idle timer and the
destructor; the capture thread tests a flag and later uses a connection that Main
may have replaced; a session can be lost at any step of its handshake while
flags of the old one live on; frames of several spoken streams interleave with a
mute that is one boolean; incoming bytes are cut into frames by a surplus counter;
frames have optional fields that flags announce, and lengths on three scales;
and the audio path crosses two threads and a resampler with a phase. What makes
each part correct is stated as the properties of section 3.

## 2. Modules

| module | models | instance |
|---|---|---|
| `SendQueue` | outgoing side of a Connection | `MCSendQueue` |
| `Channel` | what `send` promises: a FIFO that stops at its first failure | `INSTANCE`d by `SendQueue` |
| `WsReader` | incoming side of a Connection | `WsReader.cfg`, `WsReaderExtra.cfg` |
| `FrameReader` | what the reader promises: frames taken whole, one after another | `INSTANCE`d by `WsReader` |
| `ScopeRunner` | `continue_lock`/`stop` as single atomic operations | `ScopeRunner.cfg` |
| `Gate` | what a ScopeRunner promises | `INSTANCE`d by `ScopeRunner` |
| `HuoshanEngine` | connecting, handshake, loss, reconnect, capture thread | `HuoshanEngine.cfg`, `HuoshanEngineRace.cfg`, `HuoshanEngineStream.cfg` |
| `Sessions` | what the engine promises: sessions one after another, voice let through in them only | `INSTANCE`d by `HuoshanEngine` |
| `HuoshanFrames` | the builders of requests, `parse`, the length in websocket headers | `MCHuoshanFrames` |
| `LocalAi` | loading and matching local actions (operators) | extended by `HuoshanDialog` |
| `HuoshanDialog` | transcripts, robot calls, mute, replies | `MCHuoshanDialog` with three cfgs |
| `Playback` | callbacks of the play device, converter, queue | `Playback.cfg` |
| `SequenceFacts` | lemmas about sequences, used by the proofs | |
| `SendQueue_proofs`, `WsReader_proofs`, `ScopeRunner_proofs`, `HuoshanEngine_proofs`, `HuoshanFrames_proofs`, `HuoshanDialog_proofs`, `Playback_proofs` | theorems about the module they are named after | |

**SendQueue.** A frame is a model value. `building[t]` is the frame thread `t`
builds between the call of `send` and its critical section; `Enqueue` is the
critical section (append, and start a write when the queue has become one long).
`writes` and `handlers` are what asio holds: writes in progress and completions
not yet run. `OnWrite` is the completion handler up to its `unlock`; the callbacks
follow one `Callback` step each, so that other threads run in between. `Stop` is
the destructor's `handler_runner->stop()`. The socket is the environment: it
completes a write or fails it, and stays broken.

**WsReader.** A byte is its position in the stream. The streambuf is the interval
`low+1..high`, `additional` is `num_additional_bytes`, computed as the code does,
before the parsed bytes are taken out. A reader that is about to take bytes from the
wrong place is in state `garbled`. The code does not notice and goes on: `Misread` is
one more frame of its, in which the bytes may pass for anything, a message, a fragment,
a ping, a close or a frame that is refused. What they are made of is not told apart
(`NoFrame`); `misreads` counts them. `partial` records that the upgrade response's bytes
ended inside a frame, which is what makes the reader lose its place. `FrameReader` has
no bytes: a step takes the next frame whole. It promises this as long as it is bound to
(`bound`), and such first bytes release it before it takes anything (`Released`). The refinement mapping counts a frame as taken when its content has
arrived, so a header and a longer length are stuttering steps.

**ScopeRunner.** One action per atomic operation: the load, the exchange that
succeeds, the exchange that fails (and reloads `expected`), `fetch_sub`, and
stop's exchange of 0 for -1. A spurious failure of `compare_exchange_weak` is a
stuttering step.

**HuoshanEngine.** Connections are numbered in the order of `connect()`. A chain
of handlers moves `stage` from resolve to open; `Error`, `Closed` end it, reset
`is_ready` and, with `auto_reconnect`, lead to `connect()` (`Assign`). A
connection is the sequence of frames it accepted, which is what `SendQueue`
promises through `Channel`. The capture thread's callback is four steps: test of
`is_ready`, read of `connection`, send, and, when the queue was empty, the start
of the write on the ssl stream; Main works on that stream when it starts the next
read (`ReadNext`). `auto_reconnect` is never
initialised by the code: both values are initial states. `Sessions` forgets threads,
frames and stages: a connection is up or not, its session moves from before to in to
after, and `ready` is the truth about it. `HuoshanEngine` maps `up` to a chain that
lives on the client's connection, and `ready` to `is_ready`.

**HuoshanFrames.** A frame is its four header bytes and a sequence of items: an
integer is four bytes, a text is its length. `Built` makes every request,
`LengthHeader` and `ReadLength` are the two sides of the websocket length as the
client writes and reads it, `CloudHeader`, `CloudLength`, `CloudItems` and
`CloudUnderstands` those of the cloud, written from the comments of the
enumerations. `parse` reads items where the code reads bytes: an item of the wrong
kind, or a text whose length is not the number before it, is garbled. The
signedness of `char` is a constant. `is_ready` is written twice: by `parse` for an event
that it reads, and by `HandleResponse` for the event that it compares, which `parse`
leaves uninitialised in an ERROR_INFO and in a response without MSG_WITH_EVENT:
`EventsSeen` has the two outcomes that matter, SessionStarted and anything else.

**HuoshanDialog.** Main handles the frames in order; `OnMessage` is `parse` and
`HandleResponse` together, and `LcmReturns` the return of the robot call that
blocks Main, with every outcome (the code speaks two ChatTTSText frames in each), but
for a robot's text that is not UTF-8: there ChatTTSText throws, and the exception is
caught behind the line that sets the mute (`ReplyThrows`; `unspoken` remembers the
utterance). An utterance may end without a transcript (`EndSpeech`); ASREnded then
finds in `asrText` what was there before.
The cloud is external: it answers each utterance (one without a transcript perhaps not),
speaks requested replies, may
cancel its own answer, and greets in each new session. `bargeIn` says whether
the user talks over replies. `optional.event` of a frame without an event is any
value: the code leaves it uninitialised.

**Playback.** A sample is its position in the input; the converter is the phase
`wait` of the linear resampler and the size of the output buffer, the queue is a
sequence under a mutex whose copy and erase are two steps.

## 3. Runs

| run | instance | what it shows |
|---|---|---|
| `send_queue` | 2 threads, 3 audio frames, 2 close frames, 3 callbacks | one write in flight and it is the head's (`OneWriteOfTheHead`), order (`WireInOrder`), callbacks once and truthful, one close frame, refinement of `Channel`, every callback is called unless the client is destroyed |
| `ws_reader` | 3 frames of 6 kinds and 3 lengths, 2 header sizes, upgrade response ends anywhere, 1 frame misread | the reader keeps its place when the upgrade response ends between frames (`PlaceKept`), and then implements `FrameReader`; no wait for bytes that are there (`NeverStarves`); up to the first bytes taken from a wrong place, messages whole and in order with control frames between fragments, pings answered once; a message is delivered unless the connection or the place is lost |
| `ws_reader_extra` | 2 frames, upgrade response ends anywhere | violated: see 6 |
| `scope_runner` | 3 threads, 2 callers of `stop` | no lost update, nobody inside after `stop`, refinement of `Gate`, `stop` returns once handlers pause |
| `engine` | 2 connections, 3 audio chunks | one chain of handlers, `is_ready` implies an open connection in a session, handshakes in order, one stale chunk per session boundary at most, no handshake with nothing under way (`NeverStranded`), refinement of `Sessions`, a session comes back |
| `engine_race`, `engine_stream` | 2 connections, 1 chunk | violated: see 6 |
| `frames` | 2 lengths of session IDs, 7 of payloads, flags 0 to 7, 5 numbers | the cloud understands every request; `parse` understands a response exactly when its flags mean the same to both sides; no number that looks like a session event switches `is_ready`: it is set during a session, and outside of one only after a response without an event |
| `dialog` | 2 utterances of 2 transcripts, 1 loss, 1 foreign frame, inbox of 2 | one command for an utterance, of its final transcript or, if it has none, of the latest text that `asrText` still holds (`CommandIsFinal`); the local reply is not muted, the cloud's answer to a command is not played when the user waits, unless ChatTTSText threw; the mute ends |
| `dialog_stop` | the overlapping actions of `localai.json` | violated: see 6 |
| `dialog_eventless` | a frame without an event ID | violated: see 6 |
| `playback` | ratio 3, chunks of 1, 2, 4, 5, period 2, 16 samples | nothing lost, repeated or reordered between the threads; spacing of samples across chunks; every converted sample is played |

`MCSendQueue` arms the idle timer (`TimeoutIdle`): the code supports it; the
program leaves `config.timeout_idle` at 0, a subset of these behaviours.

**Bounds.** `MaxConn = 2` gives a loss at every stage followed by a full new
handshake; a third connection repeats the second. Three audio frames give a
queue with a head in flight, a successor and a late arrival. Chunk sizes cover
every residue modulo the ratio, sizes below a period and above it. The reader's
lengths cover no content, content below and at the longer header, and two
fragments together exceed `MaxMessage`. Two utterances give every overlap of a
reply with the next command. The payload lengths of `frames` put
whole frames at 125, 126, 65535 and 65536 bytes, the boundaries of the websocket
length, the flags are all that an enumeration of four values and one bit can make, and the
numbers include SessionStarted, SessionFinished, -1 and an error code of four
different bytes. `MaxInbox = 2` lets the cloud run ahead of Main
by a frame while one is handled; the invariants do not depend on how far ahead.
The reader's passing run leaves out contents of one byte: when such a frame is in the
upgrade response the surplus is 1, and the reader asks for half a header (the same
defect as `ws_reader_extra`, with whole frames).

**Fairness.** Main never blocks: it polls every 10 ms and a robot call ends after
500 ms, so a handler that is ready runs (weak fairness of Main's steps). A thread
inside `send` finishes. asio completes or fails every operation it was given. The
cloud is assumed to speak the streams it owes (`Stream`, `TakeChat`) and to answer
what it took (`Take`); nothing is assumed of the user, of audio arriving, of
losses, or of the server ending a session. The playback device runs period after
period. `Push` has strong fairness: the device's thread holds the queue's mutex
only for the copy of a period, so a waiting Main gets it. In `ScopeRunner` a
thread in a compare-and-exchange loop goes on; that handlers pause is not assumed
but is the premise of `StopReturns`, because `stop` does not hold new ones back.

## 4. Proofs

Proved with TLAPS, for every value of the constants:

- `SendQueue_proofs`: `TypeOK`, `OneWriteOfTheHead`, `WireInOrder`, `CloseOnce`,
  `CallbacksTellTheTruth`, and the refinement `ImplementsChannel`. `OneWriteOfTheHead`
  is not inductive alone: `HeadInv` adds that a client that was not stopped never
  leaves a nonempty queue without a write or a handler, so that an append to an empty
  queue is the only one that may start a write. `FrameInv` (a frame enters once) and
  `WireInv` (until the socket breaks, accepted frames are the wire followed by what is
  pending, where the head counts as delivered once its write has completed) carry
  order and refinement; `CloseInv` relates `closed` to frames under construction, and
  uses that only Main calls `send_close`; `LogInv` says which callbacks have run,
  which wait in the queue and which are being called. `NotForgottenCorrect`: a frame
  with a callback waits in the queue or was reported, never both (`KeptInv` and
  `LogInv`), and a nonempty queue has a write or a handler.
- `WsReader_proofs`: `TypeOK`, `MessagesWhole` and `PongsInOrder` for all behaviours,
  with or without a loss of place; `PlaceKept`, `NeverStarves` and the refinement
  `ImplementsFrameReader` under the hypothesis `1 \notin Lengths`, that no content is
  one byte long: with it the arithmetic of `num_additional_bytes` is right for whole
  frames. That the upgrade response ends between frames (`~partial`) is a premise of
  `PlaceKept`, and of the promise of `FrameReader`; `ws_reader_extra` shows that
  without it the reader loses its place. `PosInv`: frames lie end to end and are at
  least two bytes long. `ReadInv`: where the buffer starts follows from what the
  reader reads next (a header, a longer length, a content), unless it is garbled.
  `DataInv`: what was read is delivered, kept as a fragment or answered, until a frame
  is misread. `PlaceInv`: `additional` is 0 with nothing left
  over, or covers whole frames; under the hypothesis it holds while `~partial`, so
  that nothing is ever misread. `SurplusInv`: `additional` is never less than the
  streambuf holds. A read then asks for at most what the frame still lacks, and
  `PosInv` says that those bytes were sent. The refinement uses that a step of the
  reader that takes content has exactly the effect of the kind of its frame, and that
  no other step takes one.
- `ScopeRunner_proofs`: `TypeOK`, `CountsLocks`, `StopExcludes` and the refinement
  `ImplementsGate`, for any finite set of threads. The inductive invariant adds that a
  returned `stop` has left -1 behind. The argument is that the exchange compares: a
  lock granted from an old reading still found that value.
- `HuoshanEngine_proofs`: `TypeOK`, `OneChain`, `ReadyMeansSession`,
  `HandshakeInOrder`, `OneStaleChunk`, for any number of connections, losses and
  chunks. `ChainInv` relates the stage of the chain to the connection that is the
  client's, `HandlingInv` what Main handles to a connection that is open; `WireInv`
  says that the server takes only what was sent and that a connection which never
  opened sent no handshake; `AnswerInv`, that an event on its way answers a frame the
  server took, is there once, and has no answer yet; `EndInv`, that a session ends
  after it began and does not begin again on that connection. `ReadyInv` follows:
  `is_ready` is set by the one event that says so, which is not followed by the end.
  `StaleInv` counts chunks against boundaries, with the one in the thread's hands.
  `StrandedCorrect` (`NeverStranded`) is the safety core of `SessionAgain`: on an open
  connection without a session there is always a frame on its way to the server, an
  answer on its way back, or an event in Main's hands, unless the server refused. Its
  strengthening `OwedInv` has a part for each leg: `LinkInv` (an open connection has
  sent StartConnect, and is what the server knows), `VoiceInv` (a chunk on a
  connection lies behind its session's beginning), `TurnInv` (whose turn it is follows
  from the frames sent and taken), `FinishInv` (a session ends only through an event
  or a loss). `Refinement` (`ImplementsSessions`) maps every action: `Assign` to
  `Connect`, `Parse` of a session event to `Begin` or `End`, `Error` and `Closed` to
  `Down`, all others to a stutter, which needs `OneChain` and `ReadyMeansSession`.
  `LoneCorrect` bounds finding 1: without `auto_reconnect` there is one connection,
  which is neither replaced under the capture thread nor destroyed (`LoneInv`).
- `HuoshanFrames_proofs`: `TypeOK`, `RequestsUnderstood`, `ResponsesUnderstood`,
  `ReadyFollowsSession`, for every length below a gigabyte, all flags, all numbers,
  and `char` signed or not. `WireInv` says that what is under way is what its maker
  built, so the theorems come down to lemmas without state: the bytes of an integer
  determine it, each form of the websocket length is read back (`LengthToCloud`,
  `LengthFromCloud`), and `parse` finds each item in its place exactly for flags that
  are 0 or 3 modulo 4 (`FlagsAgree`, `ParsedBack`, `Misread`). `ReadyInv` carries
  `is_ready` across a message under way: what it will be when the frame is read
  follows from what `parse` finds in it and from what the uninitialised event may be.
- `HuoshanDialog_proofs`: `TypeOK`, `CommandIsFinal`, `LocalReplyHeard` and
  `CloudAnswerSilenced`, for any transcripts, action file, bounds and losses, under
  the hypothesis `Regular` that every frame carries an event (`dialog_eventless` shows
  what happens otherwise). `HeardInv`: when the ASREnded of an utterance is handled,
  what `asrText` will be by then is the last transcript of that utterance, or of the
  latest one that has any; after a loss, which may have thrown transcripts away, an
  utterance without one finds some text of an earlier one. The model has no clock and
  looks ahead through the inbox for this (`Heard(i, text)`); `KnownInv` says that
  every text there or in `asrText` was said, `LatestInv` what a further frame would
  find. `OrderInv`: utterances end in order and behind all commands, which makes a
  command the only one of its utterance. `ReplyInv`: a reply in the requests, the
  streams or the inbox belongs to a call that has returned. Therefore the call that
  sets the mute again belongs to a later utterance, and `MuteInv` follows: while
  muted, the audio of a reply lies behind its start, or was superseded. `SilenceInv`
  is about a user who waits: the answer is the first stream, nothing that lifts the
  mute comes before the end of it, and the mute is on as long as it is owed, but for
  an utterance whose reply threw. `OwedCorrect`: the mute is never on with nothing
  left that lifts it, although a loss throws away requests, streams and frames and the
  cloud may cancel its answer in the middle; `MuteIsOwed` is inductive together with
  the types.
- `Playback_proofs`: `TypeOK`, `PlayedInOrder`, `SampleSpacing`. `QueueInv` says that
  between copy and erase what was copied is still the front of the queue. `SpacingInv`
  adds the distance from the last sample to the next one due; it rests on lemmas about
  division that bound how many samples a chunk yields and how much of it is consumed.
  The proof covers every ratio of at least 2 and every chunk size. `OnceCorrect`: the
  callback that plays is registered before there is anything to play and runs once in
  a period (`CallbackInv` relates the list to Main's place in the start of the
  program); `ShareCorrect`, an action property: each call plays a period or all there
  is.

Assumptions are those named in the modules: `MainAssumption`, `MsgsAssumption`,
`ReaderAssumption`, `ThreadsAssumption`, `BoundsAssumption`, `FramesAssumption`,
`DialogAssumption`, `PlaybackAssumption`; TLC evaluates them in the runs.

Every safety property of a passing run is proved, and every refinement, under the
hypotheses stated (that no content is one byte long, `Regular` of the dialog). Only
model-checked: the liveness properties, which are out of the prover's reach, and the
five violations of section 6. Of each liveness property the part that is a safety
property is proved, namely that what it waits for is under way or within reach, so
that only fairness remains to TLC:

| liveness (TLC) | proved |
|---|---|
| `EveryCallbackCalled` | `NotForgottenCorrect`: queued or reported, and the queue has somebody at work |
| `EveryMessageDelivered` | `StarvesCorrect`: the bytes a read waits for have been sent, and the reader has its place |
| `StopReturns` | `CountCorrect`: the count is the number of locks, so it is 0 when handlers pause |
| `SessionAgain` | `StrandedCorrect`: the next step of the handshake is under way, or was refused |
| `MuteLifted` | `OwedCorrect`: something that lifts the mute is to come |
| `EveryFrameHeard` | `OnceCorrect`, `ShareCorrect`: each period takes from the queue what it can |

## 5. What the properties do not say

- `HuoshanEngine` takes every frame of the server to carry an event: on this rest
  `ReadyMeansSession`, `HandshakeInOrder`, `OneStaleChunk` and `ImplementsSessions`.
  HandleResponse compares the event of every frame at lines 601 and 605, also one that
  `parse` left uninitialised: such a frame may be taken for ConnectionStarted or
  SessionStarted, send the next frame of the handshake again and set `is_ready` without
  a session. What it does to `is_ready` is in `HuoshanFrames` (`ReadyFollowsSession`),
  what it does to a command in `HuoshanDialog` (finding 2).
- `asrText` is never cleared: an utterance in which the cloud made out no words
  commands the robot again with what was said before it, and after a loss even with what
  was said in an older session. `CommandIsFinal` states whose text it may be, and does
  not say that an empty utterance commands nothing.
- A robot's reply that is not UTF-8 makes ChatTTSText throw: the robot has acted, and
  the cloud's own answer is played, because the mute is set behind it. This is the
  exception in `CloudAnswerSilenced`.
- Once the reader has lost its place (finding 4) nothing is promised of what it hands
  out: `MessagesWhole` and `PongsInOrder` speak of what came before.
- A chunk of audio may be sent between `is_ready` becoming true and SayHello, and
  one chunk may slip past the end of a session (`OneStaleChunk` bounds this).
- `CloudAnswerSilenced` fails when the user barges in: TTSEnded of an earlier
  reply lifts the mute of a later one.
- `disabled_remote` survives a reconnect, so a greeting may be muted; `MuteLifted`
  says that it ends.
- `parse` does not skip the number that comes with flag 1, and skips one with flag
  2, which has none: `ResponsesUnderstood` says that these are exactly the frames it
  misreads. With signed chars it also misreads integers with a byte above 127 behind
  one that is not 255; the target, ARM, has unsigned ones.
- A chunk may lose up to a ratio less two of its last samples (`SampleSpacing` is
  this bound): `Convert` ignores how much input was consumed, although the comment
  says every third sample is taken.
- `AudioQueue::max_size` is read by nothing: the queue is unbounded.
- SessionFailed leaves the engine connected without a session, and nothing
  retries: `SessionAgain` lists a refusal as an outcome.
- Without `auto_reconnect`, which nobody sets, a lost connection is final.
- A registration of a callback while the device's thread walks the list may end
  the process (`crashed` in `Playback`); so may a send on a destroyed connection.
- Data races on `is_ready` and the sharing of one TLS stream by two threads are
  undefined behaviour that the models replace by interleavings.

## 6. Findings

1. `engine_race`: the capture thread reads `client.connection` without the mutex
   that is declared to guard it, while `connect()` replaces it. Only a reconnect does
   this (`LoneCorrect`), and nobody initialises the flag that permits it.
2. `dialog_eventless`: a frame without an event ID has an uninitialised
   `optional.event`, which may equal ASREnded and command the robot again; likewise it
   may equal SessionStarted and set `is_ready` (line 605, `HuoshanFrames`).
3. `dialog_stop`: "停止前进" is written down as a pattern of the stop action, and
   the first match is the forward action, whose pattern is `.*前进.*`.
4. `ws_reader_extra`: when the upgrade response ends inside a frame the reader
   loses its place, although the comment says such bytes are appended to.
5. `engine_stream`: the capture thread starts a write on the ssl stream on which Main
   starts a read, which asio forbids outside of one strand.

## 7. Not modelled

- The branch of `connect` for a proxy: none is configured. The request timers
  (`timeout_request`) and the idle timer in the program: both settings are 0, and
  then `set_timeout` returns at once (`MCSendQueue` has the idle timer nevertheless).
  A message above `max_message_size`: the program keeps the default, the largest
  `size_t`.
- The text side: HTTP requests and responses, header maps, query strings, the JSON
  of payloads, regular expressions, the choice (`rand`) and wording of replies. They
  are sequential functions on strings; the models have their outcomes (a transcript
  that is garbled, a pattern that throws, an upgrade that is refused).
- `PlayDev::Play` and its queue, `RemoveCb`, the PortAudio wrapper, the older engine
  in `ai.cpp` that is compiled out: no caller in the program. Closing of devices:
  Main never leaves its loop.
- The vendored libraries except for the operations that the properties rest on
  (composed reads and writes, `transfer_exactly`, the step of the linear resampler),
  the ssl engine, and the servers and HTTP clients that came with the websocket
  client. They are nearly all of the repository's lines (asio, json and miniaudio
  alone are over 250 000), which is why the mapped share of all lines is small; of
  the 2 400 lines of `HuoshanEngine.hpp`, `sound.hpp`, `ws_client.hpp`,
  `wss_client.hpp` and `utility.hpp` more than half are mapped.
- The composition of `HuoshanDialog` with `Playback` and of `HuoshanEngine` with
  `SendQueue` as one state machine. The interfaces are narrow and checked on both
  sides: what `HuoshanDialog` calls queued is what `Playback` takes as pushed, and
  `HuoshanEngine` takes a connection as the sequence of frames it accepted, which
  `SendQueue` is proved to deliver (`Channel`).

## 8. Plan

Order of the work, the most important behaviour first: the outgoing queue, the
engine's handshake, the dialog, the audio path, the reader, the runner, the frames;
then their proofs. All of this is done. What could follow if the program changes:
request timers and pings, should `config` set them; an oversized message, should
`max_message_size` be set (`connection_error` and `connection_close` would both call
`connect()`, see `ws_client.hpp` 588-592); a reset of `disabled_remote` and
`asrText` in `on_close`, which would make `HuoshanDialog` simpler.
