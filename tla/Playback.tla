------------------------------ MODULE Playback ------------------------------
(***************************************************************************)
(* How the cloud's speech reaches the loudspeaker.  Main opens the play    *)
(* device, constructs the engine, and from then on converts every audio    *)
(* frame that is not muted (PcmConverter over miniaudio's resampler) and   *)
(* pushes the result to apool (AudioQueue).  The playback device's thread  *)
(* runs, once per period, every callback registered with AddCb: PlayCb,    *)
(* whose own queue no live code fills, and the engine's, which pops apool. *)
(*                                                                         *)
(* A sample is the position in the input at which it was taken: what the   *)
(* resampler's filter does to its value is left out.  The device is mono   *)
(* and Convert returns whole frames, so that bytes are frames of samples.  *)
(***************************************************************************)
EXTENDS SequencesExt

CONSTANTS
    Ratio,         \* inSampleRate / outSampleRate: 24000 / 8000
    ChunkSizes,    \* samples in an AUDIO_ONLY_RSP payload
    MaxInput,      \* bound: samples received in a behaviour
    Period         \* samples per period of the device

ASSUME PlaybackAssumption ==
    /\ Ratio \in Nat \ {0, 1}
    /\ ChunkSizes \subseteq Nat \ {0}
    /\ MaxInput \in Nat
    /\ Period \in Nat \ {0}

VARIABLES
    mainPc,        \* Main: "open", "construct", "poll", "push"
    cbs,           \* SoundDev::cbs of the play device
    received,      \* samples received and not muted
    wait,          \* inTimeInt: input samples until the next output
    buffer,        \* outputData, to be pushed
    queue,         \* apool.audio_queue_
    locked,        \* the device's thread holds apool.mutex_
    running,       \* the callbacks the period in progress has still to run
    popped,        \* the vector pop_front returns
    heard,         \* history: samples played
    converted,     \* history: samples Convert returned
    crashed        \* the process died: cbs was reallocated under the loop

vars == <<mainPc, cbs, received, wait, buffer, queue, locked, running, popped,
          heard, converted, crashed>>

convVars == <<received, wait, converted>>

Init ==
    /\ mainPc = "open"           \* ma_device_start has returned
    /\ cbs = <<>>
    /\ received = 0
    /\ wait = 1
    /\ buffer = <<>>
    /\ queue = <<>>
    /\ locked = FALSE
    /\ running = <<>>
    /\ popped = <<>>
    /\ heard = <<>>
    /\ converted = <<>>
    /\ crashed = FALSE

----------------------------------------------------------------------------
(* Main *)

\* AddCb() grows the vector, hence moves it; a period in progress still walks
\* the old one, which may kill the process.
AddCb(cb) ==
    /\ cbs' = Append(cbs, cb)
    /\ crashed' \in (IF running = <<>> THEN {FALSE} ELSE BOOLEAN)
    /\ UNCHANGED <<convVars, buffer, queue, locked, running, popped, heard>>

\* PlayDev::Open() registers PlayCb after it has started the device.
Open ==
    /\ mainPc = "open"
    /\ mainPc' = "construct"
    /\ AddCb("PlayCb")

\* HuoshanEngine::HuoshanEngine().
Construct ==
    /\ mainPc = "construct"
    /\ mainPc' = "poll"
    /\ AddCb("engine")

\* Convert(): the output buffer holds outFrameCount samples.
Room(n) == n \div Ratio + 1

\* The resampler stops when the input is used up or the buffer is full.
Due(n) == IF n < wait THEN 0 ELSE (n - wait) \div Ratio + 1
Produced(n) == IF Due(n) < Room(n) THEN Due(n) ELSE Room(n)
Consumed(n) == IF Produced(n) = Room(n) THEN wait + (Room(n) - 1) * Ratio ELSE n

WaitFresh(n) == 1                \* mutant: a converter is made for each frame
WaitKept(n) == wait + Produced(n) * Ratio    \* mutant: the input is not counted
WaitAfter(n) == wait + Produced(n) * Ratio - Consumed(n)

Samples(n) == [k \in 1 .. Produced(n) |-> received + wait + (k - 1) * Ratio]

\* HandleResponse(), AUDIO_ONLY_RSP: how much of the input was consumed is not
\* looked at; an empty result is not pushed.
Receive(n) ==
    /\ mainPc = "poll"
    /\ received + n =< MaxInput
    /\ received' = received + n
    /\ wait' = WaitAfter(n)
    /\ buffer' = Samples(n)
    /\ converted' = converted \o Samples(n)
    /\ mainPc' = IF Samples(n) = <<>> THEN "poll" ELSE "push"
    /\ UNCHANGED <<cbs, queue, locked, running, popped, heard, crashed>>

\* AudioQueue::push().
Push ==
    /\ mainPc = "push"
    /\ ~locked
    /\ queue' = queue \o buffer
    /\ buffer' = <<>>
    /\ mainPc' = "poll"
    /\ UNCHANGED <<cbs, convVars, locked, running, popped, heard, crashed>>

----------------------------------------------------------------------------
(* The device's thread *)

\* AudioCallback(): the loop over cbs begins.
BeginPeriod ==
    /\ running = <<>>
    /\ running' = cbs
    /\ UNCHANGED <<mainPc, cbs, convVars, buffer, queue, locked, popped, heard, crashed>>

\* PlayCb pops its own queue, which is empty, and leaves the silence alone.
RunPlayCb ==
    /\ running # <<>> /\ Head(running) = "PlayCb"
    /\ running' = Tail(running)
    /\ UNCHANGED <<mainPc, cbs, convVars, buffer, queue, locked, popped, heard, crashed>>

\* AudioQueue::pop_front(): size is cut to what is there.
FullPeriodOnly == IF Len(queue) < Period THEN 0 ELSE Period    \* mutant: all or nothing
PopSize == IF Len(queue) < Period THEN Len(queue) ELSE Period

PopCopy ==
    /\ running # <<>> /\ Head(running) = "engine"
    /\ ~locked
    /\ locked' = TRUE
    /\ popped' = SubSeq(queue, 1, PopSize)
    /\ UNCHANGED <<mainPc, cbs, convVars, buffer, queue, running, heard, crashed>>

AllErased == <<>>                \* mutant: the queue is cleared
Erased == SubSeq(queue, Len(popped) + 1, Len(queue))

\* The erase and the unlock; then the callback copies the samples to pOutput.
\* The rest of the period is the silence the device put there.
PopErase ==
    /\ locked
    /\ queue' = Erased
    /\ locked' = FALSE
    /\ heard' = heard \o popped
    /\ popped' = <<>>
    /\ running' = Tail(running)
    /\ UNCHANGED <<mainPc, cbs, convVars, buffer, crashed>>

----------------------------------------------------------------------------

MainStep == Open \/ Construct \/ (\E n \in ChunkSizes : Receive(n)) \/ Push
DeviceStep == BeginPeriod \/ RunPlayCb \/ PopCopy \/ PopErase

Next ==
    \/ ~crashed /\ MainStep
    \/ ~crashed /\ DeviceStep

\* The device runs period after period, and Main finishes what it began; the
\* server may fall silent.  The device holds the mutex for the copy of a period
\* and leaves it alone for the rest of that period, so a Main that waits for the
\* mutex gets it: strong fairness.
Fairness ==
    /\ WF_vars(~crashed /\ (Open \/ Construct))
    /\ SF_vars(~crashed /\ Push)
    /\ WF_vars(~crashed /\ DeviceStep)

Spec == Init /\ [][Next]_vars

FairSpec == Spec /\ Fairness

----------------------------------------------------------------------------
(* Properties *)

Callbacks == {"PlayCb", "engine"}
Positions == 1 .. MaxInput

\* Every variable keeps the type of the field or history it stands for; the
\* resampler is never more than one ratio away from its next output.
TypeOK ==
    /\ mainPc \in {"open", "construct", "poll", "push"}
    /\ cbs \in Seq(Callbacks)
    /\ received \in 0 .. MaxInput
    /\ wait \in 1 .. Ratio
    /\ buffer \in Seq(Positions)
    /\ queue \in Seq(Positions)
    /\ locked \in BOOLEAN
    /\ running \in Seq(Callbacks)
    /\ popped \in Seq(Positions)
    /\ heard \in Seq(Positions)
    /\ converted \in Seq(Positions)
    /\ crashed \in BOOLEAN

\* Between the two threads no sample is lost, repeated or reordered: what was
\* heard, what is queued and what Main is about to push are what Convert made.
PlayedInOrder == converted = heard \o queue \o buffer

Spacing == Ratio .. 2 * Ratio - 2

\* Over the chunk boundaries too, the samples taken are at least Ratio apart; a
\* chunk whose tail finds the buffer full loses at most Ratio - 2 samples.
SampleSpacing ==
    \A i \in 1 .. Len(converted) - 1 :
        converted[i + 1] - converted[i] \in Spacing

\* Every converted sample is eventually played, also the last ones, which do not
\* fill a period.
EveryFrameHeard ==
    \A i \in Positions : Len(converted) >= i ~> (Len(heard) >= i \/ crashed)

----------------------------------------------------------------------------
(* The inductive invariants behind the proofs *)

\* While the device's thread is between copy and erase, what it copied is still
\* the front of the queue; Main holds a buffer only on its way to push().
QueueInv ==
    /\ PlayedInOrder
    /\ mainPc # "push" => buffer = <<>>
    /\ IF locked
       THEN /\ running # <<>> /\ Head(running) = "engine"
            /\ popped = SubSeq(queue, 1, PopSize)
       ELSE popped = <<>>

\* The next sample the resampler takes keeps its distance from the last one.
SpacingInv ==
    /\ SampleSpacing
    /\ converted # <<>> =>
          (received + wait) - converted[Len(converted)] \in Spacing
=============================================================================
