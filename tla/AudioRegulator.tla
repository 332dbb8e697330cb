--------------------------- MODULE AudioRegulator ---------------------------
(***************************************************************************)
(* The audio output of the client: the decoder thread pushes frames into   *)
(* a ring buffer (audio_regulator.c, util/audiobuf.c) which the audio      *)
(* thread of SDL empties from a callback (audio_player.c).                 *)
(*                                                                         *)
(* A sample is its serial number, and silence is 0.  Writing to the ring   *)
(* without the lock takes two steps, between which the callback may run;   *)
(* what the decoder thread does with the lock is one step.  The average    *)
(* of the buffering and the value of the compensation are left out: the    *)
(* resampler returns any number of samples near the one it was given.      *)
(***************************************************************************)
EXTENDS Integers, Sequences, FiniteSets

CONSTANTS
    Target,         \* target_buffering
    Rate,           \* sample_rate
    Margin10,       \* 10 * sample_rate / 1000
    Margin60,       \* 60 * sample_rate / 1000
    Aout,           \* aout_buffer_size, in samples
    FrameSizes,     \* nb_samples of the frames
    Requests,       \* the amounts that SDL asks for
    MaxFrames,      \* bound: frames pushed
    MaxUnderflow    \* bound: callbacks stop when underflow reaches it

ASSUME SizesAssumption ==
    /\ Target \in Nat /\ Rate \in Nat \ {0} /\ Aout \in Nat \ {0}
    /\ Margin10 \in Nat /\ Margin60 \in Nat /\ Margin10 <= Margin60
    /\ FrameSizes \subseteq Nat \ {0} /\ Requests \subseteq Nat \ {0}
    /\ MaxFrames \in Nat /\ MaxUnderflow \in Nat

VARIABLES
    alive, stream,      \* the player: its regulator, and "none", "paused"...
    data, head, tail,   \* buf
    played, received, underflow,
    active, resync,     \* compensation_active, samples_since_resync
    pc,                 \* the decoder thread, in open, push or close
    job,                \* its locals
    cpc, want, got,     \* the callback: len, and read while it holds mutex
    serial,             \* history: the last sample pushed
    last,               \* history: the last sample played
    frames,             \* history: frames pushed
    failed              \* history: an assertion of the code failed

regVars == <<data, head, tail, played, received, underflow, active, resync>>
threadVars == <<pc, job, cpc, want, got>>
vars == <<alive, stream, regVars, threadVars, serial, last, frames, failed>>

Least(a, b) == IF a <= b THEN a ELSE b

(* sc_audiobuf_capacity(): the ring is never filled up, so that an empty    *)
(* one and a full one differ.                                              *)
Capacity == Target + Rate

AllocSize == Capacity + 1

Slots == 0 .. AllocSize - 1

can_read == (AllocSize + head - tail) % AllocSize

can_write == (AllocSize + tail - head - 1) % AllocSize

(* The slots of `n' samples from cursor `c' on, in order.                   *)
Region(c, n) == [i \in 1 .. n |-> (c + i - 1) % AllocSize]

SlotsOf(c, n) == {(c + i - 1) % AllocSize : i \in 1 .. n}

NoJob == [stage |-> 0, input |-> 0, samples |-> 0, first |-> 0,
          written |-> 0, count |-> 0, max |-> 0, played |-> FALSE]

(* sc_audio_regulator_init() after sc_audio_player_init().                  *)
RegulatorInit ==
    /\ data = [s \in Slots |-> 0] /\ head = 0 /\ tail = 0
    /\ played = FALSE /\ received = FALSE /\ underflow = 0
    /\ active = FALSE /\ resync = 0

Init ==
    /\ RegulatorInit
    /\ alive = FALSE /\ stream = "none" /\ pc = "open" /\ job = NoJob
    /\ cpc = "idle" /\ want = 0 /\ got = 0
    /\ serial = 0 /\ last = 0 /\ frames = 0 /\ failed = FALSE

-----------------------------------------------------------------------------
(* sc_audio_player_frame_sink_open(): any call may fail, and what was made  *)
(* before it is destroyed.                                                 *)
Open ==
    /\ pc = "open"
    /\ \/ /\ ~alive
          /\ alive' = TRUE
          /\ UNCHANGED <<stream, pc>>
       \/ /\ alive /\ stream = "none"
          /\ stream' = "paused"
          /\ UNCHANGED <<alive, pc>>
       \/ /\ stream = "paused"
          /\ stream' = "running"
          /\ pc' = "idle"
          /\ UNCHANGED alive
    /\ UNCHANGED <<regVars, job, cpc, want, got, serial, last, frames, failed>>

OpenFails ==
    /\ pc = "open"
    /\ stream' = "none"
    /\ alive' = FALSE
    /\ pc' = "closed"
    /\ UNCHANGED <<regVars, job, cpc, want, got, serial, last, frames, failed>>

(* sc_audio_player_frame_sink_close(): SDL_PauseAudioDevice() returns when  *)
(* the callback is not running and keeps it from being called.             *)
Close ==
    /\ \/ /\ pc = "idle" /\ cpc = "idle"
          /\ stream' = "paused"
          /\ pc' = "close"
          /\ UNCHANGED alive
       \/ /\ pc = "close" /\ stream = "paused"
          /\ stream' = "none"
          /\ UNCHANGED <<alive, pc>>
       \/ /\ pc = "close" /\ stream = "none"
          /\ alive' = FALSE
          /\ pc' = "closed"
          /\ UNCHANGED stream
    /\ UNCHANGED <<regVars, job, cpc, want, got, serial, last, frames, failed>>

-----------------------------------------------------------------------------
(* What a write of at most `n' samples could take now: it loads both        *)
(* cursors, copies, and stores the head in a later step.                   *)
WriteCount(n) == Least(n, can_write)

(* sc_audiobuf_write() and sc_audiobuf_write_silence(), at their end.       *)
Written(c, values) ==
    [s \in Slots |->
        IF \E i \in DOMAIN values : Region(c, Len(values))[i] = s
        THEN values[CHOOSE i \in DOMAIN values : Region(c, Len(values))[i] = s]
        ELSE data[s]]

Store(values) ==
    /\ data' = Written(head, values)
    /\ head' = (head + Len(values)) % AllocSize

(* sc_audio_regulator_push(): `n' samples that the resampler turns into     *)
(* `s'.  A discontinuity fills the buffer up to the target with silence.   *)
Push(n, s, discontinuity) ==
    LET silence == IF discontinuity /\ n + can_read < Target
                     THEN WriteCount(Target - can_read - n) ELSE 0
    IN  /\ pc = "idle"
        /\ frames < MaxFrames
        /\ discontinuity => frames > 0
        /\ frames' = frames + 1
        /\ job' = [NoJob EXCEPT !.input = n, !.samples = s, !.count = silence]
        /\ pc' = IF discontinuity THEN "silence" ELSE "convert"
        /\ UNCHANGED <<alive, stream, regVars, cpc, want, got, serial, last,
                       failed>>

Discontinuity ==
    /\ pc = "silence"
    /\ Store([i \in 1 .. job.count |-> 0])
    /\ active' = FALSE
    /\ resync' = 0
    /\ underflow' = 0
    /\ pc' = "convert"
    /\ UNCHANGED <<alive, stream, tail, played, received, job, cpc, want, got,
                   serial, last, frames, failed>>

(* The resampler: samples that the ring could never hold are skipped.       *)
Convert ==
    LET samples == Least(job.samples, Capacity)
    IN  /\ pc = "convert"
        /\ serial' = serial + job.samples
        /\ job' = [job EXCEPT !.stage = 1, !.samples = samples,
                              !.first = serial + job.samples - samples + 1,
                              !.count = WriteCount(samples)]
        /\ pc' = "write"
        /\ UNCHANGED <<alive, stream, regVars, cpc, want, got, last, frames,
                       failed>>

(* No memory, or swr_convert() fails: push() returns false.                 *)
ConvertFails ==
    /\ pc = "convert"
    /\ pc' = "idle"
    /\ job' = NoJob
    /\ UNCHANGED <<alive, stream, regVars, cpc, want, got, serial, last, frames,
                   failed>>

Samples(from, n) == [i \in 1 .. n |-> from + i - 1]

\* Fault: a later write starts again from the first sample of the frame.
WriteEndsFromStart ==
    LET written == job.written + job.count
    IN  /\ pc = "write"
        /\ Store(Samples(job.first, job.count))
        /\ IF job.stage = 1
             THEN /\ job' = [job EXCEPT !.written = written]
                  /\ pc' = IF written < job.samples THEN "full" ELSE "limit"
                  /\ UNCHANGED failed
             ELSE /\ failed' = (failed \/ written # job.samples)
                  /\ pc' = "limit"
                  /\ UNCHANGED job
        /\ UNCHANGED <<alive, stream, tail, played, received, underflow, active,
                       resync, cpc, want, got, serial, last, frames>>

(* The end of a write without the lock: the first one may be partial, the   *)
(* last one may not.                                                       *)
WriteEnds ==
    LET written == job.written + job.count
    IN  /\ pc = "write"
        /\ Store(Samples(job.first + job.written, job.count))
        /\ IF job.stage = 1
             THEN /\ job' = [job EXCEPT !.written = written]
                  /\ pc' = IF written < job.samples THEN "full" ELSE "limit"
                  /\ UNCHANGED failed
             ELSE /\ failed' = (failed \/ written # job.samples)
                  /\ pc' = "limit"
                  /\ UNCHANGED job
        /\ UNCHANGED <<alive, stream, tail, played, received, underflow, active,
                       resync, cpc, want, got, serial, last, frames>>

\* Fault: old samples are dropped without the lock.
MakeRoomUnlocked ==
    LET remaining == job.samples - job.written
        skipped == Least(remaining, can_read)
    IN  /\ pc = "full"
        /\ tail' = (tail + skipped) % AllocSize
        /\ job' = [job EXCEPT !.stage = 3,
                              !.count = Least(remaining, can_write + skipped)]
        /\ pc' = "write"
        /\ UNCHANGED <<alive, stream, data, head, played, received, underflow,
                       active, resync, cpc, want, got, serial, last, frames,
                       failed>>

(* Retry with the lock, then drop old samples to make room for the rest.    *)
MakeRoom ==
    LET again == WriteCount(job.samples - job.written)
        written == job.written + again
        remaining == job.samples - written
        level == can_read + again
        skipped == Least(remaining, level)
    IN  /\ pc = "full"
        /\ cpc # "locked"
        /\ Store(Samples(job.first + job.written, again))
        /\ tail' = (tail + skipped) % AllocSize
        /\ failed' = (failed \/ skipped # remaining)
        /\ job' = [job EXCEPT !.stage = 3, !.written = written,
                              !.count = Least(remaining,
                                              Capacity - level + skipped)]
        /\ pc' = IF remaining > 0 THEN "write" ELSE "limit"
        /\ UNCHANGED <<alive, stream, played, received, underflow, active,
                       resync, cpc, want, got, serial, last, frames>>

(* The most samples to keep: fewer until playback has started.              *)
MaxBuffered(p) == IF p THEN (Target * 11) \div 10 + Margin60
                       ELSE Target + Margin10

\* Fault: the limit is applied once playback has started only.
LimitWhenPlayed ==
    /\ pc = "limit"
    /\ job' = [job EXCEPT !.played = played, !.max = MaxBuffered(played)]
    /\ underflow' = IF played THEN 0 ELSE underflow
    /\ pc' = IF played /\ can_read > MaxBuffered(played) THEN "skip" ELSE "finish"
    /\ UNCHANGED <<alive, stream, data, head, tail, played, received, active,
                   resync, cpc, want, got, serial, last, frames, failed>>

Limit ==
    /\ pc = "limit"
    /\ job' = [job EXCEPT !.played = played, !.max = MaxBuffered(played)]
    /\ underflow' = IF played THEN 0 ELSE underflow
    /\ pc' = IF can_read > MaxBuffered(played) THEN "skip" ELSE "finish"
    /\ UNCHANGED <<alive, stream, data, head, tail, played, received, active,
                   resync, cpc, want, got, serial, last, frames, failed>>

(* The level is read again with the lock, and the excess dropped.           *)
Skip ==
    /\ pc = "skip"
    /\ cpc # "locked"
    /\ tail' = IF can_read > job.max THEN (tail + can_read - job.max) % AllocSize
                                     ELSE tail
    /\ pc' = "finish"
    /\ UNCHANGED <<alive, stream, data, head, played, received, underflow,
                   active, resync, job, cpc, want, got, serial, last, frames,
                   failed>>

(* The compensation is computed again once per second of samples.           *)
Finish ==
    /\ pc = "finish"
    /\ received' = TRUE
    /\ IF job.played /\ resync + job.written >= Rate
         THEN resync' = 0 /\ active' \in BOOLEAN
         ELSE /\ resync' = IF job.played THEN resync + job.written ELSE resync
              /\ UNCHANGED active
    /\ pc' = "idle"
    /\ job' = NoJob
    /\ UNCHANGED <<alive, stream, data, head, tail, played, underflow, cpc,
                   want, got, serial, last, frames, failed>>

-----------------------------------------------------------------------------
(* sc_audio_player_stream_callback(): SDL asks for `n' samples, which are   *)
(* pulled in chunks of the size of the output buffer.                      *)
Callback(n) ==
    /\ cpc = "idle" /\ stream = "running"
    /\ underflow < MaxUnderflow
    /\ want' = n
    /\ cpc' = "pull"
    /\ UNCHANGED <<alive, stream, regVars, pc, job, got, serial, last, frames,
                   failed>>

Chunk == Least(Aout, want)

(* The rest of the request after a chunk; SDL_PutAudioStreamData() fails.   *)
NextChunk ==
    /\ want' \in {0, want - Chunk}
    /\ cpc' = IF want' = 0 THEN "idle" ELSE "pull"

(* sc_audio_regulator_pull() takes the lock.  Nothing is played until the   *)
(* buffer has reached its target once.                                     *)
Pull ==
    /\ cpc = "pull"
    /\ IF ~played /\ can_read < Target
         THEN NextChunk /\ UNCHANGED got
         ELSE /\ got' = Least(Chunk, can_read)
              /\ cpc' = "locked"
              /\ UNCHANGED want
    /\ UNCHANGED <<alive, stream, regVars, pc, job, serial, last, frames, failed>>

(* The serial numbers among the samples being read.                         *)
Heard == {data[s] : s \in SlotsOf(tail, got)} \ {0}

PullEnds ==
    /\ cpc = "locked"
    /\ tail' = (tail + got) % AllocSize
    /\ IF Heard = {} THEN UNCHANGED last
       ELSE last' \in Heard /\ \A x \in Heard : x <= last'
    /\ cpc' = "after"
    /\ UNCHANGED <<alive, stream, data, head, played, received, underflow,
                   active, resync, pc, job, want, got, serial, frames, failed>>

(* After the lock: silence in the place of the samples that are missing.    *)
Silence ==
    /\ cpc = "after"
    /\ underflow' = IF received THEN underflow + Chunk - got ELSE underflow
    /\ played' = TRUE
    /\ NextChunk
    /\ got' = 0
    /\ UNCHANGED <<alive, stream, data, head, tail, received, active, resync,
                   pc, job, serial, last, frames, failed>>

-----------------------------------------------------------------------------
(* Resampling: without compensation the number of samples is kept.          *)
Resampled(n) == IF active THEN {n - 1, n + 1} ELSE {n}

Done == pc = "closed" /\ UNCHANGED vars

Next ==
    \/ Open \/ OpenFails \/ Close
    \/ \E n \in FrameSizes : \E s \in Resampled(n) : \E d \in BOOLEAN :
           Push(n, s, d)
    \/ Discontinuity \/ Convert \/ ConvertFails \/ WriteEnds \/ MakeRoom
    \/ Limit \/ Skip \/ Finish
    \/ \E n \in Requests : Callback(n)
    \/ Pull \/ PullEnds \/ Silence
    \/ Done

Spec == Init /\ [][Next]_vars

-----------------------------------------------------------------------------
(* Every variable stays within the values the code can give it.            *)
TypeOK ==
    /\ alive \in BOOLEAN /\ stream \in {"none", "paused", "running"}
    /\ data \in [Slots -> Nat] /\ head \in Slots /\ tail \in Slots
    /\ played \in BOOLEAN /\ received \in BOOLEAN /\ underflow \in Nat
    /\ active \in BOOLEAN /\ resync \in Nat
    /\ pc \in {"open", "idle", "silence", "convert", "write", "full", "limit",
               "skip", "finish", "close", "closed"}
    /\ job \in [stage : 0 .. 3, input : Nat, samples : Nat, first : Nat,
                written : Nat, count : Nat, max : Nat, played : BOOLEAN]
    /\ cpc \in {"idle", "pull", "locked", "after"}
    /\ want \in Nat /\ got \in Nat
    /\ serial \in Nat /\ last \in Nat /\ frames \in Nat /\ failed \in BOOLEAN

(* No sample is torn: the slots that the decoder thread fills without the   *)
(* lock are disjoint from those the callback copies at the same time, even *)
(* though the decoder thread also moves the cursor of the reader to drop   *)
(* samples; and the callback never finds the regulator destroyed.          *)
NoTornSamples ==
    /\ pc \in {"write", "silence"} =>
           /\ SlotsOf(head, job.count) \cap SlotsOf(tail, can_read) = {}
           /\ cpc = "locked" =>
                  SlotsOf(head, job.count) \cap SlotsOf(tail, got) = {}
    /\ cpc # "idle" => alive

(* The i-th sample that is buffered, the oldest first.                      *)
Nth(i) == data[(tail + i - 1) % AllocSize]

(* Sound is played in order and never twice, whatever is dropped to keep    *)
(* up: after what was played come the buffered samples, in increasing      *)
(* order and none of them newer than the last one pushed, with silence     *)
(* anywhere between them.  And when the ring is full, what is dropped      *)
(* makes exactly the room that the assertions of                           *)
(* sc_audio_regulator_push() count on.                                     *)
SoundIsInOrder ==
    /\ TypeOK /\ ~failed
    /\ \A i \in 1 .. can_read : Nth(i) # 0 =>
           /\ last < Nth(i) /\ Nth(i) <= serial
           /\ \A j \in 1 .. i - 1 : Nth(j) < Nth(i)

(* The delay is bounded: between two frames no more is buffered than the    *)
(* target, ten per cent of it and 60 ms, although the callback may start   *)
(* playing while the decoder thread is choosing the limit.                 *)
LatencyIsBounded == pc = "idle" => can_read <= MaxBuffered(TRUE)

=============================================================================
