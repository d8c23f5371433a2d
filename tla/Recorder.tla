------------------------------ MODULE Recorder ------------------------------
(***************************************************************************)
(* The recorder of cuad and the capture thread's loop that paces it        *)
(* (recorder.rs; server.rs, CaptureWorker::run, tick, start_recording,     *)
(* finish_recording).  The loop sleeps until the next frame is due, unless *)
(* a command comes first; a frame is grabbed, the next deadline is set     *)
(* (advance_tick) and the frame is written to the encoder, which may be    *)
(* slow, stall or die; stop() closes the pipe and waits for the encoder to *)
(* finish the file.                                                        *)
(*                                                                         *)
(* Time is counted in units, Period of them to a frame.  Only differences  *)
(* matter and only up to a point: age is capped where over_time turns true *)
(* and due where advance_tick resynchronizes, so that time never ends.     *)
(***************************************************************************)
EXTENDS Integers

CONSTANTS
  Period,    \* units of time between two frames
  MaxLen,    \* max_seconds, in units
  StopWait   \* the 15 s of stop(), in units

ASSUME RecorderAssumption ==
  /\ Period \in Nat \ {0}
  /\ MaxLen \in Nat \ {0}
  /\ StopWait \in Nat

VARIABLES
  pc,        \* what the capture thread does
  queue,     \* the command that waits to be received
  cmd,       \* the command being handled
  running,   \* CaptureWorker.recorder is Some
  sink,      \* GStreamer child or zero-copy encoder
  enc,       \* the encoder: up, or how it exited
  age,       \* time since started, capped at MaxLen
  due,       \* next_tick minus now, no lower than Behind
  frames,    \* frames written
  fed,       \* some frame was ever grabbed
  patience,  \* what is left of StopWait
  info,      \* last_info
  said,      \* the last answer given
  owed,      \* history: a client was told its recording runs, and has not
             \* been given its result by RecordStop
  burst      \* history: frames of this recording written at this instant

vars == <<pc, queue, cmd, running, sink, enc, age, due, frames, fed,
          patience, info, said, owed, burst>>

Command == {"Start", "Stop", "Status", "Screenshot"}
NoInfo == [video |-> 0, finalized |-> FALSE, some |-> FALSE]
NoAnswer == [op |-> "None", ok |-> FALSE]

\* No need to tell later deadlines apart: from two periods on advance_tick
\* gives them up.
Behind == -(4 * Period)

TypeOK ==
  /\ pc \in {"wait", "grab", "write", "close", "handle"}
  /\ queue \in Command \cup {"None"}
  /\ cmd \in {"Start", "Stop", "Screenshot", "None"}
  /\ running \in BOOLEAN
  /\ sink \in {"gst", "zero"}
  /\ enc \in {"up", "good", "bad"}
  /\ age \in 0 .. MaxLen
  /\ due \in Behind .. Period
  /\ frames \in Nat
  /\ fed \in BOOLEAN
  /\ patience \in 0 .. StopWait
  /\ info \in [video : Nat, finalized : BOOLEAN, some : BOOLEAN]
  /\ said \in [op : Command \cup {"None"}, ok : BOOLEAN]
  /\ owed \in BOOLEAN
  /\ burst \in Nat

Init ==
  /\ pc = "wait" /\ queue = "None" /\ cmd = "None"
  /\ running = FALSE /\ sink = "gst" /\ enc = "bad"
  /\ age = 0 /\ due = 0 /\ frames = 0
  /\ fed = FALSE /\ patience = 0
  /\ info = NoInfo /\ said = NoAnswer /\ owed = FALSE /\ burst = 0

cmds == <<queue, cmd>>
clock == <<age, due, patience, burst>>
video == <<frames, fed>>
results == <<info, said, owed>>

-----------------------------------------------------------------------------
(* The environment: time, commands and the encoder *)

\* One unit of time passes, whatever the capture thread is at.
Pass ==
  /\ age' = IF running /\ age < MaxLen THEN age + 1 ELSE age
  /\ due' = IF running /\ due > Behind THEN due - 1 ELSE due
  /\ patience' = IF patience > 0 THEN patience - 1 ELSE 0
  /\ burst' = 0
  /\ UNCHANGED <<pc, cmds, running, sink, enc, video, results>>

\* The request thread asks the capture thread one thing at a time.
Ask(c) ==
  /\ queue = "None" /\ cmd = "None"
  /\ queue' = c
  /\ UNCHANGED <<pc, cmd, running, sink, enc, clock, video, results>>

\* The GStreamer process ends: by itself or killed at any time, as it should
\* once its input is closed.
EncoderExits(how) ==
  /\ running /\ sink = "gst" /\ enc = "up"
  /\ enc' = how
  /\ UNCHANGED <<pc, cmds, running, sink, clock, video, results>>

-----------------------------------------------------------------------------
(* A tick *)

\* Slip: a deadline that was missed is never given up.
AdvanceNoResync(d) == IF d + Period < Behind THEN Behind ELSE d + Period

\* Slip: the period is truncated to whole units.
AdvanceTruncated(d) == IF d + Period < -Period THEN Period ELSE d + Period - 1

\* advance_tick: from the previous deadline, not from now, unless that is
\* more than a period ago.
Advance(d) == IF d + Period < -Period THEN Period ELSE d + Period

\* finish_recording has closed the encoder's input and stop() waits.
Close ==
  /\ pc' = "close"
  /\ patience' = StopWait
  /\ UNCHANGED <<running, sink, age, due, burst, video, results>>

\* The deadline is over and no command is in the queue.
Tick ==
  /\ pc = "wait" /\ queue = "None"
  /\ running /\ due <= 0
  /\ age < MaxLen
  /\ pc' = "grab"
  /\ UNCHANGED <<cmds, running, sink, enc, clock, video, results>>

\* Slip: a recording that is over time is looked at again later.
OverTimeLater ==
  /\ pc = "wait" /\ queue = "None"
  /\ running /\ due <= 0
  /\ age = MaxLen
  /\ due' = Advance(due)
  /\ UNCHANGED <<pc, cmds, running, sink, enc, age, patience, burst, video, results>>

\* max_seconds reached.
OverTime ==
  /\ pc = "wait" /\ queue = "None"
  /\ running /\ due <= 0
  /\ age = MaxLen
  /\ Close
  /\ UNCHANGED <<cmds, enc>>

\* The grab is over, well or badly, and push() begins: the next deadline is
\* set before the frame is written.
Grab(ok) ==
  /\ pc = "grab"
  /\ due' = Advance(due)
  /\ fed' = (fed \/ ok)
  /\ pc' = "write"
  /\ UNCHANGED <<cmds, running, sink, enc, age, patience, burst, frames, results>>

\* start_recording ticks once before it answers.
AfterTick ==
  IF cmd = "Start"
  THEN /\ said' = [op |-> "Start", ok |-> TRUE]
       /\ owed' = TRUE
       /\ cmd' = "None"
  ELSE UNCHANGED <<said, owed, cmd>>

\* The encoder took the frame, or the previous one again (or, for a child
\* process that has none, a black one).
Written ==
  /\ pc = "write" /\ enc = "up"
  /\ sink = "gst" \/ fed
  /\ frames' = frames + 1
  /\ burst' = burst + 1
  /\ pc' = "wait"
  /\ AfterTick
  /\ UNCHANGED <<queue, running, sink, enc, age, due, fed, patience, info>>

\* The zero-copy encoder has nothing to repeat yet.
NothingToRepeat ==
  /\ pc = "write" /\ enc = "up"
  /\ sink = "zero" /\ ~fed
  /\ pc' = "wait"
  /\ AfterTick
  /\ UNCHANGED <<queue, running, sink, enc, clock, video, info>>

\* The pipe is closed at the other end, or the zero-copy encoder refused the
\* frame and is dropped for it.
WriteFails ==
  /\ pc = "write"
  /\ \/ sink = "gst" /\ enc # "up" /\ UNCHANGED enc
     \/ sink = "zero" /\ enc' = "bad"
  /\ Close /\ UNCHANGED cmds

-----------------------------------------------------------------------------
(* Commands and the end of a recording *)

\* Slip: the previous result is forgotten before the start is known good.
RefuseStartForgets ==
  /\ pc = "wait" /\ queue = "Start"
  /\ said' = [op |-> "Start", ok |-> FALSE]
  /\ queue' = "None"
  /\ info' = NoInfo
  /\ UNCHANGED <<pc, cmd, running, sink, enc, clock, video, owed>>

\* start_recording refuses a second recording, and fails when no encoder
\* can be started.
RefuseStart ==
  /\ pc = "wait" /\ queue = "Start"
  /\ said' = [op |-> "Start", ok |-> FALSE]
  /\ queue' = "None"
  /\ UNCHANGED <<pc, cmd, running, sink, enc, clock, video, info, owed>>

\* A new recorder whose first frame is due now.
Start(s) ==
  /\ pc = "wait" /\ queue = "Start" /\ ~running
  /\ running' = TRUE /\ sink' = s /\ enc' = "up"
  /\ age' = 0 /\ due' = 0 /\ burst' = 0
  /\ frames' = 0 /\ fed' = FALSE
  /\ info' = NoInfo
  /\ pc' = "grab"
  /\ queue' = "None" /\ cmd' = "Start"
  /\ UNCHANGED <<patience, said, owed>>

StopRunning ==
  /\ pc = "wait" /\ queue = "Stop" /\ running
  /\ Close
  /\ queue' = "None" /\ cmd' = "Stop"
  /\ UNCHANGED enc

RefuseStop ==
  /\ pc = "wait" /\ queue = "Stop" /\ ~running
  /\ said' = [op |-> "Stop", ok |-> FALSE]
  /\ queue' = "None"
  /\ UNCHANGED <<pc, cmd, running, sink, enc, clock, video, info, owed>>

Status ==
  /\ pc = "wait" /\ queue = "Status"
  /\ said' = [op |-> "Status", ok |-> TRUE]
  /\ queue' = "None"
  /\ UNCHANGED <<pc, cmd, running, sink, enc, clock, video, info, owed>>

\* Grabbing and encoding a screenshot takes the capture thread's time.
Screenshot ==
  /\ pc = "wait" /\ queue = "Screenshot"
  /\ pc' = "handle"
  /\ queue' = "None" /\ cmd' = "Screenshot"
  /\ UNCHANGED <<running, sink, enc, clock, video, results>>

ScreenshotDone ==
  /\ pc = "handle"
  /\ said' = [op |-> "Screenshot", ok |-> TRUE]
  /\ cmd' = "None"
  /\ pc' = "wait"
  /\ UNCHANGED <<queue, running, sink, enc, clock, video, info, owed>>

\* finish_recording: the recorder is dropped, its last info kept, and a
\* client that waits for it answered.
Finished(finalized) ==
  /\ running' = FALSE
  /\ info' = [video |-> frames, finalized |-> finalized, some |-> TRUE]
  /\ pc' = "wait"
  /\ IF cmd = "Stop"
     THEN /\ said' = [op |-> "Stop", ok |-> TRUE]
          /\ owed' = FALSE
          /\ cmd' = "None"
     ELSE AfterTick
  /\ UNCHANGED <<queue, sink, clock, video>>

\* The child exited and was waited for, or the zero-copy encoder, unless it is
\* already gone, was drained; the file counts if it is good and there.
Reaped(good) ==
  /\ pc = "close" /\ (sink = "gst" => enc # "up")
  /\ Finished(enc # "bad" /\ good)
  /\ UNCHANGED enc

\* The encoder did not finish in time and is killed.
Killed ==
  /\ pc = "close" /\ patience = 0 /\ sink = "gst"
  /\ enc' = "bad"
  /\ Finished(FALSE)

-----------------------------------------------------------------------------
Worker ==
  \/ OverTime \/ Written \/ NothingToRepeat \/ WriteFails
  \/ RefuseStart \/ StopRunning \/ RefuseStop \/ Status \/ Screenshot
  \/ ScreenshotDone \/ Killed
  \/ \E ok \in BOOLEAN : Grab(ok) \/ Reaped(ok)
  \/ \E s \in {"gst", "zero"} : Start(s)

Next ==
  \/ Tick \/ Worker \/ Pass
  \/ \E c \in Command : Ask(c)
  \/ \E how \in {"good", "bad"} : EncoderExits(how)

Spec == Init /\ [][Next]_vars

\* The capture thread goes on with what it does, and time with it; an encoder
\* reads what is written, or exits.  A deadline that comes again and again is
\* not preempted by a command each time: the request thread has one command
\* out at a time and must read the next from a socket.
Fairness ==
  /\ WF_vars(Pass)
  /\ WF_vars(pc # "wait" /\ Worker)
  /\ WF_vars(pc = "wait" /\ queue # "None" /\ Worker)
  /\ SF_vars(Tick)
  /\ SF_vars(OverTime)

FairSpec == Spec /\ Fairness

-----------------------------------------------------------------------------
(* Properties *)

\* The video never runs ahead of the wall clock by more than the frame it
\* shows: catching up never writes a frame whose time has not come.
VideoNotAhead == running => (frames - 1) * Period <= age

\* A recording is no longer than max_seconds, however late the ticks were
\* and however they were caught up with.
LengthBounded == (frames - 1) * Period < MaxLen

\* "resync instead of bursting" (advance_tick): after a stall of whatever
\* length no more than four frames are written at one instant.
BurstBounded == burst <= 4

\* A recording that ended by itself (max_seconds, a dead encoder) leaves its
\* result for RecordStatus until a new one has really started.
ResultKept == pc = "wait" /\ owed /\ ~running => info.some

\* A recording ends, at max_seconds if nobody stops it, and the wait for its
\* encoder ends with it.
RecordingEnds == running ~> ~running

-----------------------------------------------------------------------------
(* The inductive invariant behind the safety properties *)

\* Where the capture thread is fits with the recorder it works on, and a grab
\* is under way only when its deadline is over.
PhaseInv ==
  /\ pc \in {"grab", "write", "close"} => running
  /\ pc = "grab" => due <= 0
  /\ owed /\ ~running => info.some

\* While over_time is not yet true, the frames written are at most the frames
\* whose deadlines were set; a tick in progress began in time.
PaceInv ==
  running =>
    /\ age < MaxLen /\ pc \in {"wait", "handle", "grab"} => frames * Period <= age + due
    /\ age < MaxLen /\ pc = "write" => (frames + 1) * Period <= age + due
    /\ pc \in {"grab", "write"} => frames * Period <= age /\ frames * Period < MaxLen

\* Each frame written at one instant moves the next deadline on by a period;
\* the second one at the latest leaves it at most a period behind.
BurstInv ==
  running =>
    /\ pc \in {"wait", "handle", "grab"} =>
         /\ burst = 2 => due >= -Period
         /\ burst = 3 => due >= 0
         /\ burst = 4 => due >= Period
    /\ pc = "grab" => burst <= 3
    /\ pc = "write" =>
         /\ burst <= 3
         /\ burst = 1 => due >= -Period
         /\ burst = 2 => due >= 0
         /\ burst = 3 => due >= Period

\* The inductive invariant of the proofs.
RecorderInv ==
  /\ TypeOK /\ PhaseInv /\ PaceInv /\ BurstInv
  /\ VideoNotAhead /\ LengthBounded /\ BurstBounded
=============================================================================
