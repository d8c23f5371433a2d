---------------------------- MODULE CaptureProofs ----------------------------
(***************************************************************************)
(* Theorems about what cuad's capture thread does besides answering        *)
(* requests: the recorder's pacing, for every frame period, recording      *)
(* length and patience with the encoder, and for every stall of any part;  *)
(* and the desktop made of several displays, for every arrangement of      *)
(* displays and monitors, every region and every size of picture.          *)
(***************************************************************************)
EXTENDS Recorder, Geometry, FiniteSetTheorems, WellFoundedInduction, TLAPS

-----------------------------------------------------------------------------
(* The recorder *)

\* Multiplying out one frame more and one frame less.
LEMMA FrameTime ==
  ASSUME NEW n \in Nat, NEW p \in Nat
  PROVE  /\ n * p \in Nat
         /\ (n + 1) * p = n * p + p
         /\ (n - 1) * p = n * p - p
         /\ (n + 1 - 1) * p = n * p
OBVIOUS

\* Order is transitive (to name the middle term where the provers need it).
LEMMA AtMost ==
  ASSUME NEW a \in Int, NEW b \in Int, NEW c \in Int, a <= b, b <= c
  PROVE  a <= c
OBVIOUS

\* advance_tick moves the deadline on by a period at least, never leaves it
\* more than a period ago, and never sets it more than a period ahead of a
\* deadline that is over.
LEMMA AdvanceBounds ==
  ASSUME NEW d \in Behind .. Period
  PROVE  /\ Advance(d) \in Int
         /\ Advance(d) >= d + Period
         /\ Advance(d) >= -Period
         /\ d <= 0 => Advance(d) \in Behind .. Period
BY RecorderAssumption DEF Advance, Behind

\* What a type-correct state tells the arithmetic.
LEMMA Numbers ==
  TypeOK => /\ age \in 0 .. MaxLen /\ due \in Behind .. Period
            /\ frames \in Nat /\ burst \in Nat /\ frames * Period \in Nat
            /\ Period \in Nat /\ Period > 0 /\ MaxLen \in Nat /\ MaxLen > 0
            /\ Behind \in Int /\ StopWait \in Nat
BY RecorderAssumption, FrameTime DEF TypeOK, Behind

\* The answers that are given are answers, and what is recorded is a result.
LEMMA Records ==
  /\ \A c \in Command \cup {"None"}, ok \in BOOLEAN :
       [op |-> c, ok |-> ok] \in [op : Command \cup {"None"}, ok : BOOLEAN]
  /\ NoAnswer \in [op : Command \cup {"None"}, ok : BOOLEAN]
  /\ NoInfo \in [video : Nat, finalized : BOOLEAN, some : BOOLEAN]
  /\ Command = {"Start", "Stop", "Status", "Screenshot"}
BY DEF NoAnswer, NoInfo, Command

\* The recorder starts with the invariant.
THEOREM InitInv == Init => RecorderInv
<1> SUFFICES ASSUME Init PROVE RecorderInv
  OBVIOUS
<1>1. TypeOK
  <2>1. due \in Behind .. Period /\ age \in 0 .. MaxLen /\ patience \in 0 .. StopWait
    BY RecorderAssumption DEF Init, Behind
  <2> QED
    BY <2>1, Records DEF Init, TypeOK
<1>2. PhaseInv /\ PaceInv /\ BurstInv
  BY DEF Init, PhaseInv, PaceInv, BurstInv
<1>3. VideoNotAhead /\ LengthBounded /\ BurstBounded
  <2>1. (frames - 1) * Period = 0 * Period - Period /\ 0 * Period = 0
    BY RecorderAssumption, FrameTime DEF Init
  <2> QED
    BY <2>1, RecorderAssumption DEF Init, VideoNotAhead, LengthBounded, BurstBounded
<1> QED
  BY <1>1, <1>2, <1>3 DEF RecorderInv

\* The steps that touch neither the clock nor the video.
Aside ==
  \/ \E c \in Command : Ask(c)
  \/ \E how \in {"good", "bad"} : EncoderExits(how)
  \/ RefuseStart \/ RefuseStop \/ Status \/ Screenshot \/ ScreenshotDone

\* Asking, answering and the encoder's end keep the invariant.
LEMMA AsideStep ==
  ASSUME RecorderInv, Aside
  PROVE  RecorderInv'
<1> USE DEF cmds, clock, video, results
<1>1. UNCHANGED <<running, age, due, frames, burst, info, owed, patience, fed, sink>>
  BY DEF Aside, Ask, EncoderExits, RefuseStart, RefuseStop, Status, Screenshot, ScreenshotDone
<1>2. /\ pc' \in {"wait", "grab", "write", "close", "handle"}
      /\ pc' \notin {"wait", "handle"} => pc' = pc
      /\ pc' \in {"wait", "handle"} => pc \in {"wait", "handle"}
  BY DEF Aside, Ask, EncoderExits, RefuseStart, RefuseStop, Status, Screenshot,
         ScreenshotDone, RecorderInv, TypeOK
<1>3. TypeOK'
  <2>1. queue' \in Command \cup {"None"} /\ cmd' \in {"Start", "Stop", "Screenshot", "None"}
        /\ enc' \in {"up", "good", "bad"}
    BY DEF Aside, Ask, EncoderExits, RefuseStart, RefuseStop, Status, Screenshot,
           ScreenshotDone, RecorderInv, TypeOK
  <2>2. said' \in [op : Command \cup {"None"}, ok : BOOLEAN]
    BY Records DEF Aside, Ask, EncoderExits, RefuseStart, RefuseStop, Status, Screenshot,
           ScreenshotDone, RecorderInv, TypeOK
  <2> QED
    BY <2>1, <2>2, <1>1, <1>2 DEF RecorderInv, TypeOK
<1>4. PhaseInv'
  BY <1>1, <1>2 DEF PhaseInv, RecorderInv
<1>5. PaceInv' /\ BurstInv'
  BY <1>1, <1>2 DEF PaceInv, BurstInv, RecorderInv
<1>6. (VideoNotAhead /\ LengthBounded /\ BurstBounded)'
  BY <1>1 DEF VideoNotAhead, LengthBounded, BurstBounded, RecorderInv
<1> QED
  BY <1>3, <1>4, <1>5, <1>6 DEF RecorderInv

\* Time makes frames later, never earlier, and ends a burst.
LEMMA PassStep ==
  ASSUME RecorderInv, Pass
  PROVE  RecorderInv'
<1> USE DEF cmds, clock, video, results
<1>1. TypeOK /\ TypeOK'
  BY RecorderAssumption DEF RecorderInv, Pass, TypeOK, Behind
<1>2. /\ age <= age' /\ due' <= due /\ (age' < MaxLen => age < MaxLen /\ age + due <= age' + due')
      /\ burst' = 0 /\ UNCHANGED <<pc, running, frames, info, owed>>
  BY <1>1, Numbers DEF Pass
<1>3. PhaseInv' /\ BurstInv' /\ BurstBounded'
  <2>1. BurstInv' /\ BurstBounded'
    BY <1>2 DEF BurstInv, BurstBounded
  <2>2. due \in Int /\ due' \in Int
    BY <1>1, RecorderAssumption DEF TypeOK, Behind
  <2>3. pc' = "grab" => due' <= 0
    BY <1>2, <2>2 DEF RecorderInv, PhaseInv
  <2>4. (pc' \in {"grab", "write", "close"} => running') /\ (owed' /\ ~running' => info'.some)
    BY <1>2 DEF RecorderInv, PhaseInv
  <2> QED
    BY <2>1, <2>3, <2>4 DEF PhaseInv
<1>4. PaceInv'
  <2> DEFINE v == frames * Period
             w == (frames + 1) * Period
  <2>1. v \in Int /\ w \in Int
    BY <1>1, RecorderAssumption DEF TypeOK
  <2>2. v' = v /\ w' = w
    BY <1>2
  <2> HIDE DEF v, w
  <2>3. /\ age \in Int /\ due \in Int /\ age' \in Int /\ due' \in Int /\ MaxLen \in Int
    BY <1>1, RecorderAssumption DEF TypeOK, Behind
  <2>4. running => /\ age < MaxLen /\ pc \in {"wait", "handle", "grab"} => v <= age + due
                   /\ age < MaxLen /\ pc = "write" => w <= age + due
                   /\ pc \in {"grab", "write"} => v <= age /\ v < MaxLen
    BY DEF RecorderInv, PaceInv, v, w
  <2>5. running' => /\ age' < MaxLen /\ pc' \in {"wait", "handle", "grab"} => v <= age' + due'
                    /\ age' < MaxLen /\ pc' = "write" => w <= age' + due'
                    /\ pc' \in {"grab", "write"} => v <= age' /\ v < MaxLen
    <3> SUFFICES ASSUME running'
                 PROVE  /\ age' < MaxLen /\ pc' \in {"wait", "handle", "grab"} => v <= age' + due'
                        /\ age' < MaxLen /\ pc' = "write" => w <= age' + due'
                        /\ pc' \in {"grab", "write"} => v <= age' /\ v < MaxLen
      OBVIOUS
    <3>1. running /\ pc' = pc
      BY <1>2
    <3>2. age' < MaxLen => age < MaxLen /\ age + due <= age' + due'
      BY <1>2
    <3>3. ASSUME age' < MaxLen, pc \in {"wait", "handle", "grab"} PROVE v <= age' + due'
      <4>1. v <= age + due
        BY <3>3, <3>1, <3>2, <2>4
      <4>2. age + due <= age' + due'
        BY <3>3, <3>2
      <4>3. age + due \in Int /\ age' + due' \in Int
        BY <2>3
      <4> QED
        BY <4>1, <4>2, <2>1, <4>3, AtMost
    <3>4. ASSUME age' < MaxLen, pc = "write" PROVE w <= age' + due'
      <4>1. w <= age + due
        BY <3>4, <3>1, <3>2, <2>4
      <4>2. age + due <= age' + due'
        BY <3>4, <3>2
      <4>3. age + due \in Int /\ age' + due' \in Int
        BY <2>3
      <4> QED
        BY <4>1, <4>2, <2>1, <4>3, AtMost
    <3>5. pc \in {"grab", "write"} => v <= age' /\ v < MaxLen
      BY <1>2, <3>1, <2>1, <2>3, <2>4
    <3> QED
      BY <3>1, <3>3, <3>4, <3>5
  <2> QED
    BY <2>5, <1>2 DEF PaceInv, v, w
<1>5. VideoNotAhead' /\ LengthBounded'
  <2> DEFINE u == (frames - 1) * Period
  <2>1. u \in Int /\ u' = u
    BY <1>1, <1>2, RecorderAssumption DEF TypeOK
  <2> HIDE DEF u
  <2>2. (running => u <= age) /\ u < MaxLen
    BY DEF RecorderInv, VideoNotAhead, LengthBounded, u
  <2>3. age \in Int /\ age' \in Int
    BY <1>1 DEF TypeOK
  <2>4. (running' => u <= age') /\ u < MaxLen
    BY <1>2, <2>1, <2>2, <2>3
  <2> QED
    BY <2>4, <1>2 DEF VideoNotAhead, LengthBounded, u
<1> QED
  BY <1>1, <1>3, <1>4, <1>5 DEF RecorderInv

\* A tick that begins in time may write one frame more.
LEMMA TickStep ==
  ASSUME RecorderInv, Tick
  PROVE  RecorderInv'
<1> USE DEF cmds, clock, video, results
<1>1. TypeOK'
  BY DEF RecorderInv, Tick, TypeOK
<1>2. UNCHANGED <<running, age, due, frames, burst, info, owed>> /\ pc = "wait"
      /\ pc' = "grab" /\ running /\ due <= 0 /\ age < MaxLen
  BY DEF Tick
<1>3. PhaseInv'
  BY <1>2 DEF RecorderInv, PhaseInv
<1>4. (VideoNotAhead /\ LengthBounded /\ BurstBounded)'
  BY <1>2 DEF RecorderInv, VideoNotAhead, LengthBounded, BurstBounded
<1>5. BurstInv'
  BY <1>2, Numbers DEF RecorderInv, BurstInv, BurstBounded
<1>6. PaceInv'
  <2>1. frames * Period <= age + due
    BY <1>2 DEF RecorderInv, PaceInv
  <2>2. frames * Period <= age /\ frames * Period < MaxLen
    BY <2>1, <1>2, Numbers DEF RecorderInv, Behind
  <2> QED
    BY <2>1, <2>2, <1>2 DEF PaceInv
<1> QED
  BY <1>1, <1>3, <1>4, <1>5, <1>6 DEF RecorderInv

\* advance_tick pays for the frame that is about to be written.
LEMMA GrabStep ==
  ASSUME RecorderInv, NEW ok \in BOOLEAN, Grab(ok)
  PROVE  RecorderInv'
<1> USE DEF cmds, clock, video, results
<1>1. /\ UNCHANGED <<running, age, frames, burst, info, owed>> /\ due' = Advance(due)
      /\ pc = "grab" /\ pc' = "write" /\ due <= 0 /\ running
  BY DEF Grab, RecorderInv, PhaseInv
<1>2. /\ due' \in Behind .. Period /\ due' >= due + Period /\ due' >= -Period
  BY <1>1, AdvanceBounds, Numbers DEF RecorderInv
<1>3. TypeOK'
  BY <1>1, <1>2 DEF RecorderInv, Grab, TypeOK
<1>4. PhaseInv' /\ (VideoNotAhead /\ LengthBounded /\ BurstBounded)'
  BY <1>1 DEF RecorderInv, PhaseInv, VideoNotAhead, LengthBounded, BurstBounded
<1>5. BurstInv'
  BY <1>1, <1>2, Numbers DEF RecorderInv, BurstInv
<1>6. PaceInv'
  <2>1. frames * Period <= age /\ frames * Period < MaxLen
        /\ (age < MaxLen => frames * Period <= age + due)
    BY <1>1 DEF RecorderInv, PaceInv
  <2>2. (frames + 1) * Period = frames * Period + Period
    BY FrameTime, Numbers DEF RecorderInv
  <2>3. age < MaxLen => (frames + 1) * Period <= age + due'
    BY <2>1, <2>2, <1>2, Numbers DEF RecorderInv
  <2> QED
    BY <1>1, <2>1, <2>3 DEF PaceInv
<1> QED
  BY <1>3, <1>4, <1>5, <1>6 DEF RecorderInv

\* What the client of a Start is told after the first tick.
LEMMA TickAnswered ==
  ASSUME TypeOK, AfterTick
  PROVE  /\ cmd' \in {"Start", "Stop", "Screenshot", "None"} /\ owed' \in BOOLEAN
         /\ said' \in [op : Command \cup {"None"}, ok : BOOLEAN]
<1>1. CASE cmd = "Start"
  <2>1. said' = [op |-> "Start", ok |-> TRUE] /\ cmd' = "None" /\ owed' = TRUE
    BY <1>1 DEF AfterTick
  <2>2. "Start" \in Command \cup {"None"}
    BY DEF Command
  <2> QED
    BY <2>1, <2>2
<1>2. CASE cmd # "Start"
  BY <1>2 DEF AfterTick, TypeOK
<1> QED
  BY <1>1, <1>2

\* A frame written is one whose deadline was set.
LEMMA WrittenStep ==
  ASSUME RecorderInv, Written
  PROVE  RecorderInv'
<1>1. /\ UNCHANGED <<running, age, due, info>> /\ frames' = frames + 1 /\ burst' = burst + 1
      /\ pc = "write" /\ pc' = "wait" /\ running
  BY DEF Written, RecorderInv, PhaseInv
<1>2. TypeOK'
  <2>1. cmd' \in {"Start", "Stop", "Screenshot", "None"} /\ owed' \in BOOLEAN
    BY DEF RecorderInv, Written, AfterTick, TypeOK
  <2>2. said' \in [op : Command \cup {"None"}, ok : BOOLEAN]
    BY TickAnswered DEF RecorderInv, Written
  <2>3. frames' \in Nat /\ burst' \in Nat
    BY <1>1 DEF RecorderInv, TypeOK
  <2> QED
    BY <1>1, <2>1, <2>2, <2>3 DEF RecorderInv, Written, TypeOK
<1>3. PhaseInv'
  BY <1>1 DEF PhaseInv
<1>4. BurstInv' /\ BurstBounded'
  BY <1>1, Numbers DEF RecorderInv, BurstInv, BurstBounded
<1>5. (frames' - 1) * Period = frames * Period
  BY <1>1, FrameTime, Numbers DEF RecorderInv
<1>6. /\ frames * Period <= age /\ frames * Period < MaxLen
      /\ age < MaxLen => frames' * Period <= age + due
  BY <1>1 DEF RecorderInv, PaceInv
<1>7. PaceInv' /\ VideoNotAhead' /\ LengthBounded'
  BY <1>1, <1>5, <1>6 DEF PaceInv, VideoNotAhead, LengthBounded
<1> QED
  BY <1>2, <1>3, <1>4, <1>7 DEF RecorderInv

\* A tick without a frame leaves the video behind, never ahead.
LEMMA NothingStep ==
  ASSUME RecorderInv, NothingToRepeat
  PROVE  RecorderInv'
<1> USE DEF clock, video
<1>1. /\ UNCHANGED <<running, age, due, info, frames, burst>>
      /\ pc = "write" /\ pc' = "wait" /\ running
  BY DEF NothingToRepeat, RecorderInv, PhaseInv
<1>2. TypeOK'
  <2>1. cmd' \in {"Start", "Stop", "Screenshot", "None"} /\ owed' \in BOOLEAN
    BY DEF RecorderInv, NothingToRepeat, AfterTick, TypeOK
  <2>2. said' \in [op : Command \cup {"None"}, ok : BOOLEAN]
    BY TickAnswered DEF RecorderInv, NothingToRepeat
  <2>3. frames' \in Nat /\ burst' \in Nat
    BY <1>1 DEF RecorderInv, TypeOK
  <2> QED
    BY <1>1, <2>1, <2>2, <2>3 DEF RecorderInv, NothingToRepeat, TypeOK
<1>3. PhaseInv' /\ (VideoNotAhead /\ LengthBounded /\ BurstBounded)'
  BY <1>1 DEF RecorderInv, PhaseInv, VideoNotAhead, LengthBounded, BurstBounded
<1>4. BurstInv'
  BY <1>1, Numbers DEF RecorderInv, BurstInv, BurstBounded
<1>5. PaceInv'
  <2>1. age < MaxLen => (frames + 1) * Period <= age + due
    BY <1>1 DEF RecorderInv, PaceInv
  <2>2. (frames + 1) * Period = frames * Period + Period
    BY FrameTime, Numbers DEF RecorderInv
  <2>3. age < MaxLen => frames * Period <= age + due
    BY <2>1, <2>2, Numbers DEF RecorderInv
  <2> QED
    BY <1>1, <2>3 DEF PaceInv
<1> QED
  BY <1>2, <1>3, <1>4, <1>5 DEF RecorderInv

\* Closing the encoder's input leaves the clock and the video alone.
LEMMA CloseStep ==
  ASSUME RecorderInv, OverTime \/ WriteFails \/ StopRunning
  PROVE  RecorderInv'
<1> USE DEF cmds, video, results
<1>1. /\ UNCHANGED <<running, age, due, info, frames, burst, owed>>
      /\ pc' = "close" /\ running
  BY DEF OverTime, WriteFails, StopRunning, Close, RecorderInv, PhaseInv
<1>2. TypeOK'
  BY <1>1, RecorderAssumption DEF RecorderInv, OverTime, WriteFails, StopRunning, Close, TypeOK
<1>3. PhaseInv' /\ PaceInv' /\ BurstInv'
  BY <1>1 DEF PhaseInv, PaceInv, BurstInv
<1>4. (VideoNotAhead /\ LengthBounded /\ BurstBounded)'
  BY <1>1 DEF RecorderInv, VideoNotAhead, LengthBounded, BurstBounded
<1> QED
  BY <1>2, <1>3, <1>4 DEF RecorderInv

\* A new recording starts its own clock.
LEMMA StartStep ==
  ASSUME RecorderInv, NEW s \in {"gst", "zero"}, Start(s)
  PROVE  RecorderInv'
<1>1. /\ age' = 0 /\ due' = 0 /\ frames' = 0 /\ burst' = 0 /\ pc' = "grab" /\ running'
  BY DEF Start
<1>2. frames' * Period = 0 /\ (frames' - 1) * Period = 0 - Period
  BY <1>1, FrameTime, RecorderAssumption
<1>3. TypeOK'
  <2>1. due' \in Behind .. Period /\ age' \in 0 .. MaxLen
    BY <1>1, RecorderAssumption DEF Behind
  <2> QED
    <3>1. info' \in [video : Nat, finalized : BOOLEAN, some : BOOLEAN] /\ said' = said
      BY Records DEF Start
    <3>2. frames' \in Nat /\ burst' \in Nat /\ queue' = "None" /\ cmd' = "Start"
          /\ sink' \in {"gst", "zero"} /\ enc' = "up" /\ fed' = FALSE
          /\ UNCHANGED <<patience, owed>>
      BY DEF Start
    <3> QED
      BY <1>1, <2>1, <3>1, <3>2 DEF RecorderInv, TypeOK
<1>4. PhaseInv' /\ BurstInv' /\ BurstBounded'
  BY <1>1, RecorderAssumption DEF PhaseInv, BurstInv, BurstBounded
<1>5. PaceInv' /\ VideoNotAhead' /\ LengthBounded'
  BY <1>1, <1>2, RecorderAssumption DEF PaceInv, VideoNotAhead, LengthBounded
<1> QED
  BY <1>3, <1>4, <1>5 DEF RecorderInv

\* Once finished there is no recorder, and its result is kept.
LEMMA FinishedStep ==
  ASSUME RecorderInv, (\E ok \in BOOLEAN : Reaped(ok)) \/ Killed
  PROVE  RecorderInv'
<1> USE DEF clock, video
<1>1. PICK f \in BOOLEAN : Finished(f)
  BY DEF Reaped, Killed
<1>2. /\ running' = FALSE /\ info' = [video |-> frames, finalized |-> f, some |-> TRUE]
      /\ pc' = "wait" /\ UNCHANGED <<queue, sink, age, due, patience, burst, frames, fed>>
  BY <1>1 DEF Finished
<1>3. enc' \in {"up", "good", "bad"}
  BY DEF Reaped, Killed, RecorderInv, TypeOK
<1>4. /\ cmd' \in {"Start", "Stop", "Screenshot", "None"} /\ owed' \in BOOLEAN
      /\ said' \in [op : Command \cup {"None"}, ok : BOOLEAN]
  <2>1. CASE cmd = "Stop"
    <3>1. said' = [op |-> "Stop", ok |-> TRUE] /\ cmd' = "None" /\ owed' = FALSE
      BY <1>1, <2>1 DEF Finished
    <3>2. "Stop" \in Command \cup {"None"}
      BY DEF Command
    <3> QED
      BY <3>1, <3>2
  <2>2. CASE cmd # "Stop"
    BY <1>1, <2>2, TickAnswered DEF Finished, RecorderInv
  <2> QED
    BY <2>1, <2>2
<1>5. info' \in [video : Nat, finalized : BOOLEAN, some : BOOLEAN] /\ info'.some
  BY <1>2 DEF RecorderInv, TypeOK
<1>6. TypeOK'
  BY <1>2, <1>3, <1>4, <1>5 DEF RecorderInv, TypeOK
<1>7. PhaseInv' /\ PaceInv' /\ BurstInv'
  BY <1>2, <1>5 DEF PhaseInv, PaceInv, BurstInv
<1>8. (VideoNotAhead /\ LengthBounded /\ BurstBounded)'
  BY <1>2 DEF RecorderInv, VideoNotAhead, LengthBounded, BurstBounded
<1> QED
  BY <1>6, <1>7, <1>8 DEF RecorderInv

\* Every step keeps the invariant.
LEMMA StepInv == RecorderInv /\ [Next]_vars => RecorderInv'
<1> SUFFICES ASSUME RecorderInv, [Next]_vars PROVE RecorderInv'
  OBVIOUS
<1>1. CASE UNCHANGED vars
  BY <1>1 DEF vars, RecorderInv, TypeOK, PhaseInv, PaceInv, BurstInv, VideoNotAhead,
              LengthBounded, BurstBounded
<1>2. CASE Aside
  BY <1>2, AsideStep
<1>3. CASE Tick
  BY <1>3, TickStep
<1>4. CASE Pass
  BY <1>4, PassStep
<1>5. ASSUME NEW ok \in BOOLEAN, Grab(ok) PROVE RecorderInv'
  BY <1>5, GrabStep
<1>6. CASE Written \/ NothingToRepeat
  BY <1>6, WrittenStep, NothingStep
<1>7. CASE OverTime \/ WriteFails \/ StopRunning
  BY <1>7, CloseStep
<1>8. ASSUME NEW s \in {"gst", "zero"}, Start(s) PROVE RecorderInv'
  BY <1>8, StartStep
<1>9. CASE (\E ok \in BOOLEAN : Reaped(ok)) \/ Killed
  BY <1>9, FinishedStep
<1> QED
  BY <1>1, <1>2, <1>3, <1>4, <1>5, <1>6, <1>7, <1>8, <1>9 DEF Next, Worker, Aside

\* The recorder's invariant, whatever stalls and whoever asks what.
THEOREM Invariance == Spec => []RecorderInv
BY InitInv, StepInv, PTL DEF Spec

\* Type correctness.
THEOREM TypeCorrect == Spec => []TypeOK
<1>1. RecorderInv => TypeOK
  BY DEF RecorderInv
<1> QED
  BY <1>1, Invariance, PTL

\* The video never runs ahead of the wall clock and is no longer than
\* max_seconds.
THEOREM VideoInTime == Spec => [](VideoNotAhead /\ LengthBounded)
<1>1. RecorderInv => VideoNotAhead /\ LengthBounded
  BY DEF RecorderInv
<1> QED
  BY <1>1, Invariance, PTL

\* No stall is followed by more than four frames at once.
THEOREM NoBurst == Spec => []BurstBounded
<1>1. RecorderInv => BurstBounded
  BY DEF RecorderInv
<1> QED
  BY <1>1, Invariance, PTL

\* The result of a recording that ended by itself is not lost.
THEOREM KeepsResult == Spec => []ResultKept
<1>1. RecorderInv => ResultKept
  BY DEF RecorderInv, PhaseInv, ResultKept
<1> QED
  BY <1>1, Invariance, PTL

-----------------------------------------------------------------------------
(* The desktop: numbers *)

LEMMA Div ==
  ASSUME NEW n \in Int, NEW d \in Nat \ {0}
  PROVE  n \div d \in Int /\ (n \div d) * d <= n /\ n < (n \div d) * d + d
  OBVIOUS

\* What is larger by a factor is larger.
LEMMA Larger ==
  ASSUME NEW a \in Int, NEW b \in Int, NEW d \in Nat \ {0}
  PROVE  /\ a <= b <=> a * d <= b * d
         /\ a < b <=> a * d < b * d
         /\ a * d \in Int /\ (a + b) * d = a * d + b * d /\ (a - b) * d = a * d - b * d
  OBVIOUS

LEMMA UpIs ==
  ASSUME NEW n \in Int, NEW d \in Nat \ {0}
  PROVE  Up(n, d) \in Int /\ n <= Up(n, d) * d /\ (Up(n, d) - 1) * d < n
<1>1. -n \in Int
  OBVIOUS
<1> QED
  BY <1>1, Div DEF Up

\* Rounding is off by a half at most.
LEMMA RoundedIs ==
  ASSUME NEW n \in Int, NEW d \in Nat \ {0}
  PROVE  /\ Rounded(n, d) \in Int
         /\ 2 * n - d <= 2 * (Rounded(n, d) * d) /\ 2 * (Rounded(n, d) * d) <= 2 * n + d
<1> DEFINE p == (2 * n + d) \div (2 * d)
           q == (d - 2 * n) \div (2 * d)
<1>1. 2 * d \in Nat \ {0} /\ 2 * n + d \in Int /\ d - 2 * n \in Int
  OBVIOUS
<1>2. p \in Int /\ p * (2 * d) <= 2 * n + d /\ 2 * n + d < p * (2 * d) + 2 * d
  BY <1>1, Div
<1>3. q \in Int /\ q * (2 * d) <= d - 2 * n /\ d - 2 * n < q * (2 * d) + 2 * d
  BY <1>1, Div
<1>4. Rounded(n, d) = IF n >= 0 THEN p ELSE -q
  BY DEF Rounded
<1> HIDE DEF p, q
<1> QED
  BY <1>2, <1>3, <1>4

\* A multiple of d is not rounded.
LEMMA RoundedExact ==
  ASSUME NEW n \in Int, NEW d \in Nat \ {0}
  PROVE  Rounded(n * d, d) = n
<1>1. /\ Rounded(n * d, d) \in Int
      /\ 2 * (n * d) - d <= 2 * (Rounded(n * d, d) * d)
      /\ 2 * (Rounded(n * d, d) * d) <= 2 * (n * d) + d
  BY RoundedIs
<1> QED
  BY <1>1

-----------------------------------------------------------------------------
(* Least and greatest *)

\* A finite set of numbers, each at its place, has a least one.
LEMMA LeastAt ==
  ASSUME NEW D, IsFiniteSet(D), D # {}, NEW v \in [D -> Int]
  PROVE  \E x \in D : \A y \in D : v[x] <= v[y]
<1> DEFINE HasLeast(A) == \E x \in A : \A y \in A : v[x] <= v[y]
           Bad == {A \in SUBSET D : A # {} /\ ~HasLeast(A)}
<1>1. SUFFICES ASSUME Bad # {} PROVE FALSE
  OBVIOUS
<1>2. Bad \subseteq FiniteSubsetsOf(D)
  BY FS_FiniteSubsetsOfFinite
<1>3. PICK A \in Bad : \A B \in Bad : ~(<<B, A>> \in StrictSubsetOrdering(D))
  <2> HIDE DEF Bad
  <2> QED
    BY <1>1, <1>2, FS_StrictSubsetOrderingWellFounded, WFMin
<1>4. PICK a \in A : TRUE
  OBVIOUS
<1> DEFINE B == A \ {a}
<1>5. <<B, A>> \in StrictSubsetOrdering(D)
  BY <1>4 DEF StrictSubsetOrdering
<1>6. B = {} \/ HasLeast(B)
  BY <1>3, <1>5
<1>7. CASE B = {}
  <2>1. A = {a} /\ v[a] \in Int
    BY <1>4, <1>7
  <2> QED
    BY <2>1
<1>8. CASE HasLeast(B)
  <2>1. PICK b \in B : \A y \in B : v[b] <= v[y]
    BY <1>8
  <2>2. v[a] \in Int /\ v[b] \in Int /\ \A y \in B : v[y] \in Int
    BY <1>4
  <2>3. \A y \in A : y = a \/ y \in B
    BY <1>4
  <2>4. CASE v[a] <= v[b]
    <3>1. \A y \in A : v[a] <= v[y]
      BY <2>1, <2>2, <2>3, <2>4
    <3> QED
      BY <1>4, <3>1
  <2>5. CASE v[b] <= v[a]
    <3>1. b \in A /\ \A y \in A : v[b] <= v[y]
      BY <2>1, <2>2, <2>3, <2>5
    <3> QED
      BY <3>1
  <2> QED
    BY <2>2, <2>4, <2>5
<1> QED
  BY <1>6, <1>7, <1>8

\* Min and Max of such a set are in it.
LEMMA MinMax ==
  ASSUME NEW D, IsFiniteSet(D), D # {}, NEW v \in [D -> Int], NEW S, S = {v[x] : x \in D}
  PROVE  /\ Min(S) \in Int /\ \A x \in D : Min(S) <= v[x]
         /\ Max(S) \in Int /\ \A x \in D : v[x] <= Max(S)
         /\ Min(S) \in S /\ Max(S) \in S
<1>1. PICK l \in D : \A y \in D : v[l] <= v[y]
  BY LeastAt
<1> DEFINE w == [x \in D |-> -v[x]]
<1>2. w \in [D -> Int]
  OBVIOUS
<1>3. PICK g \in D : \A y \in D : w[g] <= w[y]
  <2> HIDE DEF w
  <2> QED
    BY <1>2, LeastAt
<1>4. \A y \in D : v[y] <= v[g]
  BY <1>3
<1>5. S \subseteq Int /\ v[l] \in S /\ v[g] \in S
  OBVIOUS
<1>6. Min(S) \in S /\ \A s \in S : Min(S) <= s
  BY <1>1, <1>5 DEF Min
<1>7. Max(S) \in S /\ \A s \in S : Max(S) >= s
  BY <1>4, <1>5 DEF Max
<1> QED
  BY <1>5, <1>6, <1>7

\* The first of some places in a sequence is one of them.
LEMMA FirstIs ==
  ASSUME NEW n \in Nat, NEW S \in SUBSET (1 .. n)
  PROVE  /\ S = {} => First(S) = 0
         /\ S # {} => First(S) \in S
<1>1. IsFiniteSet(S)
  <2>1. IsFiniteSet(1 .. n)
    BY FS_Interval
  <2> QED
    BY <2>1, FS_Subset
<1>2. ASSUME S # {} PROVE Min(S) \in S
  <2> DEFINE v == [x \in S |-> x]
  <2>1. v \in [S -> Int] /\ \A x \in S : v[x] = x
    OBVIOUS
  <2>2. S = {v[x] : x \in S}
    BY <2>1
  <2> HIDE DEF v
  <2> QED
    BY <1>1, <1>2, <2>1, <2>2, MinMax
<1> QED
  BY <1>2 DEF First

\* Of two.
LEMMA OfTwo ==
  ASSUME NEW a \in Int, NEW b \in Int
  PROVE  /\ Min({a, b}) = IF a <= b THEN a ELSE b
         /\ Max({a, b}) = IF a >= b THEN a ELSE b
         /\ Min({a, b}) \in Int /\ Min({a, b}) <= a /\ Min({a, b}) <= b
         /\ Max({a, b}) \in Int /\ Max({a, b}) >= a /\ Max({a, b}) >= b
<1>1. Min({a, b}) = IF a <= b THEN a ELSE b
  BY DEF Min
<1>2. Max({a, b}) = IF a >= b THEN a ELSE b
  BY DEF Max
<1> QED
  BY <1>1, <1>2

LEMMA OneAtLeast ==
  ASSUME NEW n \in Int
  PROVE  Max({1, n}) = IF n >= 1 THEN n ELSE 1
  BY DEF Max

-----------------------------------------------------------------------------
(* Rects *)

\* Two rects that have a part in common.
LEMMA IntersectIs ==
  ASSUME NEW a \in Rects, NEW b \in Rects, Intersect(a, b) # NoRect
  PROVE  LET c == Intersect(a, b)
         IN  /\ c \in Rects
             /\ a.x <= c.x /\ b.x <= c.x /\ (c.x = a.x \/ c.x = b.x)
             /\ a.y <= c.y /\ b.y <= c.y /\ (c.y = a.y \/ c.y = b.y)
             /\ Right(c) <= Right(a) /\ Right(c) <= Right(b)
             /\ Bottom(c) <= Bottom(a) /\ Bottom(c) <= Bottom(b)
<1> DEFINE x0 == Max({a.x, b.x})
           y0 == Max({a.y, b.y})
           x1 == Min({Right(a), Right(b)})
           y1 == Min({Bottom(a), Bottom(b)})
<1>1. /\ a.x \in Int /\ a.y \in Int /\ b.x \in Int /\ b.y \in Int
      /\ Right(a) \in Int /\ Right(b) \in Int /\ Bottom(a) \in Int /\ Bottom(b) \in Int
  BY DEF Rects, Right, Bottom
<1>2. /\ x0 \in Int /\ x0 >= a.x /\ x0 >= b.x /\ (x0 = a.x \/ x0 = b.x)
      /\ y0 \in Int /\ y0 >= a.y /\ y0 >= b.y /\ (y0 = a.y \/ y0 = b.y)
      /\ x1 \in Int /\ x1 <= Right(a) /\ x1 <= Right(b)
      /\ y1 \in Int /\ y1 <= Bottom(a) /\ y1 <= Bottom(b)
  <2> DEFINE ax == a.x bx == b.x ay == a.y by == b.y
             ar == Right(a) br == Right(b) ab == Bottom(a) bb == Bottom(b)
  <2>1. /\ ax \in Int /\ bx \in Int /\ ay \in Int /\ by \in Int
        /\ ar \in Int /\ br \in Int /\ ab \in Int /\ bb \in Int
        /\ x0 = Max({ax, bx}) /\ y0 = Max({ay, by})
        /\ x1 = Min({ar, br}) /\ y1 = Min({ab, bb})
    BY <1>1
  <2> HIDE DEF x0, y0, x1, y1
  <2>2. /\ x0 \in Int /\ x0 >= ax /\ x0 >= bx /\ (x0 = ax \/ x0 = bx)
        /\ y0 \in Int /\ y0 >= ay /\ y0 >= by /\ (y0 = ay \/ y0 = by)
    <3> HIDE DEF ax, bx, ay, by
    <3>1. x0 = (IF ax >= bx THEN ax ELSE bx) /\ y0 = (IF ay >= by THEN ay ELSE by)
      BY <2>1, OfTwo
    <3> QED
      BY <2>1, <3>1
  <2>3. /\ x1 \in Int /\ x1 <= ar /\ x1 <= br
        /\ y1 \in Int /\ y1 <= ab /\ y1 <= bb
    <3> HIDE DEF ar, br, ab, bb
    <3> QED
      BY <2>1, OfTwo
  <2> QED
    BY <2>2, <2>3
<1>3. Intersect(a, b) = Area(x0, y0, x1, y1)
  BY DEF Intersect
<1> HIDE DEF x0, y0, x1, y1
<1>4. /\ x1 > x0 /\ y1 > y0
      /\ Intersect(a, b) = [x |-> x0, y |-> y0, width |-> x1 - x0, height |-> y1 - y0]
  BY <1>3 DEF Area
<1>5. /\ Intersect(a, b) \in Rects
      /\ Intersect(a, b).x = x0 /\ Right(Intersect(a, b)) = x1
      /\ Intersect(a, b).y = y0 /\ Bottom(Intersect(a, b)) = y1
  BY <1>2, <1>4 DEF Rects, Right, Bottom
<1> QED
  BY <1>2, <1>5

\* What is inside is its own intersection.
LEMMA InsideIs ==
  ASSUME NEW a \in Rects, NEW b \in Rects, b.x <= a.x, b.y <= a.y,
         Right(a) <= Right(b), Bottom(a) <= Bottom(b)
  PROVE  Intersect(a, b) = a
<1>1. /\ a.x \in Int /\ a.y \in Int /\ b.x \in Int /\ b.y \in Int
      /\ Right(a) \in Int /\ Right(b) \in Int /\ Bottom(a) \in Int /\ Bottom(b) \in Int
      /\ Right(a) = a.x + a.width /\ Bottom(a) = a.y + a.height
      /\ a.width \in Nat \ {0} /\ a.height \in Nat \ {0}
      /\ a = [x |-> a.x, y |-> a.y, width |-> a.width, height |-> a.height]
  BY DEF Rects, Right, Bottom
<1>2. /\ Max({a.x, b.x}) = a.x /\ Max({a.y, b.y}) = a.y
      /\ Min({Right(a), Right(b)}) = Right(a) /\ Min({Bottom(a), Bottom(b)}) = Bottom(a)
  <2> DEFINE ax == a.x bx == b.x ay == a.y by == b.y
             ar == Right(a) br == Right(b) ab == Bottom(a) bb == Bottom(b)
  <2>1. ax \in Int /\ bx \in Int /\ ay \in Int /\ by \in Int /\ bx <= ax /\ by <= ay
    BY <1>1
  <2>2. ar \in Int /\ br \in Int /\ ab \in Int /\ bb \in Int /\ ar <= br /\ ab <= bb
    BY <1>1
  <2> HIDE DEF ax, bx, ay, by, ar, br, ab, bb
  <2>3. Max({ax, bx}) = ax /\ Max({ay, by}) = ay
    BY <2>1, OfTwo
  <2>4. Min({ar, br}) = ar /\ Min({ab, bb}) = ab
    BY <2>2, OfTwo
  <2> QED
    BY <2>3, <2>4 DEF ax, bx, ay, by, ar, br, ab, bb
<1>3. Intersect(a, b) = Area(a.x, a.y, Right(a), Bottom(a))
  BY <1>2 DEF Intersect
<1> QED
  BY <1>1, <1>3 DEF Area

\* The rect of some rects, each at its place, has them in it.
LEMMA UnionIs ==
  ASSUME NEW D, IsFiniteSet(D), D # {}, NEW p, \A h \in D : p[h] \in Rects
  PROVE  LET u == Union({p[h] : h \in D})
         IN  /\ u \in Rects
             /\ \A h \in D : /\ u.x <= p[h].x /\ Right(p[h]) <= Right(u)
                             /\ u.y <= p[h].y /\ Bottom(p[h]) <= Bottom(u)
<1> DEFINE P == {p[h] : h \in D}
           lx == [h \in D |-> p[h].x]
           ly == [h \in D |-> p[h].y]
           rx == [h \in D |-> Right(p[h])]
           ry == [h \in D |-> Bottom(p[h])]
           x0 == Min({r.x : r \in P})
           y0 == Min({r.y : r \in P})
           x1 == Max({Right(r) : r \in P})
           y1 == Max({Bottom(r) : r \in P})
<1>1. \A h \in D : /\ p[h].x \in Int /\ p[h].y \in Int
                   /\ Right(p[h]) \in Int /\ Bottom(p[h]) \in Int
                   /\ p[h].x < Right(p[h]) /\ p[h].y < Bottom(p[h])
  BY DEF Rects, Right, Bottom
<1>2. /\ lx \in [D -> Int] /\ {r.x : r \in P} = {lx[h] : h \in D}
      /\ ly \in [D -> Int] /\ {r.y : r \in P} = {ly[h] : h \in D}
      /\ rx \in [D -> Int] /\ {Right(r) : r \in P} = {rx[h] : h \in D}
      /\ ry \in [D -> Int] /\ {Bottom(r) : r \in P} = {ry[h] : h \in D}
  BY <1>1
<1>3. \A h \in D : /\ lx[h] = p[h].x /\ ly[h] = p[h].y
                   /\ rx[h] = Right(p[h]) /\ ry[h] = Bottom(p[h])
  OBVIOUS
<1>4. Union(P) = Area(x0, y0, x1, y1)
  BY DEF Union
<1> HIDE DEF P, lx, ly, rx, ry
<1> DEFINE S1 == {r.x : r \in P}
           S2 == {r.y : r \in P}
           S3 == {Right(r) : r \in P}
           S4 == {Bottom(r) : r \in P}
<1>a. S1 = {lx[h] : h \in D} /\ S2 = {ly[h] : h \in D}
  BY <1>2
<1>b. S3 = {rx[h] : h \in D} /\ S4 = {ry[h] : h \in D}
  BY <1>2
<1>c. x0 = Min(S1) /\ y0 = Min(S2) /\ x1 = Max(S3) /\ y1 = Max(S4)
  OBVIOUS
<1> HIDE DEF x0, y0, x1, y1, S1, S2, S3, S4
<1>5. /\ x0 \in Int /\ \A h \in D : x0 <= p[h].x
      /\ y0 \in Int /\ \A h \in D : y0 <= p[h].y
  <2>1. Min(S1) \in Int /\ \A h \in D : Min(S1) <= lx[h]
    BY <1>2, <1>a, MinMax
  <2>2. Min(S2) \in Int /\ \A h \in D : Min(S2) <= ly[h]
    BY <1>2, <1>a, MinMax
  <2> QED
    BY <1>3, <1>c, <2>1, <2>2
<1>6. /\ x1 \in Int /\ \A h \in D : Right(p[h]) <= x1
      /\ y1 \in Int /\ \A h \in D : Bottom(p[h]) <= y1
  <2>1. Max(S3) \in Int /\ \A h \in D : rx[h] <= Max(S3)
    BY <1>2, <1>b, MinMax
  <2>2. Max(S4) \in Int /\ \A h \in D : ry[h] <= Max(S4)
    BY <1>2, <1>b, MinMax
  <2> QED
    BY <1>3, <1>c, <2>1, <2>2
<1>7. x1 > x0 /\ y1 > y0
  BY <1>1, <1>5, <1>6
<1>8. Union(P) = [x |-> x0, y |-> y0, width |-> x1 - x0, height |-> y1 - y0]
  BY <1>4, <1>7 DEF Area
<1>9. /\ Union(P) \in Rects /\ Union(P).x = x0 /\ Union(P).y = y0
      /\ Right(Union(P)) = x1 /\ Bottom(Union(P)) = y1
  BY <1>5, <1>6, <1>7, <1>8 DEF Rects, Right, Bottom
<1>10. P = {p[h] : h \in D}
  BY DEF P
<1> QED
  BY <1>5, <1>6, <1>9, <1>10

-----------------------------------------------------------------------------
(* Arranging *)

LEMMA HeadsAre ==
  ASSUME NEW hs \in Topology
  PROVE  /\ Len(hs) \in Nat /\ DOMAIN hs = 1 .. Len(hs) /\ 1 \in DOMAIN hs
         /\ IsFiniteSet(DOMAIN hs)
         /\ \A h \in DOMAIN hs : hs[h].width \in Nat \ {0} /\ hs[h].height \in Nat \ {0}
<1>1. hs \in Heads /\ hs # <<>>
  BY GeometryAssumption
<1> DEFINE One == [name : STRING \X Nat, width : Nat \ {0}, height : Nat \ {0}]
<1>2. hs \in Seq(One)
  BY <1>1 DEF Heads
<1>3. \A e \in One : e.width \in Nat \ {0} /\ e.height \in Nat \ {0}
  OBVIOUS
<1> HIDE DEF One
<1>5. Len(hs) \in Nat /\ DOMAIN hs = 1 .. Len(hs) /\ 1 \in DOMAIN hs
  BY <1>1, <1>2
<1>6. \A h \in DOMAIN hs : hs[h] \in One
  BY <1>2
<1>4. IsFiniteSet(DOMAIN hs)
  BY <1>5, FS_Interval
<1> QED
  BY <1>3, <1>4, <1>5, <1>6

LEMMA MonitorsAre ==
  ASSUME NEW ms \in Layout
  PROVE  /\ Len(ms) \in Nat /\ DOMAIN ms = 1 .. Len(ms) /\ 0 \notin DOMAIN ms /\ ms # <<>>
         /\ \A m \in DOMAIN ms : /\ ms[m].x \in Int /\ ms[m].y \in Int
                                 /\ ms[m].width \in Nat /\ ms[m].height \in Nat
<1>1. ms \in Monitors /\ ms # <<>>
  BY GeometryAssumption
<1> DEFINE One == [connector : STRING \X Nat, x : Int, y : Int, width : Nat, height : Nat,
                   primary : BOOLEAN]
<1>2. ms \in Seq(One)
  BY <1>1 DEF Monitors
<1>3. \A e \in One : e.x \in Int /\ e.y \in Int /\ e.width \in Nat /\ e.height \in Nat
  OBVIOUS
<1> HIDE DEF One
<1>4. Len(ms) \in Nat /\ DOMAIN ms = 1 .. Len(ms) /\ 0 \notin DOMAIN ms
  BY <1>2
<1>5. \A m \in DOMAIN ms : ms[m] \in One
  BY <1>2
<1> QED
  BY <1>1, <1>3, <1>4, <1>5

\* A head's monitor is one of the layout's.
LEMMA PairIs ==
  ASSUME NEW hs \in Topology, NEW ms \in Layout, NEW h \in DOMAIN hs
  PROVE  Pair(hs, ms, h) = 0 \/ Pair(hs, ms, h) \in DOMAIN ms
<1>1. \A S \in SUBSET DOMAIN ms : First(S) = 0 \/ First(S) \in DOMAIN ms
  BY MonitorsAre, FirstIs
<1>2. Named(hs, ms, h) = 0 \/ Named(hs, ms, h) \in DOMAIN ms
  BY <1>1 DEF Named
<1>3. First(FreeMonitors(hs, ms)) = 0 \/ First(FreeMonitors(hs, ms)) \in DOMAIN ms
  BY <1>1 DEF FreeMonitors
<1> QED
  BY <1>2, <1>3 DEF Pair

\* The primary is one of the displays that have a monitor.
LEMMA PrimaryIs ==
  ASSUME NEW hs \in Topology, NEW ms \in Layout, Fits(hs, ms)
  PROVE  PrimaryOf(hs, ms) \in Paired(hs, ms)
<1> DEFINE flagged == {h \in Paired(hs, ms) : ms[Pair(hs, ms, h)].primary}
<1>1. Paired(hs, ms) \subseteq 1 .. Len(hs) /\ Len(hs) \in Nat /\ Paired(hs, ms) # {}
  BY HeadsAre DEF Paired, Fits
<1>2. /\ flagged # {} => First(flagged) \in flagged
      /\ First(Paired(hs, ms)) \in Paired(hs, ms)
  <2>1. flagged \subseteq 1 .. Len(hs)
    BY <1>1
  <2> HIDE DEF flagged
  <2> QED
    BY <1>1, <2>1, FirstIs
<1> QED
  BY <1>2 DEF PrimaryOf

\* What a display that has a monitor is: of some size, and not rotated.
LEMMA MonitorOf ==
  ASSUME NEW hs \in Topology, NEW ms \in Layout, Fits(hs, ms), NEW h \in Paired(hs, ms)
  PROVE  LET m == ms[Pair(hs, ms, h)]
         IN  /\ h \in DOMAIN hs /\ ~Rotated(hs[h], m)
             /\ hs[h].width \in Nat \ {0} /\ hs[h].height \in Nat \ {0}
             /\ m.x \in Int /\ m.y \in Int /\ m.width \in Nat \ {0} /\ m.height \in Nat \ {0}
<1>1. h \in DOMAIN hs /\ Pair(hs, ms, h) # 0
  BY DEF Paired
<1>2. Pair(hs, ms, h) \in DOMAIN ms
  BY <1>1, PairIs
<1> DEFINE m == ms[Pair(hs, ms, h)]
<1>3. m.width > 0 /\ m.height > 0 /\ ~Rotated(hs[h], m)
  BY DEF Fits
<1>4. m.x \in Int /\ m.y \in Int /\ m.width \in Nat /\ m.height \in Nat
  BY <1>2, MonitorsAre
<1>5. hs[h].width \in Nat \ {0} /\ hs[h].height \in Nat \ {0}
  BY <1>1, HeadsAre
<1> HIDE DEF m
<1>6. m.width \in Nat \ {0} /\ m.height \in Nat \ {0}
  BY <1>3, <1>4
<1> QED
  BY <1>1, <1>3, <1>4, <1>5, <1>6 DEF m

\* The layout's pixels in desktop pixels, by the width of the primary.
LEMMA ScaledIs ==
  ASSUME NEW hs \in Topology, NEW ms \in Layout, Fits(hs, ms), NEW v \in Int
  PROVE  LET p == PrimaryOf(hs, ms)
             k == hs[p].width
             d == ms[Pair(hs, ms, p)].width
         IN  /\ k \in Nat \ {0} /\ d \in Nat \ {0} /\ v * k \in Int
             /\ Scaled(hs, ms, v) \in Int
             /\ 2 * (v * k) - d <= 2 * (Scaled(hs, ms, v) * d)
             /\ 2 * (Scaled(hs, ms, v) * d) <= 2 * (v * k) + d
<1> DEFINE p == PrimaryOf(hs, ms)
           k == hs[p].width
           d == ms[Pair(hs, ms, p)].width
<1>1. k \in Nat \ {0} /\ d \in Nat \ {0}
  BY PrimaryIs, MonitorOf
<1>2. Scaled(hs, ms, v) = Rounded(v * k, d)
  BY DEF Scaled
<1> HIDE DEF k, d
<1>3. v * k \in Int
  BY <1>1
<1>4. /\ Rounded(v * k, d) \in Int
      /\ 2 * (v * k) - d <= 2 * (Rounded(v * k, d) * d)
      /\ 2 * (Rounded(v * k, d) * d) <= 2 * (v * k) + d
  BY <1>1, <1>3, RoundedIs
<1> QED
  BY <1>1, <1>2, <1>3, <1>4 DEF k, d

\* The primary keeps its size.
LEMMA PrimaryExact ==
  ASSUME NEW hs \in Topology, NEW ms \in Layout, Fits(hs, ms)
  PROVE  LET p == PrimaryOf(hs, ms)
         IN  Scaled(hs, ms, ms[Pair(hs, ms, p)].width) = hs[p].width
<1> DEFINE p == PrimaryOf(hs, ms)
           k == hs[p].width
           d == ms[Pair(hs, ms, p)].width
<1>1. k \in Nat \ {0} /\ d \in Nat \ {0}
  BY PrimaryIs, MonitorOf
<1>2. Scaled(hs, ms, d) = Rounded(d * k, d)
  BY DEF Scaled
<1> HIDE DEF k, d
<1>3. Rounded(k * d, d) = k /\ d * k = k * d
  BY <1>1, RoundedExact
<1> QED
  BY <1>2, <1>3 DEF k, d

\* Where a display is placed.
LEMMA PlaceIs ==
  ASSUME NEW hs \in Topology, NEW ms \in Layout, Fits(hs, ms), NEW h \in Paired(hs, ms)
  PROVE  LET m == ms[Pair(hs, ms, h)]
             r == Place(hs, ms, h)
             across == Scaled(hs, ms, m.width)
             down == Scaled(hs, ms, m.height)
         IN  /\ r \in Rects /\ r # NoRect
             /\ r.x = Scaled(hs, ms, m.x) /\ r.y = Scaled(hs, ms, m.y)
             /\ r.width = IF across >= 1 THEN across ELSE 1
             /\ h # PrimaryOf(hs, ms) => r.height = IF down >= 1 THEN down ELSE 1
             /\ h = PrimaryOf(hs, ms) => r.width = hs[h].width /\ r.height = hs[h].height
<1> DEFINE m == ms[Pair(hs, ms, h)]
           r == Place(hs, ms, h)
           across == Scaled(hs, ms, m.width)
           down == Scaled(hs, ms, m.height)
           x == Scaled(hs, ms, m.x)
           y == Scaled(hs, ms, m.y)
           size == Size(hs, ms, h)
           p == PrimaryOf(hs, ms)
<1>1. /\ m.x \in Int /\ m.y \in Int /\ m.width \in Int /\ m.height \in Int
      /\ hs[h].width \in Nat \ {0} /\ hs[h].height \in Nat \ {0}
  BY MonitorOf
<1>2. x \in Int /\ y \in Int /\ across \in Int /\ down \in Int
  BY <1>1, ScaledIs
<1>3. r = [x |-> x, y |-> y, width |-> size.width, height |-> size.height]
  BY DEF Place
<1>4. h = p => size.width = hs[h].width /\ size.height = hs[h].height /\ across = hs[h].width
  BY PrimaryExact DEF Size
<1>5. h # p => size.width = Max({1, across}) /\ size.height = Max({1, down})
  BY DEF Size
<1> HIDE DEF x, y, across, down, size, p
<1>6. /\ Max({1, across}) = IF across >= 1 THEN across ELSE 1
      /\ Max({1, down}) = IF down >= 1 THEN down ELSE 1
  BY <1>2, OneAtLeast
<1>7. size.width \in Nat \ {0} /\ size.height \in Nat \ {0}
  BY <1>1, <1>2, <1>4, <1>5, <1>6
<1>8. r \in Rects /\ r # NoRect
  BY <1>2, <1>3, <1>7, GeometryAssumption DEF Rects
<1>9. size.width = IF across >= 1 THEN across ELSE 1
  BY <1>1, <1>4, <1>5, <1>6
<1> HIDE DEF r
<1> QED
  BY <1>3, <1>4, <1>5, <1>6, <1>8, <1>9 DEF r, x, y, across, down, p

-----------------------------------------------------------------------------
(* Displays that touch *)

LEMMA DistanceIs ==
  ASSUME NEW a \in Int, NEW b \in Int, NEW c \in Int
  PROVE  Distance(a, b) \in Int /\ (Distance(a, b) <= c <=> a - b <= c /\ b - a <= c)
  BY DEF Distance

\* Of three products with d, two that add up to nearly the third.
LEMMA Within ==
  ASSUME NEW s \in Int, NEW d \in Nat \ {0}, 2 * (s * d) <= 3 * d
  PROVE  s <= 1
<1>1. s >= 2 => s * d >= 2 * d
  BY Larger
<1> QED
  BY <1>1

\* A position A, a length B and the position C of the end, each k / d of the
\* layout's a, b and a + b: lengths rounded to nothing are 1.
LEMMA Touches ==
  ASSUME NEW a \in Int, NEW b \in Nat \ {0}, NEW k \in Nat \ {0}, NEW d \in Nat \ {0},
         NEW A \in Int, NEW B \in Int, NEW C \in Int,
         2 * (a * k) - d <= 2 * (A * d), 2 * (A * d) <= 2 * (a * k) + d,
         2 * (b * k) - d <= 2 * (B * d), 2 * (B * d) <= 2 * (b * k) + d,
         2 * ((a + b) * k) - d <= 2 * (C * d), 2 * (C * d) <= 2 * ((a + b) * k) + d
  PROVE  LET e == A + IF B >= 1 THEN B ELSE 1
         IN  e - C <= 1 /\ C - e <= 1
<1>1. /\ a * k \in Int /\ b * k \in Int /\ (a + b) * k = a * k + b * k /\ b * k >= 1
      /\ A * d \in Int /\ B * d \in Int /\ C * d \in Int
  <2>1. a * k \in Int /\ b * k \in Int /\ A * d \in Int /\ B * d \in Int /\ C * d \in Int
    OBVIOUS
  <2>2. (a + b) * k = a * k + b * k
    OBVIOUS
  <2>3. b * k >= 1 * k
    BY Larger
  <2> QED
    BY <2>1, <2>2, <2>3
<1>2. A + B - C <= 1
  <2>1. (A + B - C) * d = A * d + B * d - C * d
    OBVIOUS
  <2>2. 2 * ((A + B - C) * d) <= 3 * d
    BY <1>1, <2>1
  <2> QED
    BY <2>2, Within
<1>3. C - A - B <= 1
  <2>1. (C - A - B) * d = C * d - A * d - B * d
    OBVIOUS
  <2>2. 2 * ((C - A - B) * d) <= 3 * d
    BY <1>1, <2>1
  <2> QED
    BY <2>2, Within
<1>4. A - C <= 0
  <2>1. (A - C + 1) * d = A * d - C * d + d
    OBVIOUS
  <2>2. (A - C) * d = A * d - C * d
    OBVIOUS
  <2>3. A - C >= 1 => (A - C) * d >= 1 * d
    BY Larger
  <2>4. 2 * ((A - C) * d) < 2 * d
    BY <1>1, <2>2
  <2> QED
    BY <2>3, <2>4
<1>5. B >= 0
  <2>1. B <= -1 => B * d <= (-1) * d
    BY Larger
  <2> QED
    BY <1>1, <2>1
<1> QED
  BY <1>2, <1>3, <1>4, <1>5

\* The primary's own height H, where its monitor has its aspect but for 2 %.
LEMMA TouchesBelow ==
  ASSUME NEW a \in Int, NEW b \in Nat \ {0}, NEW k \in Nat \ {0}, NEW d \in Nat \ {0},
         NEW A \in Int, NEW H \in Nat \ {0}, NEW C \in Int,
         2 * (a * k) - d <= 2 * (A * d), 2 * (A * d) <= 2 * (a * k) + d,
         2 * ((a + b) * k) - d <= 2 * (C * d), 2 * (C * d) <= 2 * ((a + b) * k) + d,
         50 * (k * b - H * d) <= H * d, 50 * (H * d - k * b) <= H * d
  PROVE  50 * (A + H - C) <= 50 + H /\ 50 * (C - (A + H)) <= 50 + H
<1>1. /\ a * k \in Int /\ b * k \in Int /\ k * b = b * k /\ (a + b) * k = a * k + b * k
      /\ A * d \in Int /\ H * d \in Int /\ C * d \in Int
  OBVIOUS
<1> DEFINE s == A + H - C
<1>2. s \in Int /\ s * d = A * d + H * d - C * d
  OBVIOUS
<1>3. /\ (50 * s) * d = 50 * (s * d) /\ (50 + H) * d = 50 * d + H * d
      /\ (-50 * s) * d = -50 * (s * d)
  BY <1>2
<1> HIDE DEF s
<1>4. (50 * s) * d <= (50 + H) * d
  BY <1>1, <1>2, <1>3
<1>5. (-50 * s) * d <= (50 + H) * d
  BY <1>1, <1>2, <1>3
<1>6. 50 * s <= 50 + H /\ -50 * s <= 50 + H
  <2>1. 50 * s \in Int /\ -50 * s \in Int /\ 50 + H \in Int
    BY <1>2
  <2> HIDE DEF s
  <2> QED
    BY <1>4, <1>5, <2>1, Larger
<1> QED
  BY <1>2, <1>6 DEF s

\* Displays that touch in the layout touch where they are placed.
LEMMA Seams ==
  ASSUME NEW hs \in Topology, NEW ms \in Layout, Fits(hs, ms),
         NEW g \in Paired(hs, ms), NEW h \in Paired(hs, ms)
  PROVE  LET m == ms[Pair(hs, ms, g)]
             n == ms[Pair(hs, ms, h)]
             r == Place(hs, ms, g)
             s == Place(hs, ms, h)
         IN  /\ Right(m) = n.x => Distance(Right(r), s.x) <= 1
             /\ Bottom(m) = n.y =>
                  50 * Distance(Bottom(r), s.y) <=
                    50 + IF g = PrimaryOf(hs, ms) THEN hs[g].height ELSE 0
<1> DEFINE p == PrimaryOf(hs, ms)
           k == hs[p].width
           d == ms[Pair(hs, ms, p)].width
           m == ms[Pair(hs, ms, g)]
           n == ms[Pair(hs, ms, h)]
           r == Place(hs, ms, g)
           s == Place(hs, ms, h)
           Z(v) == Scaled(hs, ms, v)
           H == hs[g].height
<1> DEFINE Near(v) == /\ k \in Nat \ {0} /\ d \in Nat \ {0} /\ Z(v) \in Int
                      /\ 2 * (v * k) - d <= 2 * (Z(v) * d)
                      /\ 2 * (Z(v) * d) <= 2 * (v * k) + d
<1>1. \A v \in Int : Near(v)
  BY ScaledIs
<1>2. /\ m.x \in Int /\ m.y \in Int /\ m.width \in Nat \ {0} /\ m.height \in Nat \ {0}
      /\ n.x \in Int /\ n.y \in Int /\ H \in Nat \ {0} /\ ~Rotated(hs[g], m)
  BY MonitorOf
<1>3. /\ r.x = Z(m.x) /\ r.y = Z(m.y) /\ s.x = Z(n.x) /\ s.y = Z(n.y)
      /\ r.width = IF Z(m.width) >= 1 THEN Z(m.width) ELSE 1
      /\ g # p => r.height = IF Z(m.height) >= 1 THEN Z(m.height) ELSE 1
      /\ g = p => r.height = H
  BY PlaceIs
<1>4. g = p => /\ 50 * (k * m.height - H * d) <= H * d
               /\ 50 * (H * d - k * m.height) <= H * d
  <2> SUFFICES ASSUME g = p
               PROVE  /\ 50 * (k * m.height - H * d) <= H * d
                      /\ 50 * (H * d - k * m.height) <= H * d
    OBVIOUS
  <2>1. ~(50 * Distance(k * m.height, H * d) > H * d)
    BY <1>2 DEF Rotated
  <2>2. Near(0)
    BY <1>1
  <2> HIDE DEF k, d, m, H
  <2>3. k * m.height \in Int /\ H * d \in Int
    BY <1>2, <2>2
  <2> QED
    BY <2>1, <2>3 DEF Distance
<1>5. /\ Right(m) = m.x + m.width /\ Bottom(m) = m.y + m.height
      /\ Right(r) = r.x + r.width /\ Bottom(r) = r.y + r.height
  BY DEF Right, Bottom
<1>8. /\ Near(m.x) /\ Near(m.width) /\ Near(m.x + m.width)
      /\ Near(m.y) /\ Near(m.height) /\ Near(m.y + m.height)
  <2> HIDE DEF Near
  <2> QED
    BY <1>1, <1>2
<1> HIDE DEF p, k, d, m, n, r, s, Z, H
<1>6. ASSUME Right(m) = n.x PROVE Distance(Right(r), s.x) <= 1
  <2> DEFINE A == Z(m.x)
             B == Z(m.width)
             C == Z(m.x + m.width)
             e == A + IF B >= 1 THEN B ELSE 1
  <2>1. A \in Int /\ B \in Int /\ C \in Int
    BY <1>8
  <2>2. e - C <= 1 /\ C - e <= 1
    <3>1. /\ k \in Nat \ {0} /\ d \in Nat \ {0}
          /\ 2 * (m.x * k) - d <= 2 * (A * d) /\ 2 * (A * d) <= 2 * (m.x * k) + d
      BY <1>8
    <3>2. 2 * (m.width * k) - d <= 2 * (B * d) /\ 2 * (B * d) <= 2 * (m.width * k) + d
      BY <1>8
    <3>3. /\ 2 * ((m.x + m.width) * k) - d <= 2 * (C * d)
          /\ 2 * (C * d) <= 2 * ((m.x + m.width) * k) + d
      BY <1>8
    <3> HIDE DEF A, B, C
    <3> QED
      BY <1>2, <2>1, <3>1, <3>2, <3>3, Touches
  <2>3. Right(r) = e /\ s.x = C
    BY <1>3, <1>5, <1>6
  <2> HIDE DEF A, B, C
  <2>4. e \in Int
    BY <2>1
  <2> HIDE DEF e
  <2> QED
    BY <2>1, <2>2, <2>3, <2>4, DistanceIs
<1>7. ASSUME Bottom(m) = n.y
      PROVE  50 * Distance(Bottom(r), s.y) <= 50 + IF g = p THEN H ELSE 0
  <2> DEFINE A == Z(m.y)
             B == Z(m.height)
             C == Z(m.y + m.height)
             e == A + IF B >= 1 THEN B ELSE 1
  <2>1. A \in Int /\ B \in Int /\ C \in Int
    BY <1>8
  <2>2. /\ k \in Nat \ {0} /\ d \in Nat \ {0}
        /\ 2 * (m.y * k) - d <= 2 * (A * d) /\ 2 * (A * d) <= 2 * (m.y * k) + d
    BY <1>8
  <2>3. 2 * (m.height * k) - d <= 2 * (B * d) /\ 2 * (B * d) <= 2 * (m.height * k) + d
    BY <1>8
  <2>4. /\ 2 * ((m.y + m.height) * k) - d <= 2 * (C * d)
        /\ 2 * (C * d) <= 2 * ((m.y + m.height) * k) + d
    BY <1>8
  <2>5. s.y = C /\ r.y = A
    BY <1>3, <1>5, <1>7
  <2>6. CASE g # p
    <3>1. e - C <= 1 /\ C - e <= 1
      <4> HIDE DEF A, B, C
      <4> QED
        BY <1>2, <2>1, <2>2, <2>3, <2>4, Touches
    <3>2. Bottom(r) = e
      BY <1>3, <1>5, <2>6
    <3> HIDE DEF A, B, C
    <3>3. e \in Int
      BY <2>1
    <3> HIDE DEF e
    <3>4. Distance(e, C) \in Int /\ Distance(e, C) <= 1
      BY <2>1, <3>1, <3>3, DistanceIs
    <3> QED
      BY <2>5, <2>6, <3>2, <3>4
  <2>7. CASE g = p
    <3> HIDE DEF A, B, C
    <3>1. 50 * (A + H - C) <= 50 + H /\ 50 * (C - (A + H)) <= 50 + H
      BY <1>2, <1>4, <2>1, <2>2, <2>4, <2>7, TouchesBelow
    <3>2. Bottom(r) = A + H
      BY <1>3, <1>5, <2>5, <2>7
    <3> QED
      BY <1>2, <2>1, <2>5, <2>7, <3>1, <3>2 DEF Distance
  <2> QED
    BY <2>6, <2>7
<1> QED
  BY <1>6, <1>7 DEF m, n, r, s, p, H

-----------------------------------------------------------------------------
(* Pieces of a scanout, and the cursor *)

\* In one direction: the pixels first .. past - 1 of a scanout cover lo .. hi - 1.
LEMMA Piece ==
  ASSUME NEW lo \in Int, NEW hi \in Int, NEW at \in Int,
         NEW size \in Nat \ {0}, NEW mode \in Nat \ {0},
         at <= lo, lo < hi, hi <= at + size
  PROVE  LET first == ((lo - at) * mode) \div size
             past == Min({mode, Up((hi - at) * mode, size)})
         IN  /\ first \in Int /\ past \in Int /\ first < past
             /\ 0 <= first /\ past <= mode
             /\ first * size <= (lo - at) * mode /\ (lo - at) * mode < (first + 1) * size
             /\ (past - 1) * size < (hi - at) * mode /\ (hi - at) * mode <= past * size
<1> DEFINE a == (lo - at) * mode
           b == (hi - at) * mode
           first == a \div size
           up == Up(b, size)
           past == Min({mode, up})
<1>1. a \in Int /\ b \in Int /\ 0 <= a /\ a < b /\ b <= size * mode
  <2>1. a \in Int /\ b \in Int
    OBVIOUS
  <2>2. 0 * mode <= (lo - at) * mode
    BY Larger
  <2>3. (lo - at) * mode < (hi - at) * mode
    BY Larger
  <2>4. (hi - at) * mode <= size * mode
    BY Larger
  <2> QED
    BY <2>1, <2>2, <2>3, <2>4
<1> HIDE DEF a, b
<1>2. first \in Int /\ first * size <= a /\ a < first * size + size
  BY <1>1, Div
<1>3. up \in Int /\ b <= up * size /\ (up - 1) * size < b
  BY <1>1, UpIs
<1> HIDE DEF first, up
<1>4. up <= mode
  <2>1. (up - 1) * size < mode * size
    BY <1>1, <1>3
  <2>2. up - 1 < mode
    BY <1>3, <2>1, Larger
  <2> QED
    BY <1>3, <2>2
<1>5. past = up
  <2>1. Min({mode, up}) = IF mode <= up THEN mode ELSE up
    <3>1. mode \in Int /\ up \in Int
      BY <1>3
    <3> QED
      BY <3>1, OfTwo
  <2> QED
    BY <1>3, <1>4, <2>1
<1>6. 0 <= first
  <2>1. first <= -1 => first * size <= (-1) * size
    BY <1>2, Larger
  <2> QED
    BY <1>1, <1>2, <2>1
<1>7. first < up
  <2>1. first * size < up * size
    BY <1>1, <1>2, <1>3
  <2> QED
    BY <1>2, <1>3, <2>1, Larger
<1>8. (first + 1) * size = first * size + size
  BY <1>2
<1> HIDE DEF past
<1>9. /\ first \in Int /\ past \in Int /\ first < past /\ 0 <= first /\ past <= mode
      /\ first * size <= a /\ a < (first + 1) * size
      /\ (past - 1) * size < b /\ b <= past * size
  BY <1>2, <1>3, <1>4, <1>5, <1>6, <1>7, <1>8
<1> QED
  BY <1>9 DEF first, past, up, a, b

\* What Covers says in NoGap.
Covering(lo, hi, first, past, at, size, mode) ==
  /\ 0 <= first /\ past <= mode
  /\ first * size <= (lo - at) * mode /\ (lo - at) * mode < (first + 1) * size
  /\ (past - 1) * size < (hi - at) * mode /\ (hi - at) * mode <= past * size

\* A part of a display's place, in its scanout.
LEMMA NativeIs ==
  ASSUME NEW h, placed[h] \in Rects,
         heads[h].width \in Nat \ {0}, heads[h].height \in Nat \ {0},
         NEW part \in Rects, placed[h].x <= part.x, placed[h].y <= part.y,
         Right(part) <= Right(placed[h]), Bottom(part) <= Bottom(placed[h])
  PROVE  LET d == placed[h]
             n == Native(h, part)
         IN  /\ n \in Rects
             /\ Covering(part.x, Right(part), n.x, Right(n), d.x, d.width, heads[h].width)
             /\ Covering(part.y, Bottom(part), n.y, Bottom(n), d.y, d.height, heads[h].height)
<1> DEFINE d == placed[h]
           mx == heads[h].width
           my == heads[h].height
           x0 == ((part.x - d.x) * mx) \div d.width
           y0 == ((part.y - d.y) * my) \div d.height
           x1 == Min({mx, Up((Right(part) - d.x) * mx, d.width)})
           y1 == Min({my, Up((Bottom(part) - d.y) * my, d.height)})
<1>1. /\ part.x \in Int /\ Right(part) \in Int /\ part.x < Right(part)
      /\ part.y \in Int /\ Bottom(part) \in Int /\ part.y < Bottom(part)
      /\ d.x \in Int /\ d.y \in Int /\ d.width \in Nat \ {0} /\ d.height \in Nat \ {0}
      /\ Right(d) = d.x + d.width /\ Bottom(d) = d.y + d.height
  BY DEF Rects, Right, Bottom
<1>2. Native(h, part) = Area(x0, y0, x1, y1)
  BY DEF Native
<1>3. /\ x0 \in Int /\ x1 \in Int /\ x0 < x1
      /\ Covering(part.x, Right(part), x0, x1, d.x, d.width, mx)
  <2> DEFINE lo == part.x hi == Right(part) at == d.x size == d.width
  <2>1. /\ lo \in Int /\ hi \in Int /\ at \in Int /\ size \in Nat \ {0} /\ mx \in Nat \ {0}
        /\ at <= lo /\ lo < hi /\ hi <= at + size
    BY <1>1
  <2> HIDE DEF lo, hi, at, size, mx
  <2> QED
    BY <2>1, Piece DEF Covering, lo, hi, at, size
<1>4. /\ y0 \in Int /\ y1 \in Int /\ y0 < y1
      /\ Covering(part.y, Bottom(part), y0, y1, d.y, d.height, my)
  <2> DEFINE lo == part.y hi == Bottom(part) at == d.y size == d.height
  <2>1. /\ lo \in Int /\ hi \in Int /\ at \in Int /\ size \in Nat \ {0} /\ my \in Nat \ {0}
        /\ at <= lo /\ lo < hi /\ hi <= at + size
    BY <1>1
  <2> HIDE DEF lo, hi, at, size, my
  <2> QED
    BY <2>1, Piece DEF Covering, lo, hi, at, size
<1> HIDE DEF x0, y0, x1, y1
<1>5. Native(h, part) = [x |-> x0, y |-> y0, width |-> x1 - x0, height |-> y1 - y0]
  BY <1>2, <1>3, <1>4 DEF Area
<1>6. /\ Native(h, part) \in Rects
      /\ Native(h, part).x = x0 /\ Right(Native(h, part)) = x1
      /\ Native(h, part).y = y0 /\ Bottom(Native(h, part)) = y1
  BY <1>3, <1>4, <1>5 DEF Rects, Right, Bottom
<1> QED
  BY <1>3, <1>4, <1>6

\* All of a display that is 1:1 is all of its scanout.
LEMMA OneToOne ==
  ASSUME NEW lo \in Int, NEW size \in Nat \ {0}, NEW first \in Int, NEW past \in Int,
         Covering(lo, lo + size, first, past, lo, size, size)
  PROVE  first = 0 /\ past = size
<1>1. /\ 0 <= first /\ past <= size /\ first * size <= 0 * size
      /\ size * size <= past * size
  BY DEF Covering
<1>2. first <= 0
  BY <1>1, Larger
<1>3. size <= past
  BY <1>1, Larger
<1> QED
  BY <1>1, <1>2, <1>3

\* The cursor's position and its hot spot.
LEMMA CursorIs ==
  ASSUME NEW h, placed[h].width \in Int, heads[h].width \in Nat \ {0},
         NEW a \in Int, NEW b \in Int
  PROVE  Distance((CursorX(h, a) + CursorX(h, b)) * heads[h].width,
                  (a + b) * placed[h].width) <= heads[h].width
<1> DEFINE w == placed[h].width
           m == heads[h].width
           A == CursorX(h, a)
           B == CursorX(h, b)
<1>1. A = Rounded(a * w, m) /\ B = Rounded(b * w, m) /\ w \in Int /\ m \in Nat \ {0}
  BY DEF CursorX
<1> HIDE DEF w, m, A, B
<1>2. a * w \in Int /\ b * w \in Int /\ (a + b) * w = a * w + b * w
  BY <1>1
<1>3. A \in Int /\ 2 * (a * w) - m <= 2 * (A * m) /\ 2 * (A * m) <= 2 * (a * w) + m
  BY <1>1, <1>2, RoundedIs
<1>4. B \in Int /\ 2 * (b * w) - m <= 2 * (B * m) /\ 2 * (B * m) <= 2 * (b * w) + m
  BY <1>1, <1>2, RoundedIs
<1>5. (A + B) * m = A * m + B * m /\ A * m \in Int /\ B * m \in Int
  BY <1>1, <1>3, <1>4
<1>6. Distance((A + B) * m, (a + b) * w) <= m
  BY <1>1, <1>2, <1>3, <1>4, <1>5 DEF Distance
<1> QED
  BY <1>6 DEF w, m, A, B

-----------------------------------------------------------------------------
(* Smaller pictures *)

\* A product is no smaller for a factor that is no smaller.
LEMMA Times ==
  ASSUME NEW a \in Nat, NEW b \in Nat, NEW c \in Nat, a <= b
  PROVE  a * c <= b * c /\ c * a <= c * b /\ a * c \in Nat /\ c * a = a * c
  OBVIOUS

\* The first stage, squares of f pixels: the long side and the short one.
LEMMA Squares ==
  ASSUME NEW long \in Nat \ {0}, NEW short \in Nat \ {0}, NEW most \in Nat \ {0},
         short <= long, most < long
  PROVE  LET f == long \div most
             cl == long \div f
             q == short \div f
             cs == IF q >= 1 THEN q ELSE 1
         IN  /\ f \in Nat \ {0} /\ f * most <= long
             /\ cl \in Nat \ {0} /\ most <= cl /\ cl <= long
             /\ cl * f <= long /\ long < cl * f + f
             /\ q \in Int
             /\ cs \in Nat \ {0} /\ cs <= cl /\ cs <= short /\ (cs = 1 \/ cs * f <= short)
<1> DEFINE f == long \div most
           cl == long \div f
           q == short \div f
           cs == IF q >= 1 THEN q ELSE 1
<1>1. f \in Int /\ f * most <= long /\ long < f * most + most
  BY Div
<1> HIDE DEF f
<1>2. f >= 1
  <2>1. f <= 0 => f * most <= 0 * most
    BY <1>1, Larger
  <2> QED
    BY <1>1, <2>1
<1>3. f \in Nat \ {0}
  BY <1>1, <1>2
<1>4. cl \in Int /\ cl * f <= long /\ long < cl * f + f
  BY <1>3, Div
<1>5. q \in Int /\ q * f <= short /\ short < q * f + f
  BY <1>3, Div
<1> HIDE DEF cl, q
<1>6. most <= cl
  <2>1. most * f = f * most /\ (cl + 1) * f = cl * f + f
    BY <1>3, <1>4
  <2>2. most * f < (cl + 1) * f
    BY <1>1, <1>4, <2>1
  <2>3. most < cl + 1
    BY <1>3, <1>4, <2>2, Larger
  <2> QED
    BY <1>4, <2>3
<1>7. q <= cl
  <2>1. (cl + 1) * f = cl * f + f
    BY <1>3, <1>4
  <2>2. q * f < (cl + 1) * f
    BY <1>3, <1>4, <1>5, <2>1
  <2>3. cl + 1 \in Int
    BY <1>4
  <2>4. q < cl + 1
    BY <1>3, <1>5, <2>2, <2>3, Larger
  <2> QED
    BY <1>4, <1>5, <2>4
<1>8. cl <= long
  <2>1. cl \in Nat /\ 1 \in Nat /\ f \in Nat /\ 1 <= f
    BY <1>3, <1>4, <1>6
  <2>2. cl * 1 <= cl * f
    BY <2>1, Times
  <2> QED
    BY <1>3, <1>4, <2>2
<1>9. q >= 1 => q <= short
  <2> SUFFICES ASSUME q >= 1 PROVE q <= short
    OBVIOUS
  <2>1. q \in Nat /\ 1 \in Nat /\ f \in Nat /\ 1 <= f
    BY <1>3, <1>5
  <2>2. q * 1 <= q * f
    BY <2>1, Times
  <2> QED
    BY <1>3, <1>5, <2>2
<1> HIDE DEF cs
<1>10. cs = IF q >= 1 THEN q ELSE 1
  BY DEF cs
<1>11. /\ cs \in Nat \ {0} /\ cs <= cl /\ cs <= short /\ (cs = 1 \/ cs * f <= short)
       /\ cl \in Nat \ {0}
  BY <1>4, <1>5, <1>6, <1>7, <1>9, <1>10
<1> QED
  BY <1>1, <1>3, <1>4, <1>5, <1>6, <1>8, <1>11 DEF f, cl, q, cs

\* The second stage, where the first has left too much.
LEMMA Rest2 ==
  ASSUME NEW cl \in Nat \ {0}, NEW cs \in Nat \ {0}, NEW most \in Nat \ {0},
         cs <= cl, most < cl
  PROVE  LET q == Rounded(cs * most, cl)
             ds == IF q >= 1 THEN q ELSE 1
         IN  /\ Rounded(cl * most, cl) = most /\ q \in Int
             /\ ds \in Nat \ {0} /\ ds <= most /\ ds <= cs
             /\ ds = 1 \/ 2 * (ds * cl) <= 2 * (cs * most) + cl
<1> DEFINE q == Rounded(cs * most, cl)
<1>1. Rounded(cl * most, cl) = most
  <2>1. Rounded(most * cl, cl) = most /\ cl * most = most * cl
    BY RoundedExact
  <2> QED
    BY <2>1
<1>2. q \in Int /\ 2 * (q * cl) <= 2 * (cs * most) + cl
  <2>1. cs * most \in Int
    OBVIOUS
  <2> QED
    BY <2>1, RoundedIs
<1> HIDE DEF q
<1>3. cs * most <= cl * most /\ cl * most = most * cl
  BY Times
<1>4. q <= most
  <2>1. q >= most + 1 => q * cl >= (most + 1) * cl
    BY <1>2, Larger
  <2>2. (most + 1) * cl = most * cl + cl
    OBVIOUS
  <2> QED
    BY <1>2, <1>3, <2>1, <2>2
<1>5. q <= cs
  <2>1. q >= cs + 1 => q * cl >= (cs + 1) * cl
    BY <1>2, Larger
  <2>2. (cs + 1) * cl = cs * cl + cl
    OBVIOUS
  <2>3. cs * most <= cs * cl
    BY Times
  <2> QED
    BY <1>2, <2>1, <2>2, <2>3
<1> QED
  BY <1>1, <1>2, <1>4, <1>5 DEF q

LEMMA LongestIs ==
  ASSUME NEW w \in Nat \ {0}, NEW h \in Nat \ {0}
  PROVE  Longest(w, h) = (IF w >= h THEN w ELSE h) /\ Longest(h, w) = Longest(w, h)
<1>1. Longest(w, h) = IF w >= h THEN w ELSE h
  BY OfTwo DEF Longest
<1>2. Longest(h, w) = IF h >= w THEN h ELSE w
  BY OfTwo DEF Longest
<1> QED
  BY <1>1, <1>2

\* What downscale_to makes of a long side and a short one: the long side is as
\* asked.  Down, in pixels of the picture as wide as those across, the short one
\* is less than one and a half too many.
LEMMA Stages ==
  ASSUME NEW long \in Nat \ {0}, NEW short \in Nat \ {0}, NEW most \in Nat \ {0},
         short <= long, most < long
  PROVE  LET f == long \div most
             cl == long \div f
             q == short \div f
             cs == IF q >= 1 THEN q ELSE 1
             r == Rounded(cs * most, cl)
             ds == IF r >= 1 THEN r ELSE 1
             s == IF cl <= most THEN cs ELSE ds
         IN  /\ f \in Nat \ {0} /\ q \in Int /\ r \in Int
             /\ cl \in Nat \ {0} /\ cs \in Nat \ {0} /\ cs <= cl /\ most <= cl
             /\ Rounded(cl * most, cl) = most
             /\ s \in Nat \ {0} /\ s <= most /\ s <= short
             /\ 2 * (s * long) < 2 * (most * short) + 3 * long
<1> DEFINE f == long \div most
           cl == long \div f
           q == short \div f
           cs == IF q >= 1 THEN q ELSE 1
           r == Rounded(cs * most, cl)
           ds == IF r >= 1 THEN r ELSE 1
           s == IF cl <= most THEN cs ELSE ds
<1>1. /\ f \in Nat \ {0} /\ f * most <= long
      /\ cl \in Nat \ {0} /\ most <= cl /\ cl <= long
      /\ cl * f <= long /\ long < cl * f + f
      /\ q \in Int
      /\ cs \in Nat \ {0} /\ cs <= cl /\ cs <= short /\ (cs = 1 \/ cs * f <= short)
  BY Squares
<1> HIDE DEF f
<1> HIDE DEF cl, q
<1> HIDE DEF cs
<1>2. ASSUME most < cl
      PROVE  /\ Rounded(cl * most, cl) = most /\ r \in Int
             /\ ds \in Nat \ {0} /\ ds <= most /\ ds <= cs
             /\ ds = 1 \/ 2 * (ds * cl) <= 2 * (cs * most) + cl
  BY <1>1, <1>2, Rest2
<1>3. ASSUME cl = most
      PROVE  Rounded(cl * most, cl) = most /\ r = cs
  BY <1>1, <1>3, RoundedExact
<1> HIDE DEF r
<1> HIDE DEF ds
<1>4. most * short \in Nat \ {0}
  OBVIOUS
<1>8. s = IF cl <= most THEN cs ELSE ds
  OBVIOUS
<1> HIDE DEF s
<1>5. most * long \in Nat /\ cl * f \in Nat /\ cs * f \in Nat /\ f * most \in Nat
  BY <1>1
<1>6. ASSUME cl = most
      PROVE  /\ Rounded(cl * most, cl) = most /\ r \in Int
             /\ s \in Nat \ {0} /\ s <= most /\ s <= short
             /\ 2 * (s * long) < 2 * (most * short) + 3 * long
  <2>1. s = cs
    BY <1>1, <1>6, <1>8
  <2>2. CASE cs = 1
    <3>1. s * long = long
      BY <2>1, <2>2
    <3>2. 2 * (s * long) < 2 * (most * short) + 3 * long
      BY <1>4, <3>1
    <3> QED
      BY <1>1, <1>3, <1>6, <2>1, <3>2
  <2>3. CASE cs * f <= short
    <3>1. cs * long <= cs * (cl * f + f)
      BY <1>1, <1>5, Times
    <3>2. cs * (cl * f + f) = cl * (cs * f) + cs * f
      BY <1>1
    <3>3. cl * (cs * f) <= cl * short
      BY <1>1, <1>5, <2>3, Times
    <3>4. cl * short = most * short /\ cs * long \in Nat /\ cl * (cs * f) \in Nat
      BY <1>1, <1>5, <1>6
    <3>5. cs * long <= most * short + short
      BY <1>4, <1>5, <2>3, <3>1, <3>2, <3>3, <3>4
    <3>6. 2 * (s * long) < 2 * (most * short) + 3 * long
      BY <1>4, <2>1, <3>4, <3>5
    <3> QED
      BY <1>1, <1>3, <1>6, <2>1, <3>6
  <2> QED
    BY <1>1, <2>2, <2>3
<1>7. ASSUME most < cl
      PROVE  /\ Rounded(cl * most, cl) = most /\ r \in Int
             /\ s \in Nat \ {0} /\ s <= most /\ s <= short
             /\ 2 * (s * long) < 2 * (most * short) + 3 * long
  <2>1. s = ds
    BY <1>1, <1>7, <1>8
  <2>2. CASE ds = 1
    <3>1. s * long = long
      BY <2>1, <2>2
    <3>2. 2 * (s * long) < 2 * (most * short) + 3 * long
      BY <1>4, <3>1
    <3> QED
      BY <1>1, <1>2, <1>7, <2>1, <3>2
  <2>3. CASE 2 * (ds * cl) <= 2 * (cs * most) + cl
    <3>1. ds * long \in Nat /\ cs * most \in Nat /\ ds * cl \in Nat /\ cl * long \in Nat
      BY <1>1, <1>2, <1>7
    <3>2. CASE cs = 1
      <4>1. ds = 1
        BY <1>2, <1>7, <3>2
      <4> QED
        BY <2>2, <4>1
    <3>3. CASE cs * f <= short
      <4> SUFFICES ASSUME ~(2 * (s * long) < 2 * (most * short) + 3 * long) PROVE FALSE
        BY <1>1, <1>2, <1>7, <2>1
      <4>0. 2 * (ds * long) >= 2 * (most * short) + 3 * long
        BY <1>4, <2>1, <3>1
      <4>1. (2 * (most * short) + 3 * long) * cl <= (2 * (ds * long)) * cl
        BY <1>1, <1>4, <3>1, <4>0, Larger
      <4>2. (2 * (ds * long)) * cl = (2 * (ds * cl)) * long
        BY <1>1, <1>2, <1>7
      <4>3. (2 * (ds * cl)) * long <= (2 * (cs * most) + cl) * long
        BY <1>1, <2>3, <3>1, Larger
      <4>4. (2 * (cs * most) + cl) * long = 2 * (most * (cs * long)) + cl * long
        BY <1>1
      <4>5. (2 * (most * short) + 3 * long) * cl = 2 * (most * (short * cl)) + 3 * (cl * long)
        BY <1>1
      <4>6. cs * long <= cs * (cl * f + f)
        BY <1>1, <1>5, Times
      <4>7. cs * (cl * f + f) = cl * (cs * f) + cs * f
        BY <1>1
      <4>8. cl * (cs * f) <= cl * short
        BY <1>1, <1>5, <3>3, Times
      <4>9. cl * short = short * cl /\ cs * long \in Nat /\ cl * (cs * f) \in Nat
            /\ short * cl \in Nat
        BY <1>1, <1>5
      <4>10. cs * long <= short * cl + short
        BY <1>5, <3>3, <4>6, <4>7, <4>8, <4>9
      <4>11. most * (cs * long) <= most * (short * cl + short)
        BY <4>9, <4>10, Times
      <4>12. most * (short * cl + short) = most * (short * cl) + most * short
        BY <4>9
      <4>13. most * short < cl * long
        <5>1. most * short <= most * long
          BY Times
        <5>2. most * long < cl * long
          BY <1>1, <1>7, Larger
        <5> QED
          BY <1>4, <1>5, <3>1, <5>1, <5>2
      <4>14. most * (cs * long) \in Nat /\ most * (short * cl) \in Nat /\ cl * long \in Nat \ {0}
        BY <1>1, <4>9
      <4>15. 2 * (most * (short * cl)) + 3 * (cl * long) <= 2 * (most * (cs * long)) + cl * long
        <5>1. (2 * (ds * cl)) * long \in Nat
          BY <3>1
        <5> QED
          BY <4>1, <4>2, <4>3, <4>4, <4>5, <4>14, <5>1
      <4> QED
        BY <4>11, <4>12, <4>13, <4>14, <4>15, <1>4
    <3> QED
      BY <1>1, <3>2, <3>3
  <2> QED
    BY <1>2, <1>7, <2>2, <2>3
<1>9. /\ Rounded(cl * most, cl) = most /\ r \in Int
      /\ s \in Nat \ {0} /\ s <= most /\ s <= short
      /\ 2 * (s * long) < 2 * (most * short) + 3 * long
  BY <1>1, <1>6, <1>7
<1> QED
  BY <1>1, <1>9 DEF f, cl, q, cs, r, ds, s

LEMMA DownscaledIs ==
  ASSUME NEW w \in Nat \ {0}, NEW h \in Nat \ {0}, NEW side \in Nat
  PROVE  LET p == Downscaled(w, h, side)
             most == Max({side, 16})
         IN  /\ most \in Nat \ {0} /\ p[1] \in Nat \ {0} /\ p[2] \in Nat \ {0} /\ p[1] <= w
             /\ Small(w, h, side) => p[1] = w /\ p[2] = h
             /\ ~Small(w, h, side) => /\ most < Longest(w, h) /\ side # 0
                                      /\ Longest(p[1], p[2]) = most
             /\ ~Small(w, h, side) /\ h <= w =>
                  p[1] = most /\ 2 * (p[2] * w) < 2 * (most * h) + 3 * w
<1> DEFINE p == Downscaled(w, h, side)
           most == Max({side, 16})
           f == Longest(w, h) \div most
           cw == Max({1, w \div f})
           ch == Max({1, h \div f})
           all == Longest(cw, ch)
<1>1. most \in Nat \ {0}
  <2>1. side \in Int /\ 16 \in Int
    OBVIOUS
  <2>2. most >= 16 /\ most \in Int
    BY <2>1, OfTwo
  <2> QED
    BY <2>2
<1>2. Small(w, h, side) => p = <<w, h>>
  BY DEF Downscaled
<1>3. ~Small(w, h, side) => most < Longest(w, h) /\ side # 0
  <2> SUFFICES ASSUME ~Small(w, h, side) PROVE most < Longest(w, h) /\ side # 0
    OBVIOUS
  <2>1. side # 0 /\ ~(Longest(w, h) <= most)
    BY DEF Small
  <2>2. Longest(w, h) \in Nat
    BY LongestIs
  <2> HIDE DEF most
  <2> QED
    BY <1>1, <2>1, <2>2
<1>4. ~Small(w, h, side) =>
        p = IF all <= most THEN <<cw, ch>>
            ELSE <<Max({1, Rounded(cw * most, all)}), Max({1, Rounded(ch * most, all)})>>
  BY DEF Downscaled, Factor
<1> HIDE DEF p
<1>5. ASSUME ~Small(w, h, side), NEW long \in Nat \ {0}, NEW short \in Nat \ {0},
             short <= long, Longest(w, h) = long
      PROVE  \E cl \in Nat \ {0}, cs \in Nat \ {0}, s \in Nat \ {0} :
               /\ Max({1, long \div f}) = cl /\ Max({1, short \div f}) = cs
               /\ Longest(cl, cs) = cl /\ Longest(cs, cl) = cl
               /\ s <= short /\ Longest(most, s) = most /\ Longest(s, most) = most
               /\ cl <= most => cl = most /\ cs = s
               /\ ~(cl <= most) => /\ Max({1, Rounded(cl * most, cl)}) = most
                                   /\ Max({1, Rounded(cs * most, cl)}) = s
               /\ 2 * (s * long) < 2 * (most * short) + 3 * long
  <2> DEFINE g == long \div most
             cl == long \div g
             q == short \div g
             cs == IF q >= 1 THEN q ELSE 1
             r == Rounded(cs * most, cl)
             ds == IF r >= 1 THEN r ELSE 1
             s == IF cl <= most THEN cs ELSE ds
  <2> HIDE DEF most
  <2>1. most < long
    BY <1>3, <1>5
  <2>2. /\ g \in Nat \ {0} /\ q \in Int /\ r \in Int
        /\ cl \in Nat \ {0} /\ cs \in Nat \ {0} /\ cs <= cl /\ most <= cl
        /\ Rounded(cl * most, cl) = most
        /\ s \in Nat \ {0} /\ s <= most /\ s <= short
        /\ 2 * (s * long) < 2 * (most * short) + 3 * long
    <3>1. most \in Nat \ {0} /\ short <= long /\ most < long
      BY <1>1, <1>5, <2>1
    <3> QED
      BY ONLY <3>1, long \in Nat \ {0}, short \in Nat \ {0}, Stages DEF g, cl, q, cs, r, ds, s
  <2>3. f = g
    BY <1>5
  <2> HIDE DEF f, g
  <2> HIDE DEF q, r
  <2>4. cl = long \div f /\ q = short \div f
    BY <2>3 DEF q
  <2>5. r = Rounded(cs * most, cl)
    BY DEF r
  <2> HIDE DEF cl
  <2>6. Max({1, cl}) = cl
    BY <2>2, OneAtLeast
  <2>7. Max({1, q}) = cs
    BY <2>2, OneAtLeast
  <2>8. Max({1, most}) = most
    BY <1>1, OneAtLeast
  <2>9. Max({1, r}) = ds
    BY <2>2, OneAtLeast
  <2> HIDE DEF cs, ds
  <2>10. (cl <= most => s = cs) /\ (~(cl <= most) => s = ds)
    OBVIOUS
  <2> HIDE DEF s
  <2>11. Longest(cl, cs) = cl /\ Longest(cs, cl) = cl
    BY <2>2, LongestIs
  <2>12. Longest(most, s) = most /\ Longest(s, most) = most
    BY <1>1, <2>2, LongestIs
  <2>13. cl <= most => cl = most
    BY <1>1, <2>2
  <2>14. /\ Max({1, long \div f}) = cl /\ Max({1, short \div f}) = cs
         /\ Max({1, Rounded(cl * most, cl)}) = most
         /\ Max({1, Rounded(cs * most, cl)}) = ds
    BY <2>2, <2>4, <2>5, <2>6, <2>7, <2>8, <2>9
  <2>15. /\ Longest(cl, cs) = cl /\ Longest(cs, cl) = cl
         /\ s <= short /\ Longest(most, s) = most /\ Longest(s, most) = most
         /\ cl <= most => cl = most /\ cs = s
         /\ ~(cl <= most) => /\ Max({1, Rounded(cl * most, cl)}) = most
                             /\ Max({1, Rounded(cs * most, cl)}) = s
    BY <2>2, <2>10, <2>11, <2>12, <2>13, <2>14
  <2>16. cl \in Nat \ {0} /\ cs \in Nat \ {0} /\ s \in Nat \ {0}
    BY <2>2
  <2>17. 2 * (s * long) < 2 * (most * short) + 3 * long
    BY <2>2
  <2> QED
    BY <2>14, <2>15, <2>16, <2>17
<1> HIDE DEF most, f
<1>6. CASE Small(w, h, side)
  BY <1>1, <1>2, <1>6 DEF p, most
<1>7. CASE ~Small(w, h, side) /\ h <= w
  <2>1. Longest(w, h) = w
    BY <1>7, LongestIs
  <2>2. PICK cl \in Nat \ {0}, cs \in Nat \ {0}, s \in Nat \ {0} :
          /\ Max({1, w \div f}) = cl /\ Max({1, h \div f}) = cs
          /\ Longest(cl, cs) = cl /\ Longest(cs, cl) = cl
          /\ s <= h /\ Longest(most, s) = most /\ Longest(s, most) = most
          /\ cl <= most => cl = most /\ cs = s
          /\ ~(cl <= most) => /\ Max({1, Rounded(cl * most, cl)}) = most
                              /\ Max({1, Rounded(cs * most, cl)}) = s
          /\ 2 * (s * w) < 2 * (most * h) + 3 * w
    BY <1>5, <1>7, <2>1
  <2>3. cw = cl /\ ch = cs /\ all = cl
    BY <2>2
  <2> HIDE DEF cw, ch, all
  <2>4. p = <<most, s>>
    BY <1>4, <1>7, <2>2, <2>3
  <2>5. most <= w /\ p[1] = most /\ p[2] = s
    BY <1>1, <1>3, <1>7, <2>1, <2>4
  <2>6. 2 * (p[2] * w) < 2 * (most * h) + 3 * w
    BY <2>2, <2>5
  <2> QED
    BY <1>1, <1>3, <1>7, <2>1, <2>2, <2>4, <2>5, <2>6 DEF p, most
<1>8. CASE ~Small(w, h, side) /\ ~(h <= w)
  <2>1. Longest(w, h) = h /\ w <= h
    BY <1>8, LongestIs
  <2>2. PICK cl \in Nat \ {0}, cs \in Nat \ {0}, s \in Nat \ {0} :
          /\ Max({1, h \div f}) = cl /\ Max({1, w \div f}) = cs
          /\ Longest(cl, cs) = cl /\ Longest(cs, cl) = cl
          /\ s <= w /\ Longest(most, s) = most /\ Longest(s, most) = most
          /\ cl <= most => cl = most /\ cs = s
          /\ ~(cl <= most) => /\ Max({1, Rounded(cl * most, cl)}) = most
                              /\ Max({1, Rounded(cs * most, cl)}) = s
          /\ 2 * (s * h) < 2 * (most * w) + 3 * h
    BY <1>5, <1>8, <2>1
  <2>3. cw = cs /\ ch = cl /\ all = cl
    BY <2>2
  <2> HIDE DEF cw, ch, all
  <2>4. p = <<s, most>>
    BY <1>4, <1>8, <2>2, <2>3
  <2>5. p[1] = s /\ p[2] = most
    BY <2>4
  <2> QED
    BY <1>1, <1>3, <1>8, <2>1, <2>2, <2>4, <2>5 DEF p, most
<1> QED
  BY <1>6, <1>7, <1>8

\* The desktop pixels of a picture's row or column: n source ones, k of the
\* picture's, where the picture keeps or gains size across.
LEMMA AimsAcross ==
  ASSUME NEW n \in Nat \ {0}, NEW k \in Nat \ {0}, k <= n, NEW i \in 0 .. k - 1
  PROVE  Rounded(i * n, k) \in 0 .. n - 1
<1> DEFINE r == Rounded(i * n, k)
<1>1. /\ i \in Nat /\ i <= k - 1 /\ i * n \in Nat /\ k * n \in Nat
      /\ (k - 1) * n = k * n - n
  OBVIOUS
<1>2. r \in Int /\ 2 * (i * n) - k <= 2 * (r * k) /\ 2 * (r * k) <= 2 * (i * n) + k
  BY <1>1, RoundedIs
<1> HIDE DEF r
<1>3. i * n <= k * n - n
  <2>1. k - 1 \in Int
    OBVIOUS
  <2>2. i * n <= (k - 1) * n
    BY <1>1, <2>1, Larger
  <2> QED
    BY <1>1, <2>2
<1>4. r <= n - 1
  <2>1. ASSUME r >= n PROVE FALSE
    <3>1. r * k >= n * k /\ n * k = k * n
      BY <1>2, <2>1, Larger
    <3> QED
      BY <1>1, <1>2, <1>3, <3>1
  <2> QED
    BY <1>2, <2>1
<1>5. r >= 0
  <2>1. ASSUME r <= -1 PROVE FALSE
    <3>1. r * k <= (-1) * k
      BY <1>2, <2>1, Larger
    <3> QED
      BY <1>1, <1>2, <3>1
  <2> QED
    BY <1>2, <2>1
<1> QED
  BY <1>2, <1>4, <1>5 DEF r

\* Down, at the width's scale w / k, where the picture of w x h is k x l.
LEMMA AimsDown ==
  ASSUME NEW w \in Nat \ {0}, NEW h \in Nat \ {0}, NEW k \in Nat \ {0}, NEW l \in Nat \ {0},
         2 * (l * w) < 2 * (k * h) + 3 * w, NEW j \in 0 .. l - 1
  PROVE  /\ Rounded(j * w, k) \in Int /\ 0 <= Rounded(j * w, k)
         /\ 2 * k * (Rounded(j * w, k) - h) < w + k
<1> DEFINE r == Rounded(j * w, k)
<1>1. /\ j \in Nat /\ j <= l - 1 /\ j * w \in Nat /\ l * w \in Nat /\ k * h \in Nat
      /\ (l - 1) * w = l * w - w
  OBVIOUS
<1>2. r \in Int /\ 2 * (j * w) - k <= 2 * (r * k) /\ 2 * (r * k) <= 2 * (j * w) + k
  BY <1>1, RoundedIs
<1> HIDE DEF r
<1>3. j * w <= l * w - w
  <2>1. l - 1 \in Int
    OBVIOUS
  <2>2. j * w <= (l - 1) * w
    BY <1>1, <2>1, Larger
  <2> QED
    BY <1>1, <2>2
<1>4. r >= 0
  <2>1. ASSUME r <= -1 PROVE FALSE
    <3>1. r * k <= (-1) * k
      BY <1>2, <2>1, Larger
    <3> QED
      BY <1>1, <1>2, <3>1
  <2> QED
    BY <1>2, <2>1
<1>5. 2 * k * (r - h) = 2 * (r * k) - 2 * (k * h) /\ r * k \in Int
  BY <1>2
<1>6. 2 * k * (r - h) < w + k
  BY <1>1, <1>2, <1>3, <1>5
<1> QED
  BY <1>2, <1>4, <1>6 DEF r

-----------------------------------------------------------------------------
(* The invariant: the arrangement is the layout's, or the default one, and a *)
(* screenshot is a part of the desktop made smaller.                        *)

\* Arranged, of any displays, layout, places and primary.
ArrangedAs(hs, ms, pl, pr) ==
  IF ms = <<>> THEN
    /\ pr = 1
    /\ pl = [h \in DOMAIN hs |-> IF h = 1 THEN Alone(hs) ELSE NoRect]
  ELSE
    /\ Fits(hs, ms)
    /\ pr = PrimaryOf(hs, ms)
    /\ pl = [h \in DOMAIN hs |-> Place(hs, ms, h)]

\* What is known of an arrangement.
LEMMA ArrangementIs ==
  ASSUME NEW hs \in Topology, NEW ms \in Layout \cup {<<>>}, NEW pl, NEW pr,
         ArrangedAs(hs, ms, pl, pr), NEW S, S = {h \in DOMAIN hs : pl[h] # NoRect}
  PROVE  /\ pr \in S /\ DOMAIN pl = DOMAIN hs /\ IsFiniteSet(S)
         /\ \A h \in S : pl[h] \in Rects
         /\ ms = <<>> => S = {1} /\ pl[1] = Alone(hs)
         /\ ms # <<>> => S = Paired(hs, ms)
<1>0. IF ms = <<>> THEN
        /\ pr = 1
        /\ pl = [h \in DOMAIN hs |-> IF h = 1 THEN Alone(hs) ELSE NoRect]
      ELSE
        /\ Fits(hs, ms)
        /\ pr = PrimaryOf(hs, ms)
        /\ pl = [h \in DOMAIN hs |-> Place(hs, ms, h)]
  BY DEF ArrangedAs
<1>1. DOMAIN pl = DOMAIN hs /\ IsFiniteSet(S)
  <2>1. IsFiniteSet(S)
    BY HeadsAre, FS_Subset
  <2> QED
    BY <1>0, <2>1
<1>2. ASSUME ms = <<>> PROVE S = {1} /\ pl[1] = Alone(hs) /\ pl[1] \in Rects /\ pr = 1
  <2>1. 1 \in DOMAIN hs /\ hs[1].width \in Nat \ {0} /\ hs[1].height \in Nat \ {0}
    BY HeadsAre
  <2>2. Alone(hs) \in Rects /\ Alone(hs) # NoRect
    BY <2>1, GeometryAssumption DEF Alone, Rects
  <2> QED
    BY <1>0, <1>2, <2>1, <2>2
<1>3. ASSUME ms # <<>>
      PROVE  /\ ms \in Layout /\ S = Paired(hs, ms) /\ pr \in S
             /\ \A h \in S : pl[h] = Place(hs, ms, h) /\ pl[h] \in Rects
  <2>1. ms \in Layout /\ Fits(hs, ms) /\ pr = PrimaryOf(hs, ms)
    BY <1>0, <1>3
  <2>2. \A h \in DOMAIN hs : pl[h] = Place(hs, ms, h)
    BY <1>0, <1>3
  <2>3. \A h \in Paired(hs, ms) : Place(hs, ms, h) \in Rects /\ Place(hs, ms, h) # NoRect
    BY <2>1, PlaceIs
  <2>4. \A h \in DOMAIN hs \ Paired(hs, ms) : Place(hs, ms, h) = NoRect
    BY DEF Place
  <2>5. S = Paired(hs, ms)
    BY <2>2, <2>3, <2>4 DEF Paired
  <2>6. pr \in S
    BY <2>1, <2>5, PrimaryIs
  <2> QED
    BY <2>1, <2>2, <2>3, <2>5, <2>6
<1>4. pr \in S /\ \A h \in S : pl[h] \in Rects
  BY <1>2, <1>3
<1> QED
  BY <1>1, <1>2, <1>3, <1>4

LEMMA TwoSides ==
  ASSUME NEW w \in Nat \ {0}, NEW h \in Nat \ {0}, NEW side \in Nat
  PROVE  Downscaled(w, h, side) = <<Downscaled(w, h, side)[1], Downscaled(w, h, side)[2]>>
<1> DEFINE p == Downscaled(w, h, side)
<1>1. PICK a, b : p = <<a, b>>
  BY DEF Downscaled
<1> QED
  BY <1>1

\* What is known of a screenshot.
LEMMA ShotIs ==
  ASSUME NEW region \in Rects, NEW side \in Nat
  PROVE  LET w == region.width
             h == region.height
         IN  [region |-> region, width |-> Downscaled(w, h, side)[1],
              height |-> Downscaled(w, h, side)[2], asked |-> side,
              scale |-> Scale(w, h, side)] \in Shots
<1> DEFINE w == region.width
           h == region.height
           p == Downscaled(w, h, side)
<1>1. w \in Nat \ {0} /\ h \in Nat \ {0}
  BY DEF Rects
<1>2. p[1] \in Nat \ {0} /\ p[2] \in Nat \ {0}
  BY <1>1, DownscaledIs
<1>3. Scale(w, h, side) \in (Nat \ {0}) \X (Nat \ {0})
  BY <1>1, <1>2 DEF Scale
<1> HIDE DEF w, h, p
<1> QED
  BY <1>1, <1>2, <1>3 DEF Shots, w, h, p

GeometryInv == GeometryTypeOK /\ Arranged /\ Shrunk

LEMMA GeometryStarts == GeometryInit => GeometryInv
<1> SUFFICES ASSUME GeometryInit PROVE GeometryInv
  OBVIOUS
<1>1. Arranged /\ heads \in Topology /\ monitors \in Layout \cup {<<>>}
  BY DEF GeometryInit, Arranged
<1>2. primary \in Shown /\ DOMAIN placed = DOMAIN heads /\ \A h \in Shown : placed[h] \in Rects
  <2>1. ArrangedAs(heads, monitors, placed, primary)
    BY <1>1 DEF Arranged, ArrangedAs
  <2> QED
    BY <1>1, <2>1, ArrangementIs DEF Shown
<1> QED
  BY <1>1, <1>2 DEF GeometryInit, GeometryInv, GeometryTypeOK, Shrunk

\* An arrangement with no screenshot yet.
LEMMA Anew ==
  ASSUME heads' \in Topology, monitors' \in Layout \cup {<<>>}, Arranged',
         shot' = NoShot, gone' \in BOOLEAN
  PROVE  GeometryInv'
<1>1. /\ primary' \in Shown' /\ DOMAIN placed' = DOMAIN heads'
      /\ \A h \in Shown' : placed'[h] \in Rects
  <2>1. ArrangedAs(heads', monitors', placed', primary')
    BY DEF Arranged, ArrangedAs
  <2>2. Shown' = {h \in DOMAIN heads' : placed'[h] # NoRect}
    BY DEF Shown
  <2> QED
    BY <2>1, <2>2, ArrangementIs
<1> QED
  BY <1>1 DEF GeometryInv, GeometryTypeOK, Shrunk

LEMMA Opens ==
  ASSUME NEW hs \in Topology, NEW ms \in Layout \cup {<<>>}, OpenHeads(hs, ms)
  PROVE  GeometryInv'
<1>1. heads' = hs /\ shot' = NoShot /\ gone' = FALSE
  BY DEF OpenHeads
<1>2. CASE ms # <<>> /\ Fits(hs, ms)
  <2>1. /\ monitors' = ms /\ primary' = PrimaryOf(hs, ms)
        /\ placed' = [h \in DOMAIN hs |-> Place(hs, ms, h)]
    BY <1>2 DEF OpenHeads, Arrange
  <2> QED
    BY <1>1, <1>2, <2>1, Anew DEF Arranged
<1>3. CASE ~(ms # <<>> /\ Fits(hs, ms))
  <2>1. /\ monitors' = <<>> /\ primary' = 1
        /\ placed' = [h \in DOMAIN hs |-> IF h = 1 THEN Alone(hs) ELSE NoRect]
    BY <1>3 DEF OpenHeads, Default
  <2> QED
    BY <1>1, <2>1, Anew DEF Arranged
<1> QED
  BY <1>2, <1>3

LEMMA GeometryHolds == GeometryInv /\ [GeometryNext]_geometry => GeometryInv'
<1> SUFFICES ASSUME GeometryInv, [GeometryNext]_geometry PROVE GeometryInv'
  OBVIOUS
<1>0. /\ heads \in Topology /\ monitors \in Layout \cup {<<>>} /\ gone \in BOOLEAN
      /\ Arranged
  BY DEF GeometryInv, GeometryTypeOK
<1>1. CASE Plug
  BY <1>0, <1>1, Opens DEF Plug
<1>2. CASE DropLayout
  <2>1. /\ heads' = heads /\ gone' = gone /\ shot' = NoShot
        /\ monitors' = <<>> /\ primary' = 1
        /\ placed' = [h \in DOMAIN heads |-> IF h = 1 THEN Alone(heads) ELSE NoRect]
    BY <1>2 DEF DropLayout, Default
  <2> QED
    BY <1>0, <2>1, Anew DEF Arranged
<1>3. CASE Restart
  BY <1>3, Opens DEF Restart
<1>4. ASSUME NEW ms \in Layout, SetLayout(ms) PROVE GeometryInv'
  <2>1. /\ heads' = heads /\ gone' = gone /\ shot' = NoShot /\ Fits(heads, ms)
        /\ monitors' = ms /\ primary' = PrimaryOf(heads, ms)
        /\ placed' = [h \in DOMAIN heads |-> Place(heads, ms, h)]
    BY <1>4 DEF SetLayout, Arrange
  <2>2. ms # <<>>
    BY MonitorsAre
  <2> QED
    BY <1>0, <2>1, <2>2, Anew DEF Arranged
<1>5. ASSUME NEW r \in Region, NEW side \in MaxSide, TakeScreenshot(r, side)
      PROVE  GeometryInv'
  <2> DEFINE region == Intersect(r, Desktop)
             w == region.width
             h == region.height
             p == Downscaled(w, h, side)
             s == [region |-> region, width |-> p[1], height |-> p[2], asked |-> side,
                   scale |-> Scale(w, h, side)]
  <2>1. region # NoRect /\ shot' = s
    BY <1>5 DEF TakeScreenshot
  <2>2. UNCHANGED <<heads, monitors, placed, primary, gone>>
    BY <1>5 DEF TakeScreenshot
  <2>3. r \in Rects /\ side \in Nat
    BY GeometryAssumption
  <2>4. Desktop \in Rects
    <3>1. ArrangedAs(heads, monitors, placed, primary)
      BY <1>0 DEF Arranged, ArrangedAs
    <3>2. Shown = {g \in DOMAIN heads : placed[g] # NoRect}
      BY DEF Shown
    <3> HIDE DEF s
    <3>3. /\ primary \in Shown /\ IsFiniteSet(Shown)
          /\ \A g \in Shown : placed[g] \in Rects
      BY <1>0, <3>1, <3>2, ArrangementIs
    <3>4. Union({placed[g] : g \in Shown}) \in Rects
      BY <3>3, UnionIs
    <3> QED
      BY <3>4 DEF Desktop
  <2>5. /\ region \in Rects /\ Desktop.x <= region.x /\ Desktop.y <= region.y
        /\ Right(region) <= Right(Desktop) /\ Bottom(region) <= Bottom(Desktop)
    BY <2>1, <2>3, <2>4, IntersectIs
  <2>6. Intersect(region, Desktop) = region
    BY <2>4, <2>5, InsideIs
  <2>7. s \in Shots
    BY <2>3, <2>5, ShotIs
  <2>8. Shown' = Shown /\ Desktop' = Desktop /\ Arranged'
    BY <1>0, <2>2 DEF Shown, Desktop, Arranged
  <2>9. w \in Nat \ {0} /\ h \in Nat \ {0}
    BY <2>5 DEF Rects
  <2>10. p = <<p[1], p[2]>>
    BY <2>3, <2>9, TwoSides
  <2>11. Shrunk'
    <3>1. shot'.region = region /\ shot'.asked = side
      BY <2>1
    <3>2. <<shot'.width, shot'.height>> = p /\ shot'.scale = Scale(w, h, side)
      BY <2>1, <2>10
    <3> HIDE DEF p
    <3> QED
      BY <3>1, <3>2 DEF Shrunk, p
  <2>12. shot' \in Shots /\ Intersect(shot'.region, Desktop') = shot'.region
    BY <2>1, <2>6, <2>7, <2>8
  <2>13. GeometryTypeOK'
    BY <2>2, <2>8, <2>12 DEF GeometryInv, GeometryTypeOK
  <2> QED
    BY <2>8, <2>11, <2>13 DEF GeometryInv
<1>6. ASSUME NEW r \in Region, NEW side \in MaxSide, ScreenshotPanics(r, side)
      PROVE  GeometryInv'
  <2>1. UNCHANGED <<heads, monitors, placed, primary, shot>> /\ gone' = TRUE
    BY <1>6 DEF ScreenshotPanics
  <2> QED
    BY <2>1 DEF GeometryInv, GeometryTypeOK, Arranged, Shrunk, Shown, Desktop
<1>7. CASE UNCHANGED geometry
  <2>1. UNCHANGED <<heads, monitors, placed, primary, shot, gone>>
    BY <1>7 DEF geometry
  <2> QED
    BY <2>1 DEF GeometryInv, GeometryTypeOK, Arranged, Shrunk, Shown, Desktop
<1> QED
  BY <1>1, <1>2, <1>3, <1>4, <1>5, <1>6, <1>7 DEF GeometryNext

-----------------------------------------------------------------------------
(* What follows of it *)

\* The displays that are shown, and a screenshot's sizes.
LEMMA NowIs ==
  ASSUME GeometryInv
  PROVE  /\ heads \in Topology /\ primary \in Shown
         /\ \A h \in Shown : /\ placed[h] \in Rects
                             /\ heads[h].width \in Nat \ {0} /\ heads[h].height \in Nat \ {0}
         /\ monitors = <<>> => Shown = {1} /\ placed[1] = Alone(heads)
         /\ monitors # <<>> =>
              /\ monitors \in Layout /\ Fits(heads, monitors)
              /\ primary = PrimaryOf(heads, monitors) /\ Shown = Paired(heads, monitors)
              /\ \A h \in Shown : placed[h] = Place(heads, monitors, h)
<1>1. heads \in Topology /\ monitors \in Layout \cup {<<>>} /\ Arranged
  BY DEF GeometryInv, GeometryTypeOK
<1>2. ArrangedAs(heads, monitors, placed, primary)
  BY <1>1 DEF Arranged, ArrangedAs
<1>3. Shown = {h \in DOMAIN heads : placed[h] # NoRect}
  BY DEF Shown
<1>4. /\ primary \in Shown
      /\ \A h \in Shown : placed[h] \in Rects
      /\ monitors = <<>> => Shown = {1} /\ placed[1] = Alone(heads)
      /\ monitors # <<>> =>
           /\ monitors \in Layout /\ Shown = Paired(heads, monitors)
           /\ \A h \in Shown : placed[h] = Place(heads, monitors, h)
  <2>1. primary \in Shown /\ \A h \in Shown : placed[h] \in Rects
    BY <1>1, <1>2, <1>3, ArrangementIs
  <2>2. ASSUME monitors = <<>> PROVE Shown = {1} /\ placed[1] = Alone(heads)
    BY <1>1, <1>2, <1>3, <2>2, ArrangementIs
  <2>3. ASSUME monitors # <<>>
        PROVE  /\ monitors \in Layout /\ Shown = Paired(heads, monitors)
               /\ \A h \in Shown : placed[h] = Place(heads, monitors, h)
    <3>1. Shown = Paired(heads, monitors)
      BY <1>1, <1>2, <1>3, <2>3, ArrangementIs
    <3>2. placed = [h \in DOMAIN heads |-> Place(heads, monitors, h)]
      BY <1>2, <2>3 DEF ArrangedAs
    <3> QED
      BY <1>1, <1>3, <2>3, <3>1, <3>2
  <2> QED
    BY <2>1, <2>2, <2>3
<1>5. \A h \in Shown : heads[h].width \in Nat \ {0} /\ heads[h].height \in Nat \ {0}
  BY <1>1, <1>3, HeadsAre
<1>6. monitors # <<>> => Fits(heads, monitors) /\ primary = PrimaryOf(heads, monitors)
  BY <1>2 DEF ArrangedAs
<1> QED
  BY <1>1, <1>4, <1>5, <1>6

LEMMA OneToOneNow == GeometryInv => PrimaryNative
<1> SUFFICES ASSUME GeometryInv PROVE PrimaryNative
  OBVIOUS
<1> DEFINE d == placed[primary]
           n == Native(primary, d)
<1>1. /\ d \in Rects /\ primary \in Shown
      /\ heads[primary].width \in Nat \ {0} /\ heads[primary].height \in Nat \ {0}
  BY NowIs
<1>2. heads[primary].width = d.width /\ heads[primary].height = d.height
  <2>1. CASE monitors = <<>>
    BY <2>1, NowIs DEF Alone
  <2>2. CASE monitors # <<>>
    BY <2>2, NowIs, PlaceIs
  <2> QED
    BY <2>1, <2>2
<1>3. /\ d.x \in Int /\ d.y \in Int /\ d.width \in Nat \ {0} /\ d.height \in Nat \ {0}
      /\ Right(d) = d.x + d.width /\ Bottom(d) = d.y + d.height
  BY <1>1 DEF Rects, Right, Bottom
<1>4. /\ n \in Rects
      /\ Covering(d.x, Right(d), n.x, Right(n), d.x, d.width, heads[primary].width)
      /\ Covering(d.y, Bottom(d), n.y, Bottom(n), d.y, d.height, heads[primary].height)
  <2>1. d.x <= d.x /\ d.y <= d.y /\ Right(d) <= Right(d) /\ Bottom(d) <= Bottom(d)
    BY <1>3
  <2> QED
    BY <1>1, <2>1, NativeIs
<1>5. /\ n.x \in Int /\ n.y \in Int /\ Right(n) \in Int /\ Bottom(n) \in Int
      /\ n = [x |-> n.x, y |-> n.y, width |-> Right(n) - n.x, height |-> Bottom(n) - n.y]
  BY <1>4 DEF Rects, Right, Bottom
<1>6. n.x = 0 /\ Right(n) = d.width
  <2>1. Covering(d.x, d.x + d.width, n.x, Right(n), d.x, d.width, d.width)
    BY <1>2, <1>3, <1>4
  <2> HIDE DEF d, n
  <2> QED
    BY <1>3, <1>5, <2>1, OneToOne
<1>7. n.y = 0 /\ Bottom(n) = d.height
  <2>1. Covering(d.y, d.y + d.height, n.y, Bottom(n), d.y, d.height, d.height)
    BY <1>2, <1>3, <1>4
  <2> HIDE DEF d, n
  <2> QED
    BY <1>3, <1>5, <2>1, OneToOne
<1>8. n = [x |-> 0, y |-> 0, width |-> d.width, height |-> d.height]
  BY <1>3, <1>5, <1>6, <1>7
<1> QED
  BY <1>2, <1>8 DEF PrimaryNative

LEMMA SeamsNow == GeometryInv => SeamsHold
<1> SUFFICES ASSUME GeometryInv, monitors # <<>>, NEW g \in Shown, NEW h \in Shown
             PROVE  LET m == monitors[Pair(heads, monitors, g)]
                        n == monitors[Pair(heads, monitors, h)]
                    IN  /\ Right(m) = n.x => Distance(Right(placed[g]), placed[h].x) <= 1
                        /\ Bottom(m) = n.y =>
                             50 * Distance(Bottom(placed[g]), placed[h].y) <= Slack(g)
  BY DEF SeamsHold
<1>1. /\ heads \in Topology /\ monitors \in Layout /\ Fits(heads, monitors)
      /\ primary = PrimaryOf(heads, monitors)
      /\ g \in Paired(heads, monitors) /\ h \in Paired(heads, monitors)
      /\ placed[g] = Place(heads, monitors, g) /\ placed[h] = Place(heads, monitors, h)
  BY NowIs
<1>2. Slack(g) = 50 + IF g = PrimaryOf(heads, monitors) THEN heads[g].height ELSE 0
  BY <1>1 DEF Slack
<1> QED
  BY <1>1, <1>2, Seams

LEMMA PiecesNow == GeometryInv => NoGap
<1> SUFFICES ASSUME GeometryInv, shot # NoShot, NEW h \in Shown,
                    Intersect(shot.region, placed[h]) # NoRect
             PROVE  LET d == placed[h]
                        part == Intersect(shot.region, d)
                        n == Native(h, part)
                    IN  /\ n # NoRect
                        /\ Covering(part.x, Right(part), n.x, Right(n),
                                    d.x, d.width, heads[h].width)
                        /\ Covering(part.y, Bottom(part), n.y, Bottom(n),
                                    d.y, d.height, heads[h].height)
  BY DEF NoGap, Covering
<1> DEFINE d == placed[h]
           part == Intersect(shot.region, d)
<1>1. /\ d \in Rects
      /\ heads[h].width \in Nat \ {0} /\ heads[h].height \in Nat \ {0}
  BY NowIs
<1>2. shot.region \in Rects
  BY DEF GeometryInv, GeometryTypeOK, Shots
<1>3. /\ part \in Rects /\ d.x <= part.x /\ d.y <= part.y
      /\ Right(part) <= Right(d) /\ Bottom(part) <= Bottom(d)
  BY <1>1, <1>2, IntersectIs
<1> HIDE DEF part
<1>4. /\ Native(h, part) \in Rects
      /\ LET n == Native(h, part)
         IN  /\ Covering(part.x, Right(part), n.x, Right(n), d.x, d.width, heads[h].width)
             /\ Covering(part.y, Bottom(part), n.y, Bottom(n),
                         d.y, d.height, heads[h].height)
  BY <1>1, <1>3, NativeIs
<1>5. Native(h, part) # NoRect
  BY <1>4, GeometryAssumption
<1> QED
  BY <1>4, <1>5 DEF part

\* What a screenshot says of itself.
LEMMA ShotNow ==
  ASSUME GeometryInv, shot # NoShot
  PROVE  LET w == shot.region.width
             h == shot.region.height
             p == Downscaled(w, h, shot.asked)
         IN  /\ shot.region.x \in Int /\ shot.region.y \in Int
             /\ w \in Nat \ {0} /\ h \in Nat \ {0} /\ shot.asked \in Nat
             /\ shot.width = p[1] /\ shot.height = p[2]
             /\ shot.scale = Scale(w, h, shot.asked)
<1>1. shot.region \in Rects /\ shot.asked \in Nat
  BY DEF GeometryInv, GeometryTypeOK, Shots
<1>2. /\ <<shot.width, shot.height>> =
           Downscaled(shot.region.width, shot.region.height, shot.asked)
      /\ shot.scale = Scale(shot.region.width, shot.region.height, shot.asked)
  BY DEF GeometryInv, Shrunk
<1> QED
  BY <1>1, <1>2 DEF Rects

LEMMA LongestNow == GeometryInv => LongestIsMaxSide
<1> SUFFICES ASSUME GeometryInv, shot # NoShot PROVE LongestIsMaxSide
  BY DEF LongestIsMaxSide
<1> DEFINE w == shot.region.width
           h == shot.region.height
           a == shot.asked
           p == Downscaled(w, h, a)
           most == Max({a, 16})
           all == Longest(w, h)
<1>1. /\ w \in Nat \ {0} /\ h \in Nat \ {0} /\ a \in Nat
      /\ shot.width = p[1] /\ shot.height = p[2]
  BY ShotNow
<1>2. LongestIsMaxSide <=>
        Longest(shot.width, shot.height) = IF a = 0 THEN all ELSE Min({all, most})
  BY DEF LongestIsMaxSide
<1>3. Small(w, h, a) <=> a = 0 \/ all <= most
  BY DEF Small
<1> HIDE DEF w, h, a
<1>4. /\ most \in Nat \ {0}
      /\ Small(w, h, a) => p[1] = w /\ p[2] = h
      /\ ~Small(w, h, a) => most < all /\ a # 0 /\ Longest(p[1], p[2]) = most
  BY <1>1, DownscaledIs
<1> HIDE DEF p, most
<1>5. Small(w, h, a) => Longest(p[1], p[2]) = all
  BY <1>4
<1>6. all \in Nat
  BY <1>1, LongestIs
<1> HIDE DEF all
<1>7. Min({all, most}) = IF all <= most THEN all ELSE most
  <2>1. all \in Int /\ most \in Int
    BY <1>4, <1>6
  <2> QED
    BY <2>1, OfTwo
<1> QED
  BY <1>1, <1>2, <1>3, <1>4, <1>5, <1>6, <1>7

LEMMA AimsNow == GeometryInv => AimsInside
<1> SUFFICES ASSUME GeometryInv, shot # NoShot PROVE AimsInside
  BY DEF AimsInside
<1> DEFINE x == shot.region.x
           y == shot.region.y
           w == shot.region.width
           h == shot.region.height
           a == shot.asked
           p == Downscaled(w, h, a)
           s == shot.scale
<1>1. /\ x \in Int /\ y \in Int /\ w \in Nat \ {0} /\ h \in Nat \ {0} /\ a \in Nat
      /\ shot.width = p[1] /\ shot.height = p[2] /\ s = Scale(w, h, a)
  BY ShotNow
<1>2. \A v, o : ToScanout(v, o) = Rounded(v * s[1], s[2]) + o
  BY DEF ToScanout
<1>3. Right(shot.region) = x + w /\ Bottom(shot.region) = y + h
  BY DEF Right, Bottom
<1>4. s = IF Small(w, h, a) THEN <<1, 1>> ELSE <<w, p[1]>>
  BY <1>1 DEF Scale
<1>5. SUFFICES /\ \A i \in 0 .. p[1] - 1 : ToScanout(i, x) \in x .. (x + w) - 1
               /\ h <= w => \A j \in 0 .. p[2] - 1 :
                              /\ y <= ToScanout(j, y)
                              /\ 2 * s[2] * (ToScanout(j, y) - (y + h)) < s[1] + s[2]
  BY <1>1, <1>3 DEF AimsInside
<1> HIDE DEF x, y, w, h, a, s
<1>6. /\ p[1] \in Nat \ {0} /\ p[2] \in Nat \ {0} /\ p[1] <= w
      /\ Small(w, h, a) => p[1] = w /\ p[2] = h
      /\ ~Small(w, h, a) /\ h <= w => 2 * (p[2] * w) < 2 * (p[1] * h) + 3 * w
  <2> DEFINE most == Max({a, 16})
  <2>1. ~Small(w, h, a) /\ h <= w => p[1] = most /\ 2 * (p[2] * w) < 2 * (most * h) + 3 * w
    BY <1>1, DownscaledIs
  <2>2. /\ p[1] \in Nat \ {0} /\ p[2] \in Nat \ {0} /\ p[1] <= w
        /\ Small(w, h, a) => p[1] = w /\ p[2] = h
    BY <1>1, DownscaledIs
  <2> HIDE DEF most, p
  <2> QED
    BY <2>1, <2>2
<1> HIDE DEF p
<1>7. CASE Small(w, h, a)
  <2>1. s[1] = 1 /\ s[2] = 1 /\ p[1] = w /\ p[2] = h
    BY <1>4, <1>6, <1>7
  <2>2. \A v \in Int, o \in Int : ToScanout(v, o) = v + o
    <3>1. \A v \in Int : Rounded(v * 1, 1) = v
      BY RoundedExact
    <3> QED
      BY <1>2, <2>1, <3>1
  <2>3. ASSUME NEW i \in 0 .. w - 1 PROVE ToScanout(i, x) \in x .. (x + w) - 1
    <3>1. ToScanout(i, x) = i + x
      BY <1>1, <2>2
    <3>2. i + x \in x .. (x + w) - 1
      BY <1>1
    <3> QED
      BY <3>1, <3>2
  <2>4. ASSUME NEW j \in 0 .. h - 1
        PROVE  /\ y <= ToScanout(j, y)
               /\ 2 * s[2] * (ToScanout(j, y) - (y + h)) < s[1] + s[2]
    <3>1. ToScanout(j, y) = j + y
      BY <1>1, <2>2
    <3>2. y <= j + y /\ (j + y) - (y + h) = j - h /\ j - h < 0
      BY <1>1
    <3> QED
      BY <1>1, <2>1, <3>1, <3>2
  <2> QED
    BY <2>1, <2>3, <2>4
<1>8. CASE ~Small(w, h, a)
  <2>1. s[1] = w /\ s[2] = p[1]
    BY <1>4, <1>8
  <2>2. ASSUME NEW i \in 0 .. p[1] - 1 PROVE ToScanout(i, x) \in x .. (x + w) - 1
    <3>1. Rounded(i * w, p[1]) \in 0 .. w - 1
      BY <1>1, <1>6, AimsAcross
    <3> QED
      BY <1>1, <1>2, <2>1, <3>1
  <2>3. ASSUME h <= w, NEW j \in 0 .. p[2] - 1
        PROVE  /\ y <= ToScanout(j, y)
               /\ 2 * s[2] * (ToScanout(j, y) - (y + h)) < s[1] + s[2]
    <3> DEFINE k == p[1]
               r == Rounded(j * w, k)
    <3>1. r \in Int /\ 0 <= r /\ 2 * k * (r - h) < w + k
      BY <1>1, <1>6, <1>8, <2>3, AimsDown
    <3>2. ToScanout(j, y) = r + y
      BY <1>2, <2>1
    <3> HIDE DEF r
    <3>3. ToScanout(j, y) - (y + h) = r - h
      BY <1>1, <3>1, <3>2
    <3> QED
      BY <1>1, <2>1, <3>1, <3>2, <3>3
  <2> QED
    BY <2>2, <2>3
<1> QED
  BY <1>7, <1>8

LEMMA CursorNow == GeometryInv => CursorNear
<1> SUFFICES ASSUME GeometryInv, NEW h \in Shown,
                    NEW p \in 0 .. heads[h].width - 1, NEW hot \in 0 .. 3
             PROVE  Distance((CursorX(h, p - hot) + CursorX(h, hot)) * heads[h].width,
                             p * placed[h].width) <= heads[h].width
  BY DEF CursorNear
<1>1. placed[h].width \in Int /\ heads[h].width \in Nat \ {0}
  BY NowIs DEF Rects
<1>2. p \in Int /\ p - hot \in Int /\ hot \in Int /\ (p - hot) + hot = p
  BY <1>1
<1>3. Distance((CursorX(h, p - hot) + CursorX(h, hot)) * heads[h].width,
               ((p - hot) + hot) * placed[h].width) <= heads[h].width
  BY <1>1, <1>2, CursorIs
<1> QED
  BY <1>2, <1>3

LEMMA Follows == GeometryInv => PlacedInv /\ NoGap /\ ToldInv
  BY OneToOneNow, SeamsNow, PiecesNow, LongestNow, AimsNow, CursorNow
     DEF GeometryInv, PlacedInv, ToldInv

\* Whatever layouts come and whatever is plugged, each display is where the
\* layout has it, in the primary's pixels: the primary keeps its own, and what
\* touches in the layout touches (plan_layout, open_heads, apply_default).
THEOREM Placed == GeometrySpec => []PlacedInv
<1>1. GeometrySpec => []GeometryInv
  BY GeometryStarts, GeometryHolds, PTL DEF GeometrySpec
<1> QED
  BY <1>1, Follows, PTL

\* A grab takes of every display scanout pixels that are there and cover its part
\* of what was asked for, and less than one more on each side (grab).
THEOREM Pieces == GeometrySpec => []NoGap
<1>1. GeometrySpec => []GeometryInv
  BY GeometryStarts, GeometryHolds, PTL DEF GeometrySpec
<1> QED
  BY <1>1, Follows, PTL

\* A picture has the size asked for, and by the scale and the origin it comes with
\* its pixels are aimed at what it shows; the cursor is within a pixel of where it
\* is said to be (screenshot, downscale_to, cursor).
THEOREM Told == GeometrySpec => []ToldInv
<1>1. GeometrySpec => []GeometryInv
  BY GeometryStarts, GeometryHolds, PTL DEF GeometrySpec
<1> QED
  BY <1>1, Follows, PTL
=============================================================================
