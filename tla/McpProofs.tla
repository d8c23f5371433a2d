------------------------------ MODULE McpProofs ------------------------------
(***************************************************************************)
(* Theorems about the MCP server, for any tools made of its primitives,    *)
(* any number of calls at once, of displays, of recordings and of          *)
(* failures, and any TTL: what coordinates refer to, which button goes     *)
(* down and up, and whose timeline is kept.                                *)
(***************************************************************************)
EXTENDS Mcp, TLAPS

-----------------------------------------------------------------------------
(* What is left of a tool *)

\* The rest of a tool has the tool's other primitives.
LEMMA Rest ==
  ASSUME NEW S, NEW t \in Seq(S), t # << >>
  PROVE  /\ Tail(t) \in Seq(S) /\ Len(Tail(t)) = Len(t) - 1
         /\ Head(t) \in S /\ Head(t) = t[1] /\ 1 \in DOMAIN t
         /\ \A i \in DOMAIN Tail(t) : i + 1 \in DOMAIN t /\ Tail(t)[i] = t[i + 1]
  OBVIOUS

\* Nothing is left of no tool.
LEMMA NothingLeft ==
  /\ ~TakesImage(<< >>) /\ ~Presses(<< >>) /\ ~Records(<< >>) /\ ~HasRecordStep(<< >>)
  BY DEF TakesImage, Presses, Records, HasRecordStep, RecordStart, RecordStop

\* The rest of a tool takes no image, presses nothing and records nothing that
\* the tool does not.
LEMMA RestDoesLess ==
  ASSUME NEW t \in Seq(Primitive), t # << >>
  PROVE  /\ TakesImage(Tail(t)) => TakesImage(t)
         /\ Presses(Tail(t)) => Presses(t)
         /\ HasRecordStep(Tail(t)) => HasRecordStep(t)
         /\ Records(t) => Tail(t) = << >>
<1>1. \A i \in DOMAIN Tail(t) : i + 1 \in DOMAIN t /\ Tail(t)[i] = t[i + 1]
  BY Rest
<1>2. TakesImage(Tail(t)) => TakesImage(t)
  BY <1>1 DEF TakesImage
<1>3. Presses(Tail(t)) => Presses(t)
  BY <1>1 DEF Presses
<1>4. HasRecordStep(Tail(t)) => HasRecordStep(t)
  BY <1>1 DEF HasRecordStep
<1>5. Records(t) => Tail(t) = << >>
  <2>1. Tail(<<"recstart">>) = << >> /\ Tail(<<"recstop">>) = << >>
    OBVIOUS
  <2> QED
    BY <2>1 DEF Records, RecordStart, RecordStop
<1> QED
  BY <1>2, <1>3, <1>4, <1>5

\* What a tool that begins with this does.
LEMMA HeadDoes ==
  ASSUME NEW t \in Seq(Primitive), t # << >>
  PROVE  /\ Head(t) = "shot" => TakesImage(t)
         /\ Head(t) \in {"down", "up"} => Presses(t)
         /\ Head(t) \in RecordSteps => HasRecordStep(t)
         /\ Records(t) => Head(t) \in RecordSteps
<1>1. Head(t) = t[1] /\ 1 \in DOMAIN t
  BY Rest
<1> QED
  BY <1>1 DEF TakesImage, Presses, HasRecordStep, Records, RecordStart, RecordStop, RecordSteps

Places == {"idle", "look", "again", "hand", "detect", "ask", "asking", "store", "local",
           "send", "sent", "back", "status", "failed", "done"}

\* InPlace, of one call that is at p with t to do, but for its image.
IsPlace(p, t) ==
  /\ p \in Places
  /\ p = "idle" => t = << >>
  /\ p \notin {"idle", "done", "failed"} => t # << >>
  /\ p \in {"look", "again"} => Head(t) \in Once \cup Twice
  /\ p \in {"hand", "detect"} => Head(t) \in Handed
  /\ p \in {"ask", "asking", "store"} => Head(t) = "doctor"
  /\ p = "local" => Head(t) \in {"mark", "recmark", "shot", "tell", "frames"}
  /\ p = "status" => Head(t) = "recstop"

\* A call enters a tool where its first primitive goes.
LEMMA EnterInPlace ==
  ASSUME NEW t \in Seq(Primitive)
  PROVE  /\ IsPlace(Enter(t), t)
         /\ Enter(t) \in {"done", "look", "hand", "ask", "local", "send"}
         /\ Enter(t) = "hand" => Head(t) \in {"down", "up"}
         /\ Enter(t) = "send" => Head(t) \notin Handed
<1>1. CASE t = << >>
  BY <1>1 DEF Enter, IsPlace, Places
<1>2. CASE t # << >>
  <2>1. Head(t) \in Primitive
    BY <1>2, Rest
  <2> QED
    BY <1>2, <2>1 DEF Enter, IsPlace, Places, Primitive, Once, Twice, Handed
<1> QED
  BY <1>1, <1>2

-----------------------------------------------------------------------------
(* Types *)

\* The ends of the ranges are in them.
LEMMA Ends ==
  /\ 0 \in 0 .. Slow /\ 0 \in 0 .. TTL /\ TTL \in 0 .. TTL /\ 0 \in 0 .. MaxRecs
  /\ 0 \in 0 .. Limit /\ Limit \in 0 .. Limit /\ Limit \in Nat /\ Slow < Limit
  /\ Recs = 1 .. MaxRecs /\ MaxRecs \in Nat /\ TTL \in Nat /\ Slow \in Nat /\ TTL > 0
  /\ All \in Region /\ All \in View /\ Native \in View /\ Region \subseteq View
  /\ None \notin Region /\ None \notin Call
  BY McpAssumption DEF Limit, Recs, View, Region

LEMMA TypeInit == Init => TypeOK
<1> USE Ends DEF Init
<1>1. Init => CallTypes
  BY DEF CallTypes
<1>2. Init => HandTypes
  <2> SUFFICES ASSUME Init PROVE HandTypes
    OBVIOUS
  <2>1. hand \in [val : BOOLEAN, age : 0 .. TTL]
    OBVIOUS
  <2>2. handlock \in Call \cup {None} /\ swapped \in BOOLEAN /\ calm \in 0 .. Limit
    OBVIOUS
  <2>3. found \in [Call -> BOOLEAN] /\ took \in [Call -> 0 .. Slow]
    OBVIOUS
  <2> QED
    BY <2>1, <2>2, <2>3 DEF HandTypes
<1>3. Init => BackTypes
  <2> SUFFICES ASSUME Init PROVE BackTypes
    OBVIOUS
  <2>1. session \in Sessions /\ held \subseteq BOOLEAN /\ queue = << >>
    OBVIOUS
  <2>2. bounds \in [{"fault", "flip"} -> Nat]
    OBVIOUS
  <2>3. lastop \in {"down", "up"} /\ suspect \in BOOLEAN
    OBVIOUS
  <2>4. taping \in 0 .. MaxRecs /\ ended \in 0 .. MaxRecs /\ made \in 0 .. MaxRecs
    OBVIOUS
  <2> QED
    BY <2>1, <2>2, <2>3, <2>4 DEF BackTypes
<1>4. Init => TapeTypes
  BY DEF TapeTypes
<1>5. Init => ViewTypes
  BY DEF ViewTypes
<1> QED
  BY <1>1, <1>2, <1>3, <1>4, <1>5 DEF TypeOK

\* What a client can call is made of primitives.
LEMMA Tools ==
  ASSUME BackTypes, NEW t \in session.tools
  PROVE  /\ t \in Seq(Primitive) /\ IsPlace(Enter(t), t)
         /\ Enter(t) \in {"done", "look", "hand", "ask", "local", "send"}
         /\ Records(t) \/ ~HasRecordStep(t)
<1>1. t \in Seq(Primitive) /\ (Records(t) \/ ~HasRecordStep(t))
  BY McpAssumption DEF BackTypes
<1> QED
  BY <1>1, EnterInPlace

\* A request that is served is off the queue, and its call goes on if it waits.
LEMMA Served ==
  ASSUME CallTypes, BackTypes, NEW e, queue # << >>, e = Head(queue), queue' = Tail(queue)
  PROVE  /\ e \in [by : Call, what : Primitive, button : BOOLEAN, live : BOOLEAN]
         /\ e = queue[1] /\ 1 \in DOMAIN queue
         /\ queue' \in Seq([by : Call, what : Primitive, button : BOOLEAN, live : BOOLEAN])
         /\ \A i \in DOMAIN queue' : i \in Nat \ {0} /\ i + 1 \in DOMAIN queue
                /\ queue'[i] = queue[i + 1]
<1> DEFINE S == [by : Call, what : Primitive, button : BOOLEAN, live : BOOLEAN]
<1>1. queue \in Seq(S)
  BY DEF BackTypes
<1>2. /\ Tail(queue) \in Seq(S) /\ Head(queue) \in S /\ Head(queue) = queue[1]
      /\ 1 \in DOMAIN queue
      /\ \A i \in DOMAIN Tail(queue) : i + 1 \in DOMAIN queue /\ Tail(queue)[i] = queue[i + 1]
  <2> HIDE DEF S
  <2> QED
    BY <1>1, Rest
<1>3. \A i \in DOMAIN Tail(queue) : i \in Nat \ {0}
  <2> HIDE DEF S
  <2> QED
    BY <1>2
<1> QED
  BY <1>2, <1>3

-----------------------------------------------------------------------------
(* Who changes what *)

\* What is known of handedness is the calls' to ask, and the desktop's.
LEMMA WhoAsks ==
  ASSUME Next
  PROVE  \/ UNCHANGED <<hand, handlock, found, took, swapped, calm>>
         \/ \E c \in Call : \/ AskHand(c) \/ HandFound(c)
                            \/ DoctorAsks(c) \/ DoctorFound(c) \/ DoctorStores(c)
         \/ Flip \/ Pass
<1> USE DEF vars, shared, hands, tape, calls, server, world, client, past
<1>1. ASSUME NEW c \in Call, Step(c), ~AskHand(c), ~HandFound(c), ~DoctorAsks(c), ~DoctorFound(c),
             ~DoctorStores(c)
      PROVE  UNCHANGED <<hand, handlock, found, took, swapped, calm>>
  BY <1>1 DEF Step, Begin, Answer, LookAtView, LookAgain, Tell, Mark, LookAtFocus, BelieveHand,
     Send, GivesUp, Shown, Focus, Carry, KeepTimeline, TakeTimeline, WriteManifest
<1>2. ASSUME Backend PROVE UNCHANGED <<hand, handlock, found, took, swapped, calm>>
  BY <1>2 DEF Backend, ServePlain, ServeButton, ServeRecordStart, ServeRecordStop, Serve, Refuse
<1>3. ASSUME World, ~Flip, ~Pass PROVE UNCHANGED <<hand, handlock, found, took, swapped, calm>>
  BY <1>3 DEF World, EndsByItself, OtherStarts, OtherStops, Strange
<1> QED
  BY <1>1, <1>2, <1>3 DEF Next

\* The view, and what the client saw of it, change where a picture is shown and
\* where a call begins or ends.
LEMMA WhoShows ==
  ASSUME Next
  PROVE  \/ UNCHANGED <<view, seen, asked, got, crossed, muddled>>
         \/ \E c \in Call : Answer(c) \/ Shown(c) \/ \E t \in session.tools : Begin(c, t)
<1> USE DEF vars, shared, hands, tape, calls, server, world, client, past
<1> DEFINE Same == UNCHANGED <<view, seen, asked, got, crossed, muddled>>
<1>1. ASSUME NEW c \in Call, Step(c), ~Answer(c), ~Shown(c),
             ~\E t \in session.tools : Begin(c, t)
      PROVE  Same
  BY <1>1 DEF Step, LookAtView, LookAgain, Tell, Mark, LookAtFocus, BelieveHand, AskHand,
     HandFound, DoctorAsks, DoctorFound, DoctorStores, Send, GivesUp, Focus, Carry,
     KeepTimeline, TakeTimeline, WriteManifest
<1>2. ASSUME Backend PROVE Same
  BY <1>2 DEF Backend, ServePlain, ServeButton, ServeRecordStart, ServeRecordStop, Serve, Refuse
<1>3. ASSUME World PROVE Same
  BY <1>3 DEF World, EndsByItself, OtherStarts, OtherStops, Strange, Flip, Pass
<1> QED
  BY <1>1, <1>2, <1>3 DEF Next

\* Recordings are the record calls', and what others do to them.
LEMMA WhoRecords ==
  ASSUME Next
  PROVE  \/ UNCHANGED <<rec, manifest, mixed, apart, overlap, taping, ended, made>>
         \/ \E c \in Call : \/ Answer(c) \/ GivesUp(c) \/ KeepTimeline(c) \/ TakeTimeline(c)
                            \/ WriteManifest(c) \/ \E t \in session.tools : Begin(c, t)
         \/ \E i \in DOMAIN queue : ServeRecordStart(queue[i]) \/ ServeRecordStop(queue[i])
         \/ EndsByItself \/ OtherStarts \/ OtherStops
<1> USE DEF vars, shared, hands, tape, calls, server, world, client, past
<1> DEFINE Same == UNCHANGED <<rec, manifest, mixed, apart, overlap, taping, ended, made>>
<1>1. ASSUME NEW c \in Call, Step(c), ~Answer(c), ~GivesUp(c), ~KeepTimeline(c),
             ~TakeTimeline(c), ~WriteManifest(c), ~\E t \in session.tools : Begin(c, t)
      PROVE  Same
  BY <1>1 DEF Step, LookAtView, LookAgain, Tell, Mark, LookAtFocus, BelieveHand, AskHand,
     HandFound, DoctorAsks, DoctorFound, DoctorStores, Send, Shown, Focus, Carry
<1>2. ASSUME NEW e, ServePlain(e) \/ ServeButton(e) \/ Refuse(e) PROVE Same
  BY <1>2 DEF ServePlain, ServeButton, Serve, Refuse
<1>3. ASSUME Flip \/ Pass PROVE Same
  BY <1>3 DEF Flip, Pass
<1> QED
  BY <1>1, <1>2, <1>3 DEF Next, Backend, World

\* Buttons and the setting.
LEMMA WhoPresses ==
  ASSUME Next
  PROVE  \/ UNCHANGED <<held, lastop, suspect, swapped, calm>>
         \/ \E c \in Call : Answer(c) \/ \E t \in session.tools : Begin(c, t)
         \/ \E i \in DOMAIN queue : ServeButton(queue[i])
         \/ Flip \/ Pass
<1> USE DEF vars, shared, hands, tape, calls, server, world, client, past
<1> DEFINE Same == UNCHANGED <<held, lastop, suspect, swapped, calm>>
<1>1. ASSUME NEW c \in Call, Step(c), ~Answer(c), ~\E t \in session.tools : Begin(c, t)
      PROVE  Same
  BY <1>1 DEF Step, LookAtView, LookAgain, Tell, Mark, LookAtFocus, BelieveHand, AskHand,
     HandFound, DoctorAsks, DoctorFound, DoctorStores, Send, GivesUp, Shown, Focus, Carry,
     KeepTimeline, TakeTimeline, WriteManifest
<1>2. ASSUME NEW e, ServePlain(e) \/ ServeRecordStart(e) \/ ServeRecordStop(e) \/ Refuse(e)
      PROVE  Same
  BY <1>2 DEF ServePlain, ServeRecordStart, ServeRecordStop, Serve, Refuse
<1>3. ASSUME EndsByItself \/ OtherStarts \/ OtherStops PROVE Same
  BY <1>3 DEF EndsByItself, OtherStarts, OtherStops, Strange
<1> QED
  BY <1>1, <1>2, <1>3 DEF Next, Backend, World

\* The queue.
LEMMA WhoQueues ==
  ASSUME Next
  PROVE  queue' = queue \/ Backend \/ \E c \in Call : Send(c) \/ GivesUp(c)
<1> USE DEF vars, shared, hands, tape, calls, server, world, client, past
<1>1. ASSUME NEW c \in Call, Step(c), ~Send(c), ~GivesUp(c) PROVE queue' = queue
  BY <1>1 DEF Step, Begin, Answer, LookAtView, LookAgain, Tell, Mark, LookAtFocus, BelieveHand,
     AskHand, HandFound, DoctorAsks, DoctorFound, DoctorStores, Shown, Focus, Carry,
     KeepTimeline, TakeTimeline, WriteManifest
<1>2. ASSUME World PROVE queue' = queue
  BY <1>2 DEF World, EndsByItself, OtherStarts, OtherStops, Strange, Flip, Pass
<1> QED
  BY <1>1, <1>2 DEF Next

\* The session stays what it is.
LEMMA SameSession ==
  ASSUME Next
  PROVE  session' = session
<1> USE DEF vars, shared, hands, tape, calls, server, world, client, past
<1>1. ASSUME NEW c \in Call, Step(c) PROVE session' = session
  BY <1>1 DEF Step, Begin, Answer, LookAtView, LookAgain, Tell, Mark, LookAtFocus, BelieveHand,
     AskHand, HandFound, DoctorAsks, DoctorFound, DoctorStores, Send, GivesUp, Shown, Focus,
     Carry, KeepTimeline, TakeTimeline, WriteManifest
<1>2. ASSUME Backend PROVE session' = session
  BY <1>2 DEF Backend, ServePlain, ServeButton, ServeRecordStart, ServeRecordStop, Serve, Refuse
<1>3. ASSUME World PROVE session' = session
  BY <1>3 DEF World, EndsByItself, OtherStarts, OtherStops, Strange, Flip, Pass
<1> QED
  BY <1>1, <1>2, <1>3 DEF Next

-----------------------------------------------------------------------------
(* Types, of a step *)

LEMMA HandTypesStep ==
  ASSUME TypeOK, Next
  PROVE  HandTypes'
<1> USE DEF HandTypes
<1>0. HandTypes /\ CallTypes
  BY DEF TypeOK
<1>1. Setting \in BOOLEAN
  BY <1>0 DEF Setting
<1>2. ASSUME NEW c \in Call, AskHand(c) PROVE HandTypes'
  BY <1>0, <1>1, <1>2, Ends DEF AskHand, world
<1>3. ASSUME NEW c \in Call, HandFound(c) PROVE HandTypes'
  <2>1. found' \in [Call -> BOOLEAN] /\ took' \in [Call -> 0 .. Slow]
    BY <1>0, <1>3, Ends DEF HandFound
  <2>2. hand' \in [val : BOOLEAN, age : 0 .. TTL]
    BY <1>0, <1>1, <1>3, Ends DEF HandFound
  <2> QED
    BY <1>0, <1>3, <2>1, <2>2 DEF HandFound, world
<1>4. ASSUME NEW c \in Call, DoctorAsks(c) PROVE HandTypes'
  BY <1>0, <1>1, <1>4, Ends DEF DoctorAsks, world
<1>5. ASSUME NEW c \in Call, DoctorFound(c) PROVE HandTypes'
  BY <1>0, <1>1, <1>5, Ends DEF DoctorFound, world
<1>6. ASSUME NEW c \in Call, DoctorStores(c) PROVE HandTypes'
  <2>1. found' \in [Call -> BOOLEAN] /\ took' \in [Call -> 0 .. Slow]
    BY <1>0, <1>6, Ends DEF DoctorStores
  <2>2. hand' \in [val : BOOLEAN, age : 0 .. TTL]
    BY <1>0, <1>6, Ends DEF DoctorStores
  <2> QED
    BY <1>0, <1>6, <2>1, <2>2 DEF DoctorStores, world
<1>7. CASE Flip
  BY <1>0, <1>7, Ends DEF Flip, hands
<1>8. CASE Pass
  <2>1. took' \in [Call -> 0 .. Slow]
    BY <1>0, <1>8, Ends DEF Pass
  <2>2. hand' \in [val : BOOLEAN, age : 0 .. TTL]
    <3> HIDE DEF HandTypes
    <3>1. hand \in [val : BOOLEAN, age : 0 .. TTL] /\ hand.age \in 0 .. TTL /\ TTL \in Nat
      BY <1>0, Ends DEF HandTypes
    <3> DEFINE older == IF hand.age < TTL THEN hand.age + 1 ELSE TTL
    <3>2. older \in 0 .. TTL
      BY <3>1
    <3>3. hand' = [hand EXCEPT !.age = older]
      BY <1>8 DEF Pass
    <3> HIDE DEF older
    <3> QED
      BY <3>1, <3>2, <3>3
  <2>3. calm' \in 0 .. Limit
    BY <1>0, <1>8, Ends DEF Pass
  <2> QED
    BY <1>0, <1>8, <2>1, <2>2, <2>3 DEF Pass
<1> QED
  BY <1>0, <1>2, <1>3, <1>4, <1>5, <1>6, <1>7, <1>8, WhoAsks

LEMMA ViewTypesStep ==
  ASSUME TypeOK, Next
  PROVE  ViewTypes'
<1> USE DEF ViewTypes
<1>0. ViewTypes /\ CallTypes
  BY DEF TypeOK
<1>1. focus' \in Region
  <2> USE DEF vars, shared, hands, tape, calls, server, world, client, past
  <2>1. ASSUME NEW c \in Call, Step(c) PROVE focus' \in Region
    BY <1>0, <2>1 DEF Step, Begin, Answer, LookAtView, LookAgain, Tell, Mark, LookAtFocus,
       BelieveHand, AskHand, HandFound, DoctorAsks, DoctorFound, DoctorStores, Send, GivesUp,
       Shown, Focus, Carry, KeepTimeline, TakeTimeline, WriteManifest
  <2>2. ASSUME Backend PROVE focus' = focus
    BY <2>2 DEF Backend, ServePlain, ServeButton, ServeRecordStart, ServeRecordStop, Serve,
       Refuse
  <2>3. ASSUME World PROVE focus' = focus
    BY <2>3 DEF World, EndsByItself, OtherStarts, OtherStops, Strange, Flip, Pass
  <2> QED
    BY <1>0, <2>1, <2>2, <2>3 DEF Next
<1>2. ASSUME NEW c \in Call, NEW t \in session.tools, Begin(c, t) PROVE ViewTypes'
  BY <1>0, <1>1, <1>2, Ends DEF Begin, shared
<1>3. ASSUME NEW c \in Call, Answer(c) PROVE ViewTypes'
  BY <1>0, <1>1, <1>3, Ends DEF Answer, shared
<1>4. ASSUME NEW c \in Call, Shown(c) PROVE ViewTypes'
  BY <1>0, <1>1, <1>4, Ends DEF Shown, CallTypes
<1> QED
  BY <1>0, <1>1, <1>2, <1>3, <1>4, WhoShows

LEMMA TapeTypesStep ==
  ASSUME TypeOK, Stopped, Next
  PROVE  TapeTypes'
<1> USE DEF TapeTypes
<1>0. TapeTypes /\ CallTypes /\ BackTypes
  BY DEF TypeOK
<1>1. ASSUME NEW c \in Call, NEW t \in session.tools, Begin(c, t) PROVE TapeTypes'
  BY <1>0, <1>1, Ends DEF Begin, tape, Records
<1>2. ASSUME NEW c \in Call, Answer(c) PROVE TapeTypes'
  BY <1>0, <1>2, Ends DEF Answer, tape
<1>3. ASSUME NEW c \in Call, GivesUp(c) PROVE TapeTypes'
  BY <1>0, <1>3, Ends DEF GivesUp, tape
<1>4. ASSUME NEW c \in Call, KeepTimeline(c) PROVE TapeTypes'
  BY <1>0, <1>4, Ends DEF KeepTimeline, Settle, CallTypes
<1>5. ASSUME NEW c \in Call, TakeTimeline(c) PROVE TapeTypes'
  <2>1. reply[c] \in Recs
    BY <1>0, <1>5, Ends DEF Stopped, TakeTimeline, CallTypes
  <2> QED
    BY <1>0, <1>5, <2>1, Ends DEF TakeTimeline, Settle, CallTypes
<1>6. ASSUME NEW c \in Call, WriteManifest(c) PROVE TapeTypes'
  <2>1. reply[c] \in Recs /\ taken[c] \in -1 .. MaxRecs
    BY <1>0, <1>6, Ends DEF Stopped, WriteManifest, CallTypes
  <2>2. manifest' \in [Recs -> -1 .. MaxRecs]
    BY <1>0, <1>6, <2>1 DEF WriteManifest
  <2> QED
    BY <1>0, <1>6, <2>2 DEF WriteManifest, past
<1>7. ASSUME NEW e, ServeRecordStart(e) \/ ServeRecordStop(e) PROVE TapeTypes'
  BY <1>0, <1>7 DEF ServeRecordStart, ServeRecordStop, Serve, tape
<1>8. ASSUME NEW cause \in {"ended", "other"}, Strange(cause) PROVE TapeTypes'
  BY <1>0, <1>8 DEF Strange, tape
<1>9. EndsByItself \/ OtherStarts \/ OtherStops => TapeTypes'
  BY <1>8 DEF EndsByItself, OtherStarts, OtherStops
<1> QED
  BY <1>0, <1>1, <1>2, <1>3, <1>4, <1>5, <1>6, <1>7, <1>9, WhoRecords

Requests == [by : Call, what : Primitive, button : BOOLEAN, live : BOOLEAN]

LEMMA BackTypesStep ==
  ASSUME TypeOK, InPlace, Next
  PROVE  BackTypes'
<1>0. CallTypes /\ BackTypes /\ queue \in Seq(Requests)
  BY DEF TypeOK, BackTypes, Requests
<1>1. session' \in Sessions
  BY <1>0, SameSession DEF BackTypes
<1>2. queue' \in Seq(Requests)
  <2>1. ASSUME NEW c \in Call, Send(c) PROVE queue' \in Seq(Requests)
    <3>1. Head(todo[c]) \in Primitive /\ button[c] \in BOOLEAN
      BY <1>0, <2>1, Rest DEF Send, InPlace, CallTypes
    <3>2. [by |-> c, what |-> Head(todo[c]), button |-> button[c], live |-> TRUE] \in Requests
      BY <3>1 DEF Requests
    <3> QED
      BY <1>0, <2>1, <3>2 DEF Send
  <2>2. ASSUME NEW c \in Call, GivesUp(c) PROVE queue' \in Seq(Requests)
    <3>1. \A i \in DOMAIN queue : [queue[i] EXCEPT !.live = @ /\ queue[i].by # c] \in Requests
      <4> SUFFICES ASSUME NEW i \in DOMAIN queue
                   PROVE  [queue[i] EXCEPT !.live = @ /\ queue[i].by # c] \in Requests
        OBVIOUS
      <4> DEFINE b == queue[i].live /\ queue[i].by # c
      <4>1. \A e \in Requests : \A v \in BOOLEAN : [e EXCEPT !.live = v] \in Requests
        BY DEF Requests
      <4>2. queue[i] \in Requests
        BY <1>0
      <4>4. b \in BOOLEAN
        OBVIOUS
      <4>3. [queue[i] EXCEPT !.live = b] \in Requests
        <5> HIDE DEF b
        <5> QED
          BY <4>1, <4>2, <4>4
      <4> QED
        BY <4>3
    <3>2. DOMAIN queue = 1 .. Len(queue) /\ Len(queue) \in Nat
      BY <1>0
    <3> QED
      BY <2>2, <3>1, <3>2 DEF GivesUp
  <2>3. ASSUME Backend PROVE queue' \in Seq(Requests)
    <3>1. queue # << >> /\ queue' = Tail(queue)
      BY <2>3 DEF Backend, ServePlain, ServeButton, ServeRecordStart, ServeRecordStop, Serve,
         Refuse
    <3> QED
      BY <1>0, <3>1, Rest
  <2> QED
    BY <1>0, <2>1, <2>2, <2>3, WhoQueues
<1>3. held' \subseteq BOOLEAN /\ lastop' \in {"down", "up"} /\ suspect' \in BOOLEAN
  <2>1. ASSUME NEW c \in Call, NEW t \in session.tools, Begin(c, t)
        PROVE  held' = held /\ lastop' = lastop /\ suspect' \in BOOLEAN
    BY <1>0, <2>1 DEF Begin, BackTypes, server
  <2>2. ASSUME NEW c \in Call, Answer(c)
        PROVE  held' = held /\ lastop' = lastop /\ suspect' \in BOOLEAN
    BY <1>0, <2>2 DEF Answer, BackTypes, server
  <2>3. ASSUME NEW i \in DOMAIN queue, ServeButton(queue[i])
        PROVE  held' \subseteq BOOLEAN /\ lastop' \in {"down", "up"} /\ suspect' = suspect
    <3>1. queue[i].button \in BOOLEAN
      BY <1>0, <2>3, Served DEF ServeButton, Serve
    <3>2. held' \subseteq BOOLEAN
      BY <1>0, <2>3, <3>1 DEF ServeButton, BackTypes
    <3> QED
      BY <1>0, <2>3, <3>2 DEF ServeButton, BackTypes
  <2>4. ASSUME Flip PROVE held' = held /\ lastop' = lastop /\ suspect' \in BOOLEAN
    BY <1>0, <2>4 DEF Flip, BackTypes, server
  <2>5. ASSUME Pass PROVE held' = held /\ lastop' = lastop /\ suspect' = suspect
    BY <1>0, <2>5 DEF Pass, BackTypes, server, past
  <2> QED
    BY <1>0, <2>1, <2>2, <2>3, <2>4, <2>5, WhoPresses DEF BackTypes
<1> DEFINE InRange == taping' \in 0 .. MaxRecs /\ ended' \in 0 .. MaxRecs /\ made' \in 0 .. MaxRecs
<1>4. InRange
  <2> DEFINE Same == UNCHANGED <<taping, ended, made>>
  <2>1. ASSUME NEW c \in Call, NEW t \in session.tools, Begin(c, t) PROVE Same
    BY <2>1 DEF Begin, server
  <2>2. ASSUME NEW c \in Call,
               Answer(c) \/ GivesUp(c) \/ KeepTimeline(c) \/ TakeTimeline(c) \/ WriteManifest(c)
        PROVE  Same
    BY <2>2 DEF Answer, GivesUp, KeepTimeline, TakeTimeline, WriteManifest, server
  <2>3. ASSUME NEW e, ServeRecordStart(e) PROVE InRange
    BY <1>0, <2>3, Ends DEF ServeRecordStart, BackTypes
  <2>4. ASSUME NEW e, ServeRecordStop(e) PROVE InRange
    BY <1>0, <2>4, Ends DEF ServeRecordStop, BackTypes
  <2>5. ASSUME EndsByItself \/ OtherStarts \/ OtherStops PROVE InRange
    BY <1>0, <2>5, Ends DEF EndsByItself, OtherStarts, OtherStops, BackTypes
  <2> QED
    BY <1>0, <2>1, <2>2, <2>3, <2>4, <2>5, WhoRecords DEF BackTypes
<1>5. bounds' \in [{"fault", "flip"} -> Nat]
  <2> USE DEF vars, shared, hands, tape, calls, server, world, client, past
  <2>1. ASSUME NEW c \in Call, Step(c), ~GivesUp(c) PROVE bounds' = bounds
    BY <2>1 DEF Step, Begin, Answer, LookAtView, LookAgain, Tell, Mark, LookAtFocus,
       BelieveHand, AskHand, HandFound, DoctorAsks, DoctorFound, DoctorStores, Send,
       Shown, Focus, Carry, KeepTimeline, TakeTimeline, WriteManifest
  <2>2. ASSUME Backend PROVE bounds' = bounds \/ Fault
    BY <2>2 DEF Backend, ServePlain, ServeButton, ServeRecordStart, ServeRecordStop, Serve,
       Refuse
  <2>3. ASSUME World, ~Flip PROVE bounds' = bounds
    BY <2>3 DEF World, EndsByItself, OtherStarts, OtherStops, Strange, Pass
  <2>4. Fault \/ Flip \/ (\E c \in Call : GivesUp(c)) => bounds' \in [{"fault", "flip"} -> Nat]
    BY <1>0 DEF Fault, Flip, GivesUp, BackTypes
  <2> QED
    BY <1>0, <2>1, <2>2, <2>3, <2>4 DEF Next, BackTypes
<1> QED
  BY <1>1, <1>2, <1>3, <1>4, <1>5 DEF BackTypes, Requests

-----------------------------------------------------------------------------
(* How calls go on *)

\* InPlace, call by call.
LEMMA InPlaceEach ==
  /\ CallTypes /\ InPlace =>
       \A c \in Call : /\ IsPlace(pc[c], todo[c])
                       /\ pc[c] = "idle" => got[c] = None /\ used[c] = {}
                       /\ Records(todo[c]) \/ ~HasRecordStep(todo[c])
  /\ (\A c \in Call : /\ IsPlace(pc[c], todo[c])
                      /\ pc[c] = "idle" => got[c] = None /\ used[c] = {}
                      /\ Records(todo[c]) \/ ~HasRecordStep(todo[c])) => InPlace
<1>1. CallTypes => \A c \in Call : pc[c] \in Places
  BY DEF CallTypes, Places
<1> QED
  BY <1>1 DEF InPlace, IsPlace

\* A call goes elsewhere with the same primitive, or has finished it; no call
\* else moves.
Stays(c) ==
  /\ pc[c] # "idle" /\ todo' = todo
  /\ used' \in [Call -> SUBSET View] /\ \A d \in Call \ {c} : used'[d] = used[d]
  /\ \E p \in Places \ {"idle"} : Go(c, p) /\ IsPlace(p, todo[c])

Finishes(c) == pc[c] # "idle" /\ todo[c] # << >> /\ Finish(c)

\* A request that is answered or refused is one its call waits for.
LEMMA AnsweredCall ==
  ASSUME TypeOK, OneLive, NEW e, queue # << >>, e = Head(queue), e.live
  PROVE  e.by \in Call /\ pc[e.by] = "sent" /\ todo[e.by] # << >> /\ e.what = Head(todo[e.by])
<1>1. queue \in Seq(Requests)
  BY DEF TypeOK, BackTypes, Requests
<1>2. e = queue[1] /\ 1 \in DOMAIN queue /\ e \in Requests
  BY <1>1, Rest
<1> QED
  BY <1>2 DEF OneLive, Requests

LEMMA Kinds ==
  ASSUME TypeOK, InPlace, OneLive, Next
  PROVE  \/ \E c \in Call : \/ \E t \in session.tools : Begin(c, t)
                            \/ Answer(c) \/ Finishes(c) \/ Stays(c)
         \/ pc' = pc /\ todo' = todo /\ used' = used
<1> USE DEF vars, shared, hands, tape, calls, server, world, client, past
<1>0. CallTypes /\ BackTypes /\ ViewTypes
  BY DEF TypeOK
<1>1. ASSUME NEW c \in Call, Tell(c) \/ Shown(c) \/ Focus(c) \/ Carry(c) \/ KeepTimeline(c)
                             \/ WriteManifest(c)
      PROVE  Finishes(c)
  <2>1. pc[c] \in {"local", "back", "status"} /\ Finish(c)
    BY <1>1 DEF Tell, Shown, Focus, Carry, KeepTimeline, WriteManifest, At
  <2> QED
    BY <2>1 DEF Finishes, InPlace
<1>2. ASSUME NEW c \in Call, Mark(c) PROVE Finishes(c) \/ Stays(c)
  <2>1. pc[c] = "local" /\ todo[c] # << >>
    BY <1>2 DEF Mark, At, InPlace
  <2>2. CASE Finish(c)
    BY <2>1, <2>2 DEF Finishes
  <2>3. CASE Go(c, "failed") /\ UNCHANGED <<todo, used>>
    BY <1>0, <2>1, <2>3 DEF Stays, IsPlace, Places, CallTypes
  <2> QED
    BY <1>2, <2>2, <2>3 DEF Mark
<1>3. ASSUME NEW c \in Call, LookAtView(c) \/ LookAgain(c) PROVE Stays(c)
  <2>1. /\ pc[c] \in {"look", "again"} /\ todo[c] # << >> /\ todo' = todo
        /\ Head(todo[c]) \in Once \cup Twice
    BY <1>3 DEF LookAtView, LookAgain, InPlace
  <2>2. used' \in [Call -> SUBSET View] /\ \A d \in Call \ {c} : used'[d] = used[d]
    <3>1. view \in View /\ used \in [Call -> SUBSET View]
      BY <1>0 DEF ViewTypes, CallTypes
    <3>2. \E v \in SUBSET View : used' = [used EXCEPT ![c] = v]
      <4>1. {view} \in SUBSET View /\ used[c] \cup {view} \in SUBSET View
        BY <3>1
      <4> QED
        BY <1>3, <4>1 DEF LookAtView, LookAgain
    <3> QED
      BY <3>1, <3>2
  <2>3. IsPlace(Looked(c), todo[c]) /\ Looked(c) \in Places \ {"idle"}
    BY <2>1 DEF Looked, IsPlace, Places, Once, Twice, Handed
  <2>4. Head(todo[c]) \in Twice => IsPlace("again", todo[c]) /\ "again" \in Places \ {"idle"}
    BY <2>1 DEF IsPlace, Places
  <2>5. Go(c, Looked(c)) \/ (Go(c, "again") /\ Head(todo[c]) \in Twice)
    <3>1. CASE LookAtView(c)
      BY <3>1 DEF LookAtView, Go
    <3>2. CASE LookAgain(c)
      BY <3>2 DEF LookAgain
    <3> QED
      BY <1>3, <3>1, <3>2
  <2> QED
    BY <2>1, <2>2, <2>3, <2>4, <2>5 DEF Stays
<1>4. ASSUME NEW c \in Call,
             LookAtFocus(c) \/ BelieveHand(c) \/ AskHand(c) \/ HandFound(c) \/ DoctorAsks(c)
               \/ DoctorFound(c) \/ DoctorStores(c)
      PROVE  Stays(c)
  <2>1. /\ pc[c] \in {"local", "hand", "detect", "ask", "asking", "store"}
        /\ UNCHANGED <<todo, used>>
    BY <1>4 DEF LookAtFocus, BelieveHand, AskHand, HandFound, DoctorAsks, DoctorFound,
       DoctorStores, At
  <2>2. todo[c] # << >>
    BY <2>1 DEF InPlace
  <2>3. \/ Go(c, "send")
        \/ Go(c, "detect") /\ Head(todo[c]) \in Handed
        \/ (Go(c, "asking") \/ Go(c, "store")) /\ Head(todo[c]) = "doctor"
    BY <1>4 DEF LookAtFocus, BelieveHand, AskHand, HandFound, DoctorAsks, DoctorFound,
       DoctorStores, InPlace
  <2> QED
    BY <1>0, <2>1, <2>2, <2>3 DEF Stays, IsPlace, Places, CallTypes
<1>5. ASSUME NEW c \in Call, Send(c) \/ GivesUp(c) \/ TakeTimeline(c) PROVE Stays(c)
  <2>1. /\ pc[c] \in {"send", "sent", "back"} /\ todo' = todo
        /\ Go(c, "sent") \/ Go(c, "failed") \/ (Go(c, "status") /\ Head(todo[c]) = "recstop")
    BY <1>5 DEF Send, GivesUp, TakeTimeline, At
  <2>2. used' \in [Call -> SUBSET View] /\ \A d \in Call \ {c} : used'[d] = used[d]
    BY <1>0, <1>5 DEF Send, GivesUp, TakeTimeline, CallTypes
  <2>3. todo[c] # << >>
    BY <2>1 DEF InPlace
  <2> QED
    BY <2>1, <2>2, <2>3 DEF Stays, IsPlace, Places
<1>6. ASSUME NEW e, queue # << >>, e = Head(queue), UNCHANGED <<todo, used>>,
             IF e.live THEN Go(e.by, "back") \/ Go(e.by, "failed") ELSE pc' = pc
      PROVE  (\E c \in Call : Stays(c)) \/ (pc' = pc /\ todo' = todo /\ used' = used)
  <2>1. CASE e.live
    <3>1. e.by \in Call /\ pc[e.by] = "sent" /\ todo[e.by] # << >>
      BY <1>6, <2>1, AnsweredCall
    <3>2. Stays(e.by)
      BY <1>0, <1>6, <2>1, <3>1 DEF Stays, IsPlace, Places, CallTypes
    <3>3. \E c \in Call : Stays(c)
      <4>1. e.by \in Call
        BY <3>1
      <4> HIDE DEF Stays
      <4> QED
        BY <4>1, <3>2
    <3> QED
      BY <3>3
  <2> QED
    BY <1>6, <2>1
<1>7. Backend => (\E c \in Call : Stays(c)) \/ (pc' = pc /\ todo' = todo /\ used' = used)
  <2> SUFFICES ASSUME NEW e, Refuse(e) \/ (\E r : Serve(e, r))
               PROVE  (\E c \in Call : Stays(c)) \/ (pc' = pc /\ todo' = todo /\ used' = used)
    BY DEF Backend, ServePlain, ServeButton, ServeRecordStart, ServeRecordStop
  <2> QED
    BY <1>6 DEF Refuse, Serve
<1>8. World => pc' = pc /\ todo' = todo /\ used' = used
  BY DEF World, EndsByItself, OtherStarts, OtherStops, Strange, Flip, Pass
<1> QED
  BY <1>1, <1>2, <1>3, <1>4, <1>5, <1>7, <1>8 DEF Next, Step

LEMMA CallsStep ==
  ASSUME TypeOK, InPlace, OneLive, Next
  PROVE  CallTypes' /\ InPlace'
<1> DEFINE Placed == /\ pc' \in [Call -> Places] /\ todo' \in [Call -> Seq(Primitive)]
                     /\ used' \in [Call -> SUBSET View]
                     /\ \A d \in Call : /\ IsPlace(pc'[d], todo'[d])
                                        /\ pc'[d] = "idle" => got'[d] = None /\ used'[d] = {}
                                        /\ Records(todo'[d]) \/ ~HasRecordStep(todo'[d])
<1>0. /\ CallTypes /\ BackTypes /\ ViewTypes
      /\ \A d \in Call : /\ IsPlace(pc[d], todo[d])
                         /\ pc[d] = "idle" => got[d] = None /\ used[d] = {}
                         /\ Records(todo[d]) \/ ~HasRecordStep(todo[d])
  BY InPlaceEach DEF TypeOK
<1>1. \A d \in Call : (pc[d] = "idle" /\ pc'[d] = "idle") => got'[d] = got[d]
  BY <1>0, WhoShows DEF Begin, Answer, Shown, At, ViewTypes
<1>2. ASSUME NEW c \in Call, NEW t \in session.tools, Begin(c, t) PROVE Placed
  <2>1. /\ t \in Seq(Primitive) /\ IsPlace(Enter(t), t) /\ Enter(t) \in Places \ {"idle"}
        /\ Records(t) \/ ~HasRecordStep(t)
    BY <1>0, Tools DEF Places
  <2>2. pc' = [pc EXCEPT ![c] = Enter(t)] /\ todo' = [todo EXCEPT ![c] = t] /\ used' = used
    BY <1>2 DEF Begin, Go
  <2> QED
    BY <1>0, <1>1, <2>1, <2>2 DEF CallTypes, Places
<1>3. ASSUME NEW c \in Call, Answer(c) PROVE Placed
  <2>1. /\ pc' = [pc EXCEPT ![c] = "idle"] /\ todo' = [todo EXCEPT ![c] = << >>]
        /\ used' = [used EXCEPT ![c] = {}] /\ got' = [got EXCEPT ![c] = None]
    BY <1>3 DEF Answer, Go
  <2>2. IsPlace("idle", << >>)
    BY DEF IsPlace, Places
  <2> QED
    BY <1>0, <1>1, <2>1, <2>2, NothingLeft DEF CallTypes, ViewTypes, Places
<1>4. ASSUME NEW c \in Call, Finishes(c) PROVE Placed
  <2>1. /\ Tail(todo[c]) \in Seq(Primitive)
        /\ HasRecordStep(Tail(todo[c])) => HasRecordStep(todo[c])
        /\ Records(todo[c]) => Tail(todo[c]) = << >>
    BY <1>0, <1>4, Rest, RestDoesLess DEF Finishes, CallTypes
  <2>2. IsPlace(Enter(Tail(todo[c])), Tail(todo[c])) /\ Enter(Tail(todo[c])) \in Places \ {"idle"}
    BY <2>1, EnterInPlace DEF Places
  <2>3. Records(Tail(todo[c])) \/ ~HasRecordStep(Tail(todo[c]))
    BY <1>0, <2>1, NothingLeft
  <2>4. /\ pc' = [pc EXCEPT ![c] = Enter(Tail(todo[c]))]
        /\ todo' = [todo EXCEPT ![c] = Tail(todo[c])] /\ used' = [used EXCEPT ![c] = {}]
    BY <1>4 DEF Finishes, Finish, Go
  <2> QED
    BY <1>0, <1>1, <2>1, <2>2, <2>3, <2>4 DEF CallTypes, Places
<1>5. ASSUME NEW c \in Call, Stays(c) PROVE Placed
  <2>1. PICK p \in Places \ {"idle"} : pc' = [pc EXCEPT ![c] = p] /\ IsPlace(p, todo[c])
    BY <1>5 DEF Stays, Go
  <2> QED
    BY <1>0, <1>1, <1>5, <2>1 DEF Stays, CallTypes, Places
<1>6. pc' = pc /\ todo' = todo /\ used' = used => Placed
  BY <1>0, <1>1 DEF CallTypes, Places
<1>7. Placed
  BY <1>2, <1>3, <1>4, <1>5, <1>6, Kinds
<1>8. InPlace'
  BY <1>7 DEF InPlace, IsPlace
<1>9. /\ region' \in [Call -> Region] /\ button' \in [Call -> BOOLEAN]
      /\ reply' \in [Call -> 0 .. MaxRecs] /\ taken' \in [Call -> 0 .. MaxRecs]
  <2> USE DEF vars, shared, hands, tape, calls, server, world, client, past
  <2> DEFINE Same == UNCHANGED <<region, button, reply, taken>>
             Typed == /\ region' \in [Call -> Region] /\ button' \in [Call -> BOOLEAN]
                      /\ reply' \in [Call -> 0 .. MaxRecs] /\ taken' \in [Call -> 0 .. MaxRecs]
  <2>0. Setting \in BOOLEAN /\ focus \in Region /\ hand.val \in BOOLEAN /\ rec \in 0 .. MaxRecs
    BY <1>0 DEF TypeOK, HandTypes, TapeTypes, ViewTypes, Setting
  <2>1. ASSUME NEW c \in Call, Step(c), ~Answer(c), ~LookAtFocus(c), ~BelieveHand(c), ~HandFound(c),
               ~Send(c), ~Shown(c), ~TakeTimeline(c)
        PROVE  Same
    BY <2>1 DEF Step, Begin, LookAtView, LookAgain, Tell, Mark, AskHand, DoctorAsks, DoctorFound,
       DoctorStores, GivesUp, Focus, Carry, KeepTimeline, WriteManifest
  <2>2. ASSUME NEW c \in Call, Answer(c) \/ LookAtFocus(c) \/ Send(c) \/ Shown(c)
        PROVE  Typed
    <3> USE Ends DEF CallTypes
    <3>1. CASE Answer(c)
      BY <1>0, <3>1 DEF Answer
    <3>2. CASE LookAtFocus(c)
      BY <1>0, <2>0, <3>2 DEF LookAtFocus
    <3>3. CASE Send(c)
      BY <1>0, <3>3 DEF Send
    <3>4. CASE Shown(c)
      BY <1>0, <3>4 DEF Shown
    <3> QED
      BY <2>2, <3>1, <3>2, <3>3, <3>4
  <2>3. ASSUME NEW c \in Call, BelieveHand(c) \/ HandFound(c) PROVE Typed
    <3>1. found[c] \in BOOLEAN
      BY DEF TypeOK, HandTypes
    <3>2. \E h \in BOOLEAN : button' = [button EXCEPT ![c] = h]
      BY <2>0, <2>3, <3>1 DEF BelieveHand, HandFound
    <3>3. UNCHANGED <<region, reply, taken>>
      BY <2>3 DEF BelieveHand, HandFound
    <3> QED
      BY <1>0, <3>2, <3>3 DEF CallTypes
  <2>4. ASSUME NEW c \in Call, TakeTimeline(c) PROVE Typed
    BY <1>0, <2>0, <2>4 DEF TakeTimeline, CallTypes
  <2>5. Backend => Typed
    <3>1. ASSUME NEW e, NEW r \in 0 .. MaxRecs, Serve(e, r) PROVE Typed
      BY <1>0, <3>1 DEF Serve, CallTypes
    <3>2. ASSUME NEW e, ServePlain(e) \/ ServeButton(e) \/ ServeRecordStart(e) \/ ServeRecordStop(e)
          PROVE  \E r \in 0 .. MaxRecs : Serve(e, r)
      BY <1>0, <3>2, Ends DEF ServePlain, ServeButton, ServeRecordStart, ServeRecordStop, BackTypes
    <3>3. ASSUME NEW e, Refuse(e) PROVE Same
      BY <3>3 DEF Refuse
    <3> QED
      BY <1>0, <3>1, <3>2, <3>3 DEF Backend, CallTypes
  <2>6. World => Same
    BY DEF World, EndsByItself, OtherStarts, OtherStops, Strange, Flip, Pass
  <2> QED
    BY <1>0, <2>1, <2>2, <2>3, <2>4, <2>5, <2>6 DEF Next, CallTypes
<1> QED
  BY <1>7, <1>8, <1>9 DEF CallTypes, Places

\* A step of a call moves no other, and a call that waits for an answer can only
\* give up.
LEMMA OwnSteps ==
  ASSUME TypeOK, NEW c \in Call, Step(c)
  PROVE  /\ \A d \in Call \ {c} : pc'[d] = pc[d] /\ todo'[d] = todo[d] /\ button'[d] = button[d]
                                  /\ reply'[d] = reply[d] /\ taken'[d] = taken[d]
         /\ pc[c] = "sent" => GivesUp(c)
<1> USE DEF CallTypes, vars, shared, hands, tape, calls, server, world, client, past
<1>0. CallTypes
  BY DEF TypeOK
<1> DEFINE Alone == \A d \in Call \ {c} :
                      /\ pc'[d] = pc[d] /\ todo'[d] = todo[d] /\ button'[d] = button[d]
                      /\ reply'[d] = reply[d] /\ taken'[d] = taken[d]
<1>1. (\E t \in session.tools : Begin(c, t)) \/ Answer(c) => Alone /\ pc[c] # "sent"
  BY <1>0 DEF Begin, Answer, Go
<1>2. LookAtView(c) \/ LookAgain(c) \/ LookAtFocus(c) \/ Tell(c) \/ Mark(c) =>
        Alone /\ pc[c] # "sent"
  BY <1>0 DEF LookAtView, LookAgain, LookAtFocus, Tell, Mark, Finish, Go, At
<1>3. BelieveHand(c) \/ AskHand(c) \/ HandFound(c) => Alone /\ pc[c] # "sent"
  BY <1>0 DEF BelieveHand, AskHand, HandFound, Go
<1>4. DoctorAsks(c) \/ DoctorFound(c) \/ DoctorStores(c) \/ Send(c) => Alone /\ pc[c] # "sent"
  BY <1>0 DEF DoctorAsks, DoctorFound, DoctorStores, Send, Go
<1>5. GivesUp(c) => Alone
  BY <1>0 DEF GivesUp, Go
<1>6. Shown(c) \/ Focus(c) \/ Carry(c) \/ KeepTimeline(c) => Alone /\ pc[c] # "sent"
  BY <1>0 DEF Shown, Focus, Carry, KeepTimeline, Finish, Go, At
<1>7. TakeTimeline(c) \/ WriteManifest(c) => Alone /\ pc[c] # "sent"
  BY <1>0 DEF TakeTimeline, WriteManifest, Finish, Go, At
<1> QED
  BY <1>1, <1>2, <1>3, <1>4, <1>5, <1>6, <1>7 DEF Step

\* So does the back end, but for the call it answers; the world moves none.
LEMMA BackendMoves ==
  ASSUME TypeOK, OneLive, Backend
  PROVE  \E e : /\ queue # << >> /\ e = Head(queue) /\ queue' = Tail(queue)
                /\ UNCHANGED <<todo, button, taken>>
                /\ e.live => e.by \in Call /\ pc[e.by] = "sent" /\ pc'[e.by] \in {"back", "failed"}
                /\ \A d \in Call : (e.live /\ d = e.by) \/ (pc'[d] = pc[d] /\ reply'[d] = reply[d])
<1> USE DEF calls, Go
<1>0. CallTypes
  BY DEF TypeOK
<1>1. PICK e : Refuse(e) \/ \E r : Serve(e, r)
  BY DEF Backend, ServePlain, ServeButton, ServeRecordStart, ServeRecordStop
<1>2. queue # << >> /\ e = Head(queue) /\ queue' = Tail(queue) /\ UNCHANGED <<todo, button, taken>>
  BY <1>1 DEF Refuse, Serve
<1>3. e.live => e.by \in Call /\ pc[e.by] = "sent"
  BY <1>2, AnsweredCall
<1>4. e.live => pc'[e.by] \in {"back", "failed"}
  BY <1>0, <1>1, <1>3 DEF Refuse, Serve, CallTypes
<1>5. \A d \in Call : (e.live /\ d = e.by) \/ (pc'[d] = pc[d] /\ reply'[d] = reply[d])
  BY <1>0, <1>1, <1>3 DEF Refuse, Serve, CallTypes
<1> QED
  BY <1>2, <1>3, <1>4, <1>5

LEMMA WorldMoves ==
  ASSUME World
  PROVE  UNCHANGED <<pc, todo, used, region, button, reply, taken, queue>>
  BY DEF World, EndsByItself, OtherStarts, OtherStops, Strange, Flip, Pass, calls

\* The requests on the queue.
LEMMA Queued ==
  ASSUME TypeOK
  PROVE  /\ queue \in Seq(Requests)
         /\ \A i \in DOMAIN queue : /\ queue[i] \in Requests
                                    /\ queue[i].by \in Call /\ queue[i].what \in Primitive
                                    /\ queue[i].button \in BOOLEAN /\ queue[i].live \in BOOLEAN
         /\ DOMAIN queue = 1 .. Len(queue) /\ Len(queue) \in Nat
<1>1. queue \in Seq(Requests)
  BY DEF TypeOK, BackTypes, Requests
<1>2. \A i \in DOMAIN queue : queue[i] \in Requests
  BY <1>1
<1>3. \A r \in Requests : r.by \in Call /\ r.what \in Primitive /\ r.button \in BOOLEAN
                             /\ r.live \in BOOLEAN
  BY DEF Requests
<1> QED
  BY <1>1, <1>2, <1>3

\* A call that gives up leaves its request behind, for nobody.
LEMMA LeftBehind ==
  ASSUME TypeOK, NEW c \in Call, GivesUp(c)
  PROVE  /\ DOMAIN queue' = DOMAIN queue /\ Len(queue') = Len(queue)
         /\ \A i \in DOMAIN queue :
              /\ queue'[i].by = queue[i].by /\ queue'[i].what = queue[i].what
              /\ queue'[i].button = queue[i].button
              /\ queue'[i].live <=> queue[i].live /\ queue[i].by # c
<1>1. queue' = [i \in DOMAIN queue |-> [queue[i] EXCEPT !.live = @ /\ queue[i].by # c]]
  BY DEF GivesUp
<1>2. DOMAIN queue' = DOMAIN queue /\ Len(queue') = Len(queue)
  BY <1>1, Queued
<1>3. ASSUME NEW i \in DOMAIN queue
      PROVE  /\ queue'[i].by = queue[i].by /\ queue'[i].what = queue[i].what
             /\ queue'[i].button = queue[i].button
             /\ queue'[i].live <=> queue[i].live /\ queue[i].by # c
  <2>1. queue'[i] = [queue[i] EXCEPT !.live = @ /\ queue[i].by # c]
    BY <1>1
  <2>2. \A r \in Requests : \A v \in BOOLEAN :
          /\ [r EXCEPT !.live = v].by = r.by /\ [r EXCEPT !.live = v].what = r.what
          /\ [r EXCEPT !.live = v].button = r.button /\ [r EXCEPT !.live = v].live = v
    BY DEF Requests
  <2> DEFINE v == queue[i].live /\ queue[i].by # c
  <2>3. queue'[i] = [queue[i] EXCEPT !.live = v]
    BY <2>1
  <2>4. queue[i] \in Requests /\ v \in BOOLEAN
    BY Queued
  <2>5. /\ queue'[i].by = queue[i].by /\ queue'[i].what = queue[i].what
        /\ queue'[i].button = queue[i].button /\ queue'[i].live = v
    <3> HIDE DEF v
    <3> QED
      BY <2>2, <2>3, <2>4
  <2> QED
    BY <2>5
<1> QED
  BY <1>2, <1>3

\* A request is sent to the queue's end.
LEMMA AtTheEnd ==
  ASSUME TypeOK, NEW c \in Call, Send(c)
  PROVE  /\ DOMAIN queue' = 1 .. Len(queue) + 1
         /\ \A i \in 1 .. Len(queue) : i \in DOMAIN queue /\ queue'[i] = queue[i]
         /\ queue'[Len(queue) + 1].by = c /\ queue'[Len(queue) + 1].what = Head(todo[c])
         /\ queue'[Len(queue) + 1].button = button[c] /\ queue'[Len(queue) + 1].live
<1> DEFINE e == [by |-> c, what |-> Head(todo[c]), button |-> button[c], live |-> TRUE]
<1>1. queue' = Append(queue, e)
  BY DEF Send
<1>2. e.by = c /\ e.what = Head(todo[c]) /\ e.button = button[c] /\ e.live
  OBVIOUS
<1> HIDE DEF e
<1>3. /\ DOMAIN queue' = 1 .. Len(queue) + 1
      /\ \A i \in 1 .. Len(queue) : i \in DOMAIN queue /\ queue'[i] = queue[i]
      /\ queue'[Len(queue) + 1] = e
  BY <1>1, Queued
<1> QED
  BY <1>2, <1>3

\* The back end takes the request that came first.
LEMMA TheRest ==
  ASSUME TypeOK, queue # << >>, queue' = Tail(queue)
  PROVE  /\ Head(queue) = queue[1] /\ 1 \in DOMAIN queue
         /\ \A i \in DOMAIN queue' : /\ i \in Nat \ {0} /\ i + 1 \in DOMAIN queue
                                     /\ queue'[i] = queue[i + 1]
<1>1. queue \in Seq(Requests) /\ queue' \in Seq(Requests)
  BY Queued, Rest
<1>2. \A i \in DOMAIN queue' : i \in Nat \ {0}
  BY <1>1
<1> QED
  BY <1>1, <1>2, Rest

LEMMA OneLiveStep ==
  ASSUME TypeOK, InPlace, OneLive, Next
  PROVE  OneLive'
<1>0. /\ CallTypes /\ queue \in Seq(Requests)
      /\ \A i \in DOMAIN queue : queue[i].by \in Call
      /\ DOMAIN queue = 1 .. Len(queue) /\ Len(queue) \in Nat
  BY Queued DEF TypeOK
<1>1. ASSUME queue' = queue, \A d \in Call : pc[d] = "sent" => pc'[d] = "sent" /\ todo'[d] = todo[d]
      PROVE  OneLive'
  BY <1>0, <1>1 DEF OneLive
<1>2. ASSUME NEW c \in Call, Send(c) PROVE OneLive'
  <2>1. pc[c] = "send" /\ todo[c] # << >>
    BY <1>2 DEF Send, InPlace
  <2>2. \A i \in DOMAIN queue : queue[i].live => queue[i].by # c
    BY <2>1 DEF OneLive
  <2>3. pc' = [pc EXCEPT ![c] = "sent"] /\ todo' = todo
    BY <1>2 DEF Send, Go, calls
  <2> DEFINE n == Len(queue) + 1
  <2>4. /\ \A i \in DOMAIN queue' : (i \in DOMAIN queue /\ queue'[i] = queue[i]) \/ i = n
        /\ queue'[n].by = c /\ queue'[n].what = Head(todo[c])
    BY <1>0, <1>2, AtTheEnd
  <2> HIDE DEF n
  <2>5. ASSUME NEW i \in DOMAIN queue', queue'[i].live
        PROVE  /\ pc'[queue'[i].by] = "sent" /\ todo'[queue'[i].by] # << >>
               /\ queue'[i].what = Head(todo'[queue'[i].by])
    <3>1. CASE i = n
      BY <1>0, <2>1, <2>3, <2>4, <3>1 DEF CallTypes
    <3>2. CASE i \in DOMAIN queue /\ queue'[i] = queue[i]
      BY <1>0, <2>2, <2>3, <2>5, <3>2 DEF CallTypes, OneLive
    <3> QED
      BY <2>4, <3>1, <3>2
  <2>6. ASSUME NEW i \in DOMAIN queue', queue'[i].live, NEW j \in DOMAIN queue', queue'[j].live,
               queue'[j].by = queue'[i].by
        PROVE  i = j
    BY <2>2, <2>4, <2>6 DEF OneLive
  <2> QED
    BY <2>5, <2>6 DEF OneLive
<1>3. ASSUME NEW c \in Call, GivesUp(c) PROVE OneLive'
  <2>1. /\ DOMAIN queue' = DOMAIN queue
        /\ \A i \in DOMAIN queue : /\ queue'[i].by = queue[i].by /\ queue'[i].what = queue[i].what
                                   /\ queue'[i].live => queue[i].live /\ queue[i].by # c
    BY <1>3, LeftBehind
  <2>2. pc' = [pc EXCEPT ![c] = "failed"] /\ todo' = todo
    BY <1>3 DEF GivesUp, Go, calls
  <2> QED
    BY <1>0, <2>1, <2>2 DEF OneLive, CallTypes
<1>4. CASE Backend
  <2>1. PICK e : /\ queue # << >> /\ e = Head(queue) /\ queue' = Tail(queue) /\ todo' = todo
                 /\ \A d \in Call : (e.live /\ d = e.by) \/ pc'[d] = pc[d]
    BY <1>4, BackendMoves
  <2>2. /\ e = queue[1] /\ 1 \in DOMAIN queue
        /\ \A i \in DOMAIN queue' : /\ i \in Nat \ {0} /\ i + 1 \in DOMAIN queue
                                    /\ queue'[i] = queue[i + 1] /\ i + 1 # 1
    BY <2>1, TheRest
  <2>3. ASSUME NEW i \in DOMAIN queue', queue'[i].live
        PROVE  /\ pc'[queue'[i].by] = "sent" /\ todo'[queue'[i].by] # << >>
               /\ queue'[i].what = Head(todo'[queue'[i].by])
    BY <1>0, <2>1, <2>2, <2>3 DEF OneLive
  <2>4. ASSUME NEW i \in DOMAIN queue', queue'[i].live, NEW j \in DOMAIN queue', queue'[j].live,
               queue'[j].by = queue'[i].by
        PROVE  i = j
    BY <2>2, <2>4 DEF OneLive
  <2> QED
    BY <2>3, <2>4 DEF OneLive
<1>5. ASSUME NEW c \in Call, Step(c), queue' = queue, ~GivesUp(c) PROVE OneLive'
  BY <1>1, <1>5, OwnSteps
<1>6. CASE World
  BY <1>1, <1>6, WorldMoves
<1> QED
  BY <1>2, <1>3, <1>4, <1>5, <1>6, WhoQueues DEF Next

-----------------------------------------------------------------------------
(* The view *)

\* No call begins or ends, and what calls have yet to do gets no more.
Onward ==
  \A d \in Call :
    /\ pc'[d] = "idle" <=> pc[d] = "idle"
    /\ todo'[d] # todo[d] => ~Records(todo'[d])
    /\ TakesImage(todo'[d]) => TakesImage(todo[d])
    /\ Presses(todo'[d]) => Presses(todo[d])

LEMMA GoesOn ==
  ASSUME TypeOK, InPlace, OneLive, Next
  PROVE  Onward \/ \E c \in Call : Answer(c) \/ \E t \in session.tools : Begin(c, t)
<1>0. CallTypes /\ \A d \in Call : Records(todo[d]) \/ ~HasRecordStep(todo[d])
  BY DEF TypeOK, InPlace
<1>1. ASSUME NEW c \in Call, Finishes(c) PROVE Onward
  <2>1. todo[c] \in Seq(Primitive) /\ todo[c] # << >>
    BY <1>0, <1>1 DEF Finishes, CallTypes
  <2>2. /\ TakesImage(Tail(todo[c])) => TakesImage(todo[c])
        /\ Presses(Tail(todo[c])) => Presses(todo[c])
        /\ HasRecordStep(Tail(todo[c])) => HasRecordStep(todo[c])
        /\ Records(todo[c]) => Tail(todo[c]) = << >>
        /\ Tail(todo[c]) \in Seq(Primitive)
    BY <2>1, Rest, RestDoesLess
  <2>3. ~Records(Tail(todo[c]))
    <3>1. ASSUME Records(Tail(todo[c])) PROVE FALSE
      <4>1. Tail(todo[c]) # << >>
        BY <3>1, NothingLeft
      <4>2. HasRecordStep(Tail(todo[c]))
        BY <2>2, <3>1, <4>1, HeadDoes
      <4> QED
        BY <1>0, <2>2, <4>1, <4>2
    <3> QED
      BY <3>1
  <2>4. Enter(Tail(todo[c])) # "idle"
    BY <2>2, EnterInPlace
  <2>5. /\ pc' = [pc EXCEPT ![c] = Enter(Tail(todo[c]))] /\ pc[c] # "idle"
        /\ todo' = [todo EXCEPT ![c] = Tail(todo[c])]
    BY <1>1 DEF Finishes, Finish, Go
  <2> QED
    BY <1>0, <2>2, <2>3, <2>4, <2>5 DEF Onward, CallTypes
<1>2. ASSUME NEW c \in Call, Stays(c) PROVE Onward
  BY <1>0, <1>2 DEF Stays, Go, Onward, CallTypes
<1>3. pc' = pc /\ todo' = todo => Onward
  BY DEF Onward
<1> QED
  BY <1>1, <1>2, <1>3, Kinds

\* The views that calls read are the view there is.
LEMMA WhoLooks ==
  ASSUME TypeOK, InPlace, OneLive, Next
  PROVE  \A d \in Call : used'[d] \subseteq used[d] \cup {view}
<1> USE DEF vars, shared, hands, tape, calls, server, world, client, past
<1>0. CallTypes
  BY DEF TypeOK
<1>1. ASSUME NEW c \in Call, LookAtView(c) \/ LookAgain(c)
      PROVE  \A d \in Call : used'[d] \subseteq used[d] \cup {view}
  BY <1>0, <1>1 DEF LookAtView, LookAgain, CallTypes
<1>2. ASSUME NEW c \in Call, Answer(c) \/ Send(c) \/ Finish(c)
      PROVE  \A d \in Call : used'[d] \subseteq used[d]
  BY <1>0, <1>2 DEF Answer, Send, Finish, CallTypes
<1>3. ASSUME NEW c \in Call, Step(c), ~LookAtView(c), ~LookAgain(c), ~Answer(c), ~Send(c),
             ~Finish(c)
      PROVE  used' = used
  BY <1>3 DEF Step, Begin, Tell, Mark, LookAtFocus, BelieveHand, AskHand, HandFound, DoctorAsks,
     DoctorFound, DoctorStores, GivesUp, Shown, Focus, Carry, KeepTimeline, TakeTimeline,
     WriteManifest
<1>4. Backend => used' = used
  BY DEF Backend, ServePlain, ServeButton, ServeRecordStart, ServeRecordStop, Serve, Refuse
<1>5. World => used' = used
  BY WorldMoves
<1> QED
  BY <1>1, <1>2, <1>3, <1>4, <1>5 DEF Next

LEMMA ViewStep ==
  ASSUME ViewInv, Next
  PROVE  Crossed' /\ ViewIsOwn' /\ ViewIsLast' /\ ViewIsMeant' /\ CoordinatesHold' /\ ViewIsSeen'
<1> DEFINE AtIt(d) == pc[d] # "idle"
           Shoots(d) == AtIt(d) /\ (TakesImage(todo[d]) \/ got[d] # None)
<1>0. /\ TypeOK /\ InPlace /\ OneLive /\ CallTypes /\ ViewTypes /\ BackTypes
      /\ \A c \in Call : AtIt(c) \/ (todo[c] = << >> /\ got[c] = None /\ used[c] = {})
  BY DEF ViewInv, TypeOK, InPlace
<1>1. /\ \A c, d \in Call : AtIt(c) /\ Shoots(d) /\ c # d => crossed[c]
      /\ \A c \in Call : ~crossed[c] /\ got[c] # None => view = got[c]
      /\ ~muddled /\ (\A c \in Call : got[c] = None) => view = seen
      /\ \A c \in Call : AtIt(c) /\ ~crossed[c] /\ ~muddled => view = Meant(c)
      /\ \A c \in Call : ~crossed[c] /\ ~muddled => used[c] \subseteq {Meant(c)}
  BY DEF ViewInv, Crossed, ViewIsOwn, ViewIsLast, ViewIsMeant, CoordinatesHold, Busy, Imaging
<1> DEFINE New ==
      /\ \A c, d \in Call : (AtIt(c) /\ Shoots(d))' /\ c # d => crossed'[c]
      /\ \A c \in Call : ~crossed'[c] /\ got'[c] # None => view' = got'[c]
      /\ ~muddled' /\ (\A c \in Call : got'[c] = None) => view' = seen'
      /\ \A c \in Call : AtIt(c)' /\ ~crossed'[c] /\ ~muddled' => view' = Meant(c)'
      /\ \A c \in Call : ~crossed'[c] /\ ~muddled' => used'[c] \subseteq {Meant(c)'}
<1>2. CallTypes' /\ InPlace' /\ \A c \in Call : AtIt(c)' \/ (got'[c] = None /\ used'[c] = {})
  BY <1>0, CallsStep DEF InPlace
<1>3. \A d \in Call : used'[d] \subseteq used[d] \cup {view}
  BY <1>0, WhoLooks
<1>4. ASSUME NEW c \in Call, NEW t \in session.tools, Begin(c, t) PROVE New
  <2>1. /\ ~AtIt(c) /\ got[c] = None /\ UNCHANGED <<view, seen, got, muddled, used>>
        /\ pc' = [pc EXCEPT ![c] = Enter(t)] /\ todo' = [todo EXCEPT ![c] = t]
        /\ asked' = [asked EXCEPT ![c] = seen]
    BY <1>0, <1>4 DEF Begin, Go, shared
  <2>2. /\ \A d \in Call \ {c} : crossed'[d] <=> crossed[d] \/ (AtIt(d) /\ TakesImage(t))
        /\ crossed'[c] <=> \E d \in Call : Shoots(d)
    BY <1>4 DEF Begin, Imaging, Busy
  <2>3. \A d \in Call \ {c} : /\ AtIt(d)' = AtIt(d) /\ Shoots(d)' = Shoots(d)
                              /\ Meant(d)' = Meant(d) /\ used'[d] = used[d]
    BY <1>0, <2>1 DEF CallTypes, ViewTypes, Meant
  <2>4. Shoots(c)' => TakesImage(t)
    BY <1>0, <2>1 DEF CallTypes
  <2>5. Meant(c)' = seen /\ used'[c] = {}
    BY <1>0, <2>1 DEF ViewTypes, Meant
  <2>6. ~(\E d \in Call : Shoots(d)) => \A d \in Call : got[d] = None
    BY <1>0
  <2>7. \A a, d \in Call : (AtIt(a) /\ Shoots(d))' /\ a # d => crossed'[a]
    BY <1>1, <2>1, <2>2, <2>3, <2>4
  <2>8. \A a \in Call : ~crossed'[a] /\ got'[a] # None => view' = got'[a]
    BY <1>1, <2>1, <2>2
  <2>9. ~muddled' /\ (\A a \in Call : got'[a] = None) => view' = seen'
    BY <1>1, <2>1
  <2>10. ~crossed'[c] /\ ~muddled' => view' = Meant(c)'
    BY <1>1, <2>1, <2>2, <2>5, <2>6
  <2>11. \A a \in Call \ {c} : AtIt(a)' /\ ~crossed'[a] /\ ~muddled' => view' = Meant(a)'
    BY <1>1, <2>1, <2>2, <2>3
  <2>12. \A a \in Call : ~crossed'[a] /\ ~muddled' => used'[a] \subseteq {Meant(a)'}
    BY <1>1, <2>1, <2>2, <2>3, <2>5
  <2> HIDE DEF AtIt, Shoots
  <2> QED
    BY <2>7, <2>8, <2>9, <2>10, <2>11, <2>12
<1>5. ASSUME NEW c \in Call, Answer(c) PROVE New
  <2>1. /\ AtIt(c) /\ view' = view
        /\ pc' = [pc EXCEPT ![c] = "idle"] /\ todo' = [todo EXCEPT ![c] = << >>]
        /\ seen' = IF got[c] = None THEN seen ELSE got[c]
        /\ muddled' = IF got[c] = None THEN muddled ELSE crossed[c]
        /\ used' = [used EXCEPT ![c] = {}] /\ got' = [got EXCEPT ![c] = None]
        /\ asked' = [asked EXCEPT ![c] = Native] /\ crossed' = [crossed EXCEPT ![c] = FALSE]
    BY <1>5 DEF Answer, Go, shared
  <2>2. /\ ~AtIt(c)' /\ ~Shoots(c)' /\ got'[c] = None /\ used'[c] = {}
        /\ \A d \in Call \ {c} : /\ AtIt(d)' = AtIt(d) /\ Shoots(d)' = Shoots(d)
                                 /\ Meant(d)' = Meant(d) /\ used'[d] = used[d]
                                 /\ got'[d] = got[d] /\ crossed'[d] = crossed[d]
    BY <1>0, <2>1 DEF CallTypes, ViewTypes, Meant
  <2>3. \A d \in Call \ {c} : AtIt(d) /\ got[c] # None => crossed[d]
    BY <1>1, <2>1
  <2>4. \A d \in Call \ {c} : ~crossed'[d] /\ ~muddled' => used[d] \subseteq {Meant(d)}
    BY <1>0, <1>1, <2>1, <2>2, <2>3
  <2> QED
    BY <1>0, <1>1, <2>1, <2>2, <2>3, <2>4
<1>6. ASSUME NEW c \in Call, Shown(c), Onward PROVE New
  <2>1. pc[c] = "back" /\ Head(todo[c]) = "shot" /\ todo[c] # << >> /\ TakesImage(todo[c])
    BY <1>0, <1>6, HeadDoes DEF Shown, At, InPlace, CallTypes
  <2>2. /\ view' = region[c] /\ got' = [got EXCEPT ![c] = region[c]] /\ region[c] # None
        /\ UNCHANGED <<seen, asked, crossed, muddled>>
    BY <1>0, <1>6, Ends DEF Shown, CallTypes
  <2>3. used' = [used EXCEPT ![c] = {}]
    BY <1>6 DEF Shown, Finish
  <2>4. /\ got'[c] = view' /\ Meant(c)' = view' /\ used'[c] = {}
        /\ \A d \in Call \ {c} : /\ got'[d] = got[d] /\ Meant(d)' = Meant(d) /\ used'[d] = used[d]
    BY <1>0, <2>2, <2>3 DEF CallTypes, ViewTypes, Meant
  <2>5. \A d \in Call : /\ AtIt(d)' = AtIt(d)
                        /\ (Shoots(d)' => Shoots(d))
    BY <1>6, <2>1, <2>4 DEF Onward
  <2>6. \A d \in Call \ {c} : AtIt(d) => crossed[d]
    BY <1>1, <2>1
  <2>7. \A d \in Call \ {c} : ~AtIt(d) => got[d] = None /\ used[d] = {}
    BY <1>0
  <2> HIDE DEF AtIt, Shoots
  <2> QED
    BY <1>1, <2>2, <2>4, <2>5, <2>6, <2>7
<1>7. ASSUME UNCHANGED <<view, seen, asked, got, crossed, muddled>>, Onward PROVE New
  <2>1. \A d \in Call : AtIt(d)' = AtIt(d) /\ (Shoots(d)' => Shoots(d)) /\ Meant(d)' = Meant(d)
    BY <1>7 DEF Onward, Meant
  <2>2. \A d \in Call : ~crossed[d] /\ ~muddled => used'[d] \subseteq {Meant(d)}
    BY <1>1, <1>2, <1>3, <2>1
  <2> HIDE DEF AtIt, Shoots
  <2> QED
    BY <1>1, <1>7, <2>1, <2>2
<1>8. New
  BY <1>0, <1>4, <1>5, <1>6, <1>7, WhoShows, GoesOn
<1>9. Crossed' /\ ViewIsOwn' /\ ViewIsLast' /\ ViewIsMeant' /\ CoordinatesHold'
  BY <1>8 DEF Crossed, ViewIsOwn, ViewIsLast, ViewIsMeant, CoordinatesHold, Busy, Imaging
<1>10. ViewIsSeen'
  BY <1>2, <1>8 DEF ViewIsSeen, Busy
<1> QED
  BY <1>9, <1>10

-----------------------------------------------------------------------------
(* Handedness *)

Asks(c) ==
  AskHand(c) \/ HandFound(c) \/ DoctorAsks(c) \/ DoctorFound(c) \/ DoctorStores(c)

\* No other step begins or ends a question.
LEMMA AsksOn ==
  ASSUME TypeOK, InPlace, OneLive, Next, ~\E c \in Call : Asks(c)
  PROVE  \A d \in Call : pc'[d] # pc[d] =>
           pc[d] \notin {"detect", "asking", "store"} /\ pc'[d] \notin {"detect", "asking", "store"}
<1> DEFINE Q == {"detect", "asking", "store"}
           On == \A d \in Call : pc'[d] # pc[d] => pc[d] \notin Q /\ pc'[d] \notin Q
<1> USE DEF vars, shared, hands, tape, calls, server, world, client, past
<1>0. CallTypes
  BY DEF TypeOK
<1>1. ASSUME NEW c \in Call, NEW p, pc[c] \notin Q, p \notin Q, Go(c, p) PROVE On
  BY <1>0, <1>1 DEF Go, CallTypes
<1>2. ASSUME NEW c \in Call, NEW t \in session.tools, Begin(c, t) PROVE On
  <2>1. Enter(t) \notin Q
    BY Tools DEF TypeOK
  <2> QED
    BY <1>1, <1>2, <2>1 DEF Begin
<1>3. ASSUME NEW c \in Call, pc[c] \in {"local", "back", "status"}, Finish(c) PROVE On
  <2>1. Tail(todo[c]) \in Seq(Primitive)
    BY <1>0, <1>3, Rest DEF InPlace, CallTypes
  <2>2. Enter(Tail(todo[c])) \notin Q
    BY <2>1, EnterInPlace
  <2> QED
    BY <1>1, <1>3, <2>2 DEF Finish
<1>4. ASSUME NEW c \in Call, Tell(c) \/ Shown(c) \/ Focus(c) \/ Carry(c) \/ KeepTimeline(c)
                             \/ WriteManifest(c)
      PROVE  On
  BY <1>3, <1>4 DEF Tell, Shown, Focus, Carry, KeepTimeline, WriteManifest, At
<1>5. ASSUME NEW c \in Call, Mark(c) PROVE On
  BY <1>1, <1>3, <1>5 DEF Mark, At
<1>6. ASSUME NEW c \in Call, LookAtView(c) PROVE On
  <2>1. Looked(c) \notin Q
    BY DEF Looked
  <2> DEFINE p == IF Head(todo[c]) \in Twice THEN "again" ELSE Looked(c)
  <2>2. Go(c, p) /\ p \notin Q /\ pc[c] \notin Q
    BY <1>6, <2>1 DEF LookAtView
  <2> HIDE DEF p
  <2> QED
    BY <1>1, <2>2
<1>7. ASSUME NEW c \in Call, LookAgain(c) PROVE On
  <2>1. Looked(c) \notin Q
    BY DEF Looked
  <2> QED
    BY <1>1, <1>7, <2>1 DEF LookAgain
<1>8. ASSUME NEW c \in Call, Answer(c) \/ LookAtFocus(c) \/ BelieveHand(c) \/ Send(c)
                             \/ GivesUp(c) \/ TakeTimeline(c)
      PROVE  On
  BY <1>1, <1>8 DEF Answer, LookAtFocus, BelieveHand, Send, GivesUp, TakeTimeline, At
<1>9. CASE Backend
  BY <1>9, BackendMoves
<1>10. CASE World
  BY <1>10, WorldMoves
<1> QED
  BY <1>2, <1>4, <1>5, <1>6, <1>7, <1>8, <1>9, <1>10 DEF Next, Step, Asks

LEMMA HandAgeHolds ==
  ASSUME TypeOK, BelievedSince
  PROVE  HandAge
<1>1. hand.age \in 0 .. TTL /\ calm \in 0 .. Limit /\ TTL \in Nat /\ Slow \in Nat
  BY Ends DEF TypeOK, HandTypes
<1> QED
  BY <1>1 DEF HandAge, BelievedSince, Limit

LEMMA AskStep ==
  ASSUME TypeOK, TypeOK', InPlace, OneLive, Next,
         HolderAsks, AskedSince, BelievedSince, StoredSince
  PROVE  HolderAsks' /\ AskedSince' /\ BelievedSince' /\ StoredSince'
<1> DEFINE New == HolderAsks' /\ AskedSince' /\ BelievedSince' /\ StoredSince'
<1> USE DEF HolderAsks, AskedSince, BelievedSince, StoredSince
<1>0. /\ CallTypes /\ HandTypes /\ None \notin Call /\ TTL \in Nat /\ Slow \in Nat /\ TTL > 0
      /\ hand.age \in 0 .. TTL /\ calm \in 0 .. Limit /\ Limit = TTL + 2 * Slow
      /\ \A c \in Call : took[c] \in 0 .. Slow
  BY Ends DEF TypeOK, HandTypes, Limit
<1>1. ASSUME UNCHANGED <<hand, handlock, found, took, swapped, calm>>, ~\E c \in Call : Asks(c)
      PROVE  New
  <2>1. Setting' = Setting
    BY <1>1, SameSession DEF Setting
  <2>2. \A d \in Call : pc'[d] # pc[d] =>
          pc[d] \notin {"detect", "asking", "store"} /\ pc'[d] \notin {"detect", "asking", "store"}
    BY <1>1, AsksOn
  <2> HIDE DEF Setting
  <2>3. HolderAsks'
    BY <1>0, <1>1, <2>2
  <2>4. AskedSince' /\ StoredSince'
    BY <1>0, <1>1, <2>1, <2>2
  <2> QED
    BY <1>1, <2>1, <2>3, <2>4
<1>2. ASSUME NEW c \in Call, AskHand(c) PROVE New
  <2>1. /\ pc[c] = "hand" /\ handlock = None /\ hand.age = TTL
        /\ handlock' = c /\ pc' = [pc EXCEPT ![c] = "detect"]
        /\ found' = [found EXCEPT ![c] = Setting] /\ took' = [took EXCEPT ![c] = 0]
        /\ UNCHANGED <<hand, calm>> /\ Setting' = Setting
    BY <1>2 DEF AskHand, Go, Setting, world
  <2> HIDE DEF Setting
  <2>2. HolderAsks' /\ BelievedSince'
    BY <1>0, <2>1 DEF CallTypes
  <2>3. AskedSince' /\ StoredSince'
    BY <1>0, <2>1 DEF CallTypes, HandTypes
  <2> QED
    BY <2>2, <2>3
<1>3. ASSUME NEW c \in Call, HandFound(c) PROVE New
  <2>1. /\ pc[c] = "detect" /\ handlock' = None /\ pc' = [pc EXCEPT ![c] = "send"]
        /\ found' = [found EXCEPT ![c] = FALSE] /\ took' = [took EXCEPT ![c] = 0]
        /\ calm' = calm /\ Setting' = Setting
    BY <1>3 DEF HandFound, Go, Setting, world
  <2>2. PICK h \in {found[c], Setting} : hand' = [val |-> h, age |-> 0]
    BY <1>3 DEF HandFound
  <2>3. hand'.val = h /\ hand'.age = 0 /\ handlock = c
    BY <2>1, <2>2
  <2> HIDE DEF Setting
  <2>4. HolderAsks'
    BY <1>0, <2>1, <2>3 DEF CallTypes
  <2>5. BelievedSince'
    BY <1>0, <2>1, <2>2, <2>3
  <2>6. \A d \in Call : d # c => pc'[d] = pc[d] /\ found'[d] = found[d] /\ took'[d] = took[d]
    BY <1>0, <2>1 DEF CallTypes, HandTypes
  <2>7. pc'[c] = "send" /\ Slow + took[c] <= 2 * Slow
    BY <1>0, <2>1 DEF CallTypes
  <2>8. AskedSince'
    BY <1>0, <2>1, <2>6, <2>7
  <2>9. ASSUME NEW d \in Call, pc'[d] = "store", found'[d] # Setting PROVE calm <= 2 * Slow
    <3>1. pc[d] = "store" /\ found[d] # Setting
      BY <2>6, <2>7, <2>9
    <3>2. calm <= Slow + took[c]
      BY <1>0, <2>3, <3>1
    <3> QED
      BY <1>0, <2>7, <3>2
  <2>10. hand'.age # TTL /\ handlock' = None /\ calm' = calm /\ Setting' = Setting
    BY <1>0, <2>1, <2>3
  <2>11. StoredSince'
    BY <2>9, <2>10
  <2> QED
    BY <2>4, <2>5, <2>8, <2>11
<1>4. ASSUME NEW c \in Call, DoctorAsks(c) PROVE New
  <2>1. /\ pc[c] = "ask" /\ pc' = [pc EXCEPT ![c] = "asking"]
        /\ found' = [found EXCEPT ![c] = Setting] /\ took' = [took EXCEPT ![c] = 0]
        /\ UNCHANGED <<hand, handlock, calm>> /\ Setting' = Setting
    BY <1>4 DEF DoctorAsks, Go, Setting, world
  <2> HIDE DEF Setting
  <2>2. HolderAsks' /\ BelievedSince'
    BY <1>0, <2>1 DEF CallTypes
  <2>3. AskedSince' /\ StoredSince'
    BY <1>0, <2>1 DEF CallTypes, HandTypes
  <2> QED
    BY <2>2, <2>3
<1>5. ASSUME NEW c \in Call, DoctorFound(c) PROVE New
  <2>1. /\ pc[c] = "asking" /\ pc' = [pc EXCEPT ![c] = "store"]
        /\ \E h \in {found[c], Setting} : found' = [found EXCEPT ![c] = h]
        /\ UNCHANGED <<hand, handlock, took, calm>> /\ Setting' = Setting
    BY <1>5 DEF DoctorFound, Go, Setting, world
  <2> HIDE DEF Setting
  <2>2. HolderAsks' /\ BelievedSince'
    BY <1>0, <2>1 DEF CallTypes
  <2>3. AskedSince'
    BY <1>0, <2>1 DEF CallTypes, HandTypes
  <2>4. found'[c] # Setting => calm <= Slow
    BY <1>0, <2>1 DEF HandTypes
  <2>5. handlock # None => took[handlock] \in 0 .. Slow /\ handlock # c
    BY <1>0, <2>1
  <2>6. StoredSince'
    BY <1>0, <2>1, <2>4, <2>5 DEF CallTypes, HandTypes
  <2> QED
    BY <2>2, <2>3, <2>6
<1>6. ASSUME NEW c \in Call, DoctorStores(c) PROVE New
  <2>1. /\ pc[c] = "store" /\ handlock = None /\ pc' = [pc EXCEPT ![c] = "send"]
        /\ hand' = [val |-> found[c], age |-> 0]
        /\ found' = [found EXCEPT ![c] = FALSE] /\ took' = [took EXCEPT ![c] = 0]
        /\ UNCHANGED <<handlock, calm>> /\ Setting' = Setting
    BY <1>6 DEF DoctorStores, Go, Setting, world
  <2>2. hand'.val = found[c] /\ hand'.age = 0
    BY <2>1
  <2> HIDE DEF Setting
  <2>3. HolderAsks'
    BY <1>0, <2>1 DEF CallTypes
  <2>4. BelievedSince'
    BY <1>0, <2>1, <2>2
  <2>5. \A d \in Call : d # c => pc'[d] = pc[d] /\ found'[d] = found[d] /\ took'[d] = took[d]
    BY <1>0, <2>1 DEF CallTypes, HandTypes
  <2>6. pc'[c] = "send" /\ Slow <= 2 * Slow
    BY <1>0, <2>1 DEF CallTypes
  <2>7. AskedSince'
    BY <1>0, <2>1, <2>5, <2>6
  <2>8. ASSUME NEW d \in Call, pc'[d] = "store", found'[d] # Setting PROVE calm <= 2 * Slow
    <3>1. pc[d] = "store" /\ found[d] # Setting
      BY <2>5, <2>6, <2>8
    <3> QED
      BY <1>0, <2>1, <2>6, <3>1
  <2>9. hand'.age # TTL /\ handlock' = None /\ calm' = calm /\ Setting' = Setting
    BY <1>0, <2>1, <2>2
  <2>10. StoredSince'
    BY <2>8, <2>9
  <2> QED
    BY <2>3, <2>4, <2>7, <2>10
<1>7. CASE Flip
  <2>1. calm' = 0 /\ UNCHANGED <<pc, hand, handlock, found, took>>
    BY <1>7 DEF Flip, hands
  <2> HIDE DEF Setting
  <2>2. handlock # None => took[handlock] \in 0 .. Slow
    BY <1>0
  <2> QED
    BY <1>0, <2>1, <2>2
<1>8. CASE Pass
  <2>1. /\ \A c \in Call : ~(pc[c] = "store" /\ handlock = None)
        /\ took' = [c \in Call |-> IF pc[c] \in {"detect", "asking"} THEN took[c] + 1 ELSE took[c]]
        /\ hand' = [hand EXCEPT !.age = IF @ < TTL THEN @ + 1 ELSE TTL]
        /\ calm' = IF calm < Limit THEN calm + 1 ELSE Limit
        /\ UNCHANGED <<pc, handlock, found>> /\ Setting' = Setting
    BY <1>8 DEF Pass, Setting
  <2> HIDE DEF Setting
  <2>2. calm' <= calm + 1 /\ calm \in Int
    BY <1>0, <2>1
  <2>3. hand'.val = hand.val /\ hand'.age = IF hand.age < TTL THEN hand.age + 1 ELSE TTL
    BY <2>1 DEF HandTypes, TypeOK
  <2>4. BelievedSince'
    BY <1>0, <2>1, <2>2, <2>3
  <2>5. HolderAsks' /\ AskedSince'
    BY <1>0, <2>1, <2>2
  <2>6. StoredSince'
    <3>1. handlock # None => took'[handlock] = took[handlock] + 1 /\ took[handlock] \in Int
      BY <1>0, <2>1
    <3> QED
      BY <1>0, <2>1, <2>2, <3>1
  <2> QED
    BY <2>4, <2>5, <2>6
<1> QED
  BY <1>1, <1>2, <1>3, <1>4, <1>5, <1>6, <1>7, <1>8, WhoAsks DEF Asks

\* A call that is about to press or let go has chosen its button just now or
\* before.
LEMMA WhoSends ==
  ASSUME TypeOK, InPlace, OneLive, Next, NEW d \in Call, At(d, "send", {"down", "up"})'
  PROVE  \/ At(d, "send", {"down", "up"}) /\ button'[d] = button[d]
         \/ BelieveHand(d) \/ HandFound(d)
<1> DEFINE Goal == (At(d, "send", {"down", "up"}) /\ button'[d] = button[d])
                     \/ BelieveHand(d) \/ HandFound(d)
<1> USE DEF vars, shared, hands, tape, calls, server, world, client, past
<1>0. CallTypes /\ pc'[d] = "send" /\ Head(todo'[d]) \in {"down", "up"}
  BY DEF TypeOK, At
<1>1. ASSUME pc'[d] = pc[d], todo'[d] = todo[d], button'[d] = button[d] PROVE Goal
  BY <1>0, <1>1 DEF At
<1>2. ASSUME NEW t \in session.tools, Begin(d, t) PROVE FALSE
  <2>1. Enter(t) = "send" /\ Head(t) \in {"down", "up"}
    BY <1>0, <1>2 DEF Begin, Go, CallTypes
  <2> QED
    BY <2>1, Tools, EnterInPlace DEF TypeOK, Handed
<1>3. ASSUME pc[d] \in {"local", "back", "status"}, Finish(d) PROVE FALSE
  <2>1. Tail(todo[d]) \in Seq(Primitive)
    BY <1>0, <1>3, Rest DEF InPlace, CallTypes
  <2>2. Enter(Tail(todo[d])) = "send" /\ Head(Tail(todo[d])) \in {"down", "up"}
    BY <1>0, <1>3 DEF Finish, Go, CallTypes
  <2> QED
    BY <2>1, <2>2, EnterInPlace DEF Handed
<1>4. ASSUME Tell(d) \/ Shown(d) \/ Focus(d) \/ Carry(d) \/ KeepTimeline(d) \/ WriteManifest(d)
      PROVE  FALSE
  BY <1>3, <1>4 DEF Tell, Shown, Focus, Carry, KeepTimeline, WriteManifest, At
<1>5. ASSUME Mark(d) PROVE FALSE
  <2>1. ~Go(d, "failed")
    BY <1>0 DEF Go, CallTypes
  <2> QED
    BY <1>3, <1>5, <2>1 DEF Mark, At
<1>6. ASSUME LookAtView(d) \/ LookAgain(d) \/ LookAtFocus(d) \/ DoctorStores(d) PROVE FALSE
  <2>1. todo'[d] = todo[d]
    BY <1>6 DEF LookAtView, LookAgain, LookAtFocus, DoctorStores
  <2>2. Head(todo[d]) \in Once \cup Twice \cup {"shot", "doctor"}
    BY <1>6 DEF LookAtView, LookAgain, LookAtFocus, DoctorStores, At, InPlace
  <2> QED
    BY <1>0, <2>1, <2>2 DEF Once, Twice
<1>7. ASSUME Answer(d) \/ AskHand(d) \/ DoctorAsks(d) \/ DoctorFound(d) \/ Send(d) \/ GivesUp(d)
               \/ TakeTimeline(d)
      PROVE  FALSE
  <2>1. Go(d, "idle") \/ Go(d, "detect") \/ Go(d, "asking") \/ Go(d, "store") \/ Go(d, "sent")
          \/ Go(d, "failed") \/ Go(d, "status")
    BY <1>7 DEF Answer, AskHand, DoctorAsks, DoctorFound, Send, GivesUp, TakeTimeline
  <2> QED
    BY <1>0, <2>1 DEF Go, CallTypes
<1>8. Step(d) => Goal
  BY <1>2, <1>4, <1>5, <1>6, <1>7 DEF Step
<1>9. ASSUME NEW c \in Call, c # d, Step(c) PROVE Goal
  BY <1>1, <1>9, OwnSteps
<1>10. Backend => Goal
  BY <1>0, <1>1, BackendMoves
<1>11. World => Goal
  BY <1>1, WorldMoves
<1> QED
  BY <1>8, <1>9, <1>10, <1>11 DEF Next

\* Every request on the queue was there before, or its call has just sent it.
LEMMA WhoQueued ==
  ASSUME TypeOK, Next, NEW i \in DOMAIN queue'
  PROVE  \/ \E j \in DOMAIN queue : /\ queue'[i].what = queue[j].what
                                    /\ queue'[i].button = queue[j].button
         \/ \E c \in Call : /\ At(c, "send", {queue'[i].what})
                            /\ queue'[i].button = button[c]
<1> DEFINE Goal == \/ \E j \in DOMAIN queue : /\ queue'[i].what = queue[j].what
                                              /\ queue'[i].button = queue[j].button
                   \/ \E c \in Call : /\ At(c, "send", {queue'[i].what})
                                      /\ queue'[i].button = button[c]
<1>1. queue' = queue => Goal
  OBVIOUS
<1>2. ASSUME NEW c \in Call, Send(c) PROVE Goal
  <2>1. i \in 1 .. Len(queue) \/ i = Len(queue) + 1
    BY <1>2, AtTheEnd, Queued
  <2>2. CASE i \in 1 .. Len(queue)
    BY <1>2, <2>2, AtTheEnd
  <2>3. CASE i = Len(queue) + 1
    <3>1. pc[c] = "send"
      BY <1>2 DEF Send
    <3> QED
      BY <1>2, <2>3, <3>1, AtTheEnd DEF At
  <2> QED
    BY <2>1, <2>2, <2>3
<1>3. ASSUME NEW c \in Call, GivesUp(c) PROVE Goal
  BY <1>3, LeftBehind
<1>4. CASE Backend
  <2>1. queue # << >> /\ queue' = Tail(queue)
    BY <1>4 DEF Backend, ServePlain, ServeButton, ServeRecordStart, ServeRecordStop, Serve, Refuse
  <2> QED
    BY <2>1, TheRest
<1> QED
  BY <1>1, <1>2, <1>3, <1>4, WhoQueues

\* Nothing is pressed that was not about to be.
LEMMA PressingOn ==
  ASSUME TypeOK, InPlace, Next, Onward,
         held' = held \/ \E i \in DOMAIN queue : ServeButton(queue[i]),
         Pressing(Call)'
  PROVE  Pressing(Call)
<1>1. CASE held' # {}
  <2>1. CASE held' = held
    BY <1>1, <2>1 DEF Pressing
  <2>2. ASSUME NEW i \in DOMAIN queue, ServeButton(queue[i]) PROVE Pressing(Call)
    <3>1. held # {} \/ queue[i].what = "down"
      BY <1>1, <2>2 DEF ServeButton
    <3> QED
      BY <3>1 DEF Pressing
  <2> QED
    BY <2>1, <2>2
<1>2. ASSUME NEW c \in Call, Presses(todo'[c]) PROVE Pressing(Call)
  BY <1>2 DEF Pressing, Onward
<1>3. ASSUME NEW i \in DOMAIN queue', queue'[i].what \in {"down", "up"} PROVE Pressing(Call)
  <2>1. CASE \E j \in DOMAIN queue : queue'[i].what = queue[j].what
    BY <1>3, <2>1 DEF Pressing
  <2>2. ASSUME NEW c \in Call, At(c, "send", {queue'[i].what}) PROVE Pressing(Call)
    <3>1. todo[c] \in Seq(Primitive) /\ todo[c] # << >> /\ Head(todo[c]) \in {"down", "up"}
      BY <1>3, <2>2 DEF At, InPlace, TypeOK, CallTypes
    <3> QED
      BY <3>1, HeadDoes DEF Pressing
  <2> QED
    BY <2>1, <2>2, WhoQueued
<1> QED
  BY <1>1, <1>2, <1>3 DEF Pressing

\* Whoever has the button of what it is about to press has that of the setting,
\* which has been so for long enough.
LEMMA ChosenAlike ==
  ASSUME TypeOK, InPlace, OneLive, Next, AskedSince, BelievedSince, PressedCalm, PressedAlike,
         ~suspect, Setting' = Setting, NEW d \in Call, At(d, "send", {"down", "up"})'
  PROVE  button'[d] = Setting
<1>1. CASE At(d, "send", {"down", "up"}) /\ button'[d] = button[d]
  BY <1>1 DEF PressedAlike
<1>2. CASE BelieveHand(d) \/ HandFound(d)
  <2>1. todo'[d] = todo[d] /\ pc[d] \in {"hand", "detect"}
    BY <1>2 DEF BelieveHand, HandFound, calls
  <2>2. todo[d] \in Seq(Primitive) /\ todo[d] # << >> /\ Head(todo[d]) \in {"down", "up"}
    BY <2>1 DEF InPlace, TypeOK, CallTypes, At
  <2>3. calm = Limit
    BY <2>2, HeadDoes DEF PressedCalm, Pressing
  <2>4. calm \in Nat /\ Limit \in Nat /\ Slow < Limit /\ took[d] \in 0 .. Slow
    BY <2>3, Ends DEF TypeOK, HandTypes
  <2>5. CASE BelieveHand(d)
    <3>1. hand.age < TTL /\ button'[d] = hand.val
      BY <2>5 DEF BelieveHand, TypeOK, CallTypes
    <3>2. hand.val = Setting
      BY <2>3, <2>4, <3>1, HandAgeHolds DEF HandAge
    <3> QED
      BY <3>1, <3>2
  <2>6. CASE HandFound(d)
    <3>1. pc[d] = "detect" /\ button'[d] \in {found[d], Setting}
      BY <2>6 DEF HandFound, TypeOK, CallTypes
    <3>2. found[d] = Setting
      BY <2>3, <2>4, <3>1, Ends DEF AskedSince
    <3> QED
      BY <3>1, <3>2
  <2> QED
    BY <1>2, <2>5, <2>6
<1> QED
  BY <1>1, <1>2, WhoSends

LEMMA PressStep ==
  ASSUME TypeOK, TypeOK', InPlace, OneLive, Next,
         AskedSince, BelievedSince, PressedCalm, PressedAlike, UpReleases
  PROVE  PressedCalm' /\ PressedAlike' /\ UpReleases'
<1> DEFINE New == PressedCalm' /\ PressedAlike' /\ UpReleases'
           Unflipped == session' = session /\ swapped' = swapped
<1>0. CallTypes /\ HandTypes /\ calm \in Nat /\ Limit \in Nat
  BY Ends DEF TypeOK, HandTypes
<1>1. Unflipped => Setting' = Setting
  BY DEF Setting
<1>2. ASSUME Unflipped, ~suspect
      PROVE  /\ \A i \in DOMAIN queue' : queue'[i].what \in {"down", "up"} =>
                    queue'[i].button = Setting
             /\ \A d \in Call : At(d, "send", {"down", "up"})' => button'[d] = Setting
  <2>1. \A d \in Call : At(d, "send", {"down", "up"})' => button'[d] = Setting
    BY <1>1, <1>2, ChosenAlike
  <2>2. ASSUME NEW i \in DOMAIN queue', queue'[i].what \in {"down", "up"}
        PROVE  queue'[i].button = Setting
    BY <1>2, <2>2, WhoQueued DEF PressedAlike, At
  <2> QED
    BY <2>1, <2>2
<1>3. ASSUME Onward, UNCHANGED <<held, lastop, suspect, swapped, calm>> PROVE New
  <2>1. Unflipped
    BY <1>3, SameSession
  <2>2. PressedCalm'
    BY <1>3, PressingOn DEF PressedCalm
  <2>3. PressedAlike'
    BY <1>1, <1>2, <1>3, <2>1 DEF PressedAlike
  <2> QED
    BY <1>3, <2>2, <2>3 DEF UpReleases
<1>4. ASSUME NEW c \in Call, NEW t \in session.tools, Begin(c, t) PROVE New
  <2>1. /\ Unflipped /\ UNCHANGED <<held, lastop, calm, queue>>
        /\ todo' = [todo EXCEPT ![c] = t]
        /\ suspect' = (suspect \/ (Presses(t) /\ calm < Limit))
    BY <1>4, SameSession DEF Begin, server, world
  <2>2. ASSUME ~suspect', Pressing(Call)' PROVE calm = Limit
    <3>1. Pressing(Call) \/ Presses(t)
      BY <1>0, <2>1, <2>2 DEF Pressing, CallTypes
    <3>2. calm <= Limit
      BY DEF TypeOK, HandTypes
    <3>3. ~suspect /\ ~(Presses(t) /\ calm < Limit)
      BY <2>1, <2>2
    <3>4. Pressing(Call) => calm = Limit
      BY <3>3 DEF PressedCalm
    <3> HIDE DEF Presses, Pressing
    <3>5. Presses(t) => calm = Limit
      <4>1. ~(calm < Limit) => calm = Limit
        BY <1>0, <3>2
      <4> QED
        BY <3>3, <4>1
    <3> QED
      BY <3>1, <3>4, <3>5
  <2>3. PressedCalm'
    BY <2>1, <2>2 DEF PressedCalm
  <2>4. PressedAlike'
    BY <1>1, <1>2, <2>1 DEF PressedAlike
  <2> QED
    BY <2>1, <2>3, <2>4 DEF UpReleases
<1>5. ASSUME NEW c \in Call, Answer(c) PROVE New
  <2>1. /\ Unflipped /\ UNCHANGED <<held, lastop, calm, queue>>
        /\ todo' = [todo EXCEPT ![c] = << >>]
        /\ suspect' = (suspect /\ Pressing(Call \ {c}))
    BY <1>5 DEF Answer, server, world
  <2>2. Pressing(Call)' => Pressing(Call \ {c})
    BY <1>0, <2>1, NothingLeft DEF Pressing, CallTypes
  <2>3. Pressing(Call \ {c}) => Pressing(Call)
    BY DEF Pressing
  <2>4. CASE ~suspect
    <3>1. PressedCalm'
      BY <2>1, <2>2, <2>3, <2>4 DEF PressedCalm
    <3>2. PressedAlike'
      BY <1>1, <1>2, <2>1, <2>4 DEF PressedAlike
    <3> QED
      BY <2>1, <2>4, <3>1, <3>2 DEF UpReleases
  <2>5. CASE suspect /\ ~suspect'
    <3>1. ~Pressing(Call)'
      BY <2>1, <2>2, <2>5
    <3>2. held' = {} /\ \A i \in DOMAIN queue' : queue'[i].what \notin {"down", "up"}
      BY <3>1 DEF Pressing
    <3>3. \A d \in Call : ~At(d, "send", {"down", "up"})'
      <4>1. ASSUME NEW d \in Call, At(d, "send", {"down", "up"})' PROVE FALSE
        <5>1. CallTypes' /\ InPlace'
          BY CallsStep
        <5>2. todo'[d] \in Seq(Primitive) /\ todo'[d] # << >> /\ Head(todo'[d]) \in {"down", "up"}
          BY <4>1, <5>1 DEF At, InPlace, CallTypes
        <5>3. Presses(todo'[d])
          BY <5>2, HeadDoes
        <5> QED
          BY <3>1, <5>3 DEF Pressing
      <4> QED
        BY <4>1
    <3> QED
      BY <3>1, <3>2, <3>3 DEF PressedCalm, PressedAlike, UpReleases
  <2>6. CASE suspect'
    BY <2>6 DEF PressedCalm, PressedAlike, UpReleases
  <2> QED
    BY <2>4, <2>5, <2>6
<1>6. ASSUME NEW i \in DOMAIN queue, ServeButton(queue[i]), Onward PROVE New
  <2>1. Unflipped /\ UNCHANGED <<suspect, calm>>
    BY <1>6 DEF ServeButton, Serve, world
  <2>2. PressedCalm'
    BY <1>6, <2>1, PressingOn DEF PressedCalm
  <2>3. /\ held' = IF queue[i].what = "down" THEN held \cup {queue[i].button}
                   ELSE held \ {queue[i].button}
        /\ lastop' = IF queue[i].what \in {"down", "up"} THEN queue[i].what ELSE lastop
    BY <1>6 DEF ServeButton
  <2>4. ASSUME ~suspect PROVE held' \subseteq {Setting} /\ (lastop' = "up" => held' = {})
    <3>1. /\ held \subseteq {Setting}
          /\ queue[i].what \in {"down", "up"} => queue[i].button = Setting
      BY <2>4 DEF PressedAlike
    <3>2. CASE queue[i].what = "down"
      BY <2>3, <3>1, <3>2
    <3>3. CASE queue[i].what = "up"
      BY <2>3, <3>1, <3>3
    <3>4. CASE queue[i].what \notin {"down", "up"}
      BY <2>3, <2>4, <3>1, <3>4 DEF UpReleases
    <3> QED
      BY <3>2, <3>3, <3>4
  <2>5. PressedAlike'
    BY <1>1, <1>2, <2>1, <2>4 DEF PressedAlike
  <2> QED
    BY <2>1, <2>2, <2>4, <2>5 DEF UpReleases
<1>7. CASE Flip
  <2>1. UNCHANGED <<pc, todo, button, held, lastop, queue>>
        /\ suspect' = (suspect \/ Pressing(Call))
    BY <1>7 DEF Flip, calls, server
  <2>2. Pressing(Call)' = Pressing(Call)
    BY <2>1 DEF Pressing
  <2>3. ASSUME ~Pressing(Call)
        PROVE  /\ held = {} /\ \A i \in DOMAIN queue : queue[i].what \notin {"down", "up"}
               /\ \A d \in Call : ~At(d, "send", {"down", "up"})
    <3>1. ASSUME NEW d \in Call, At(d, "send", {"down", "up"}) PROVE FALSE
      <4>1. todo[d] \in Seq(Primitive) /\ todo[d] # << >> /\ Head(todo[d]) \in {"down", "up"}
        BY <1>0, <3>1 DEF At, InPlace, CallTypes
      <4> QED
        BY <2>3, <4>1, HeadDoes DEF Pressing
    <3> QED
      BY <2>3, <3>1 DEF Pressing
  <2> QED
    BY <2>1, <2>2, <2>3 DEF PressedCalm, PressedAlike, UpReleases, At
<1>8. CASE Pass
  <2>1. /\ UNCHANGED <<pc, todo, button, held, lastop, suspect, queue>> /\ Unflipped
        /\ calm = Limit => calm' = Limit
    BY <1>0, <1>8 DEF Pass, calls, server, past
  <2>2. Pressing(Call)' = Pressing(Call)
    BY <2>1 DEF Pressing
  <2>3. Limit' = Limit
    BY DEF Limit
  <2> QED
    BY <1>1, <2>1, <2>2, <2>3 DEF PressedCalm, PressedAlike, UpReleases, At
<1> QED
  BY <1>3, <1>4, <1>5, <1>6, <1>7, <1>8, WhoPresses, GoesOn

-----------------------------------------------------------------------------
(* Recordings *)

\* A call records exactly while it has the step to do.
LEMMA RecordsAre ==
  ASSUME TypeOK, InPlace
  PROVE  /\ Recording = {c \in Call : Records(todo[c])}
         /\ \A c \in Call : Records(todo[c]) =>
              pc[c] # "idle" /\ todo[c] # << >> /\ Head(todo[c]) \in RecordSteps
         /\ \A c \in Call : todo[c] # << >> /\ Head(todo[c]) \in RecordSteps => Records(todo[c])
         /\ \A c \in Call : pc[c] \in {"back", "status", "send", "sent"} => todo[c] # << >>
         /\ \A c \in Call : pc[c] = "status" => Records(todo[c])
<1>1. \A c \in Call : todo[c] \in Seq(Primitive)
  BY DEF TypeOK, CallTypes
<1>2. \A c \in Call : Records(todo[c]) =>
        pc[c] # "idle" /\ todo[c] # << >> /\ Head(todo[c]) \in RecordSteps
  BY <1>1, HeadDoes, NothingLeft DEF InPlace
<1>3. \A c \in Call : todo[c] # << >> /\ Head(todo[c]) \in RecordSteps => Records(todo[c])
  BY <1>1, HeadDoes DEF InPlace
<1>4. \A c \in Call : pc[c] \in {"back", "status", "send", "sent"} => todo[c] # << >>
  BY DEF InPlace
<1>5. \A c \in Call : pc[c] = "status" => Records(todo[c])
  BY <1>3, <1>4 DEF InPlace, RecordSteps
<1> QED
  BY <1>2, <1>3, <1>4, <1>5 DEF Recording, Busy

\* No other step takes a record call on than these.
LEMMA RecordsOn ==
  ASSUME TypeOK, InPlace, OneLive, Next, NEW c \in Call, Records(todo[c]),
         ~Answer(c), ~GivesUp(c), ~KeepTimeline(c), ~TakeTimeline(c), ~WriteManifest(c),
         ~\E i \in DOMAIN queue : ServeRecordStart(queue[i]) \/ ServeRecordStop(queue[i])
  PROVE  /\ todo'[c] = todo[c] /\ taken'[c] = taken[c]
         /\ pc'[c] \in {"back", "status"} \/ pc[c] \in {"back", "status"} =>
              pc'[c] = pc[c] /\ reply'[c] = reply[c]
<1> DEFINE Goal == /\ todo'[c] = todo[c] /\ taken'[c] = taken[c]
                   /\ pc'[c] \in {"back", "status"} \/ pc[c] \in {"back", "status"} =>
                        pc'[c] = pc[c] /\ reply'[c] = reply[c]
<1>0. todo[c] # << >> /\ Head(todo[c]) \in RecordSteps /\ pc[c] # "idle" /\ CallTypes
  BY RecordsAre DEF TypeOK
<1>1. ASSUME NEW d \in Call, d # c, Step(d) PROVE Goal
  BY <1>1, OwnSteps
<1>2. CASE Send(c)
  BY <1>0, <1>2 DEF Send, Go, CallTypes
<1>3. ~(Step(c) /\ ~Send(c))
  <2>1. pc[c] \notin {"idle", "look", "again", "hand", "detect", "ask", "asking", "store", "local"}
    BY <1>0 DEF InPlace, RecordSteps, Once, Twice, Handed
  <2>2. Head(todo[c]) \in {"recstart", "recstop"}
    BY <1>0 DEF RecordSteps
  <2> QED
    BY <2>1, <2>2 DEF Step, Begin, LookAtView, LookAgain, Tell, Mark, LookAtFocus, BelieveHand,
       AskHand, HandFound, DoctorAsks, DoctorFound, DoctorStores, Shown, Focus, Carry, At
<1>4. ASSUME NEW i \in DOMAIN queue,
             ServePlain(queue[i]) \/ ServeButton(queue[i]) \/ Refuse(queue[i])
      PROVE  Goal
  <2> DEFINE e == queue[i]
  <2>1. queue # << >> /\ e = Head(queue) /\ UNCHANGED <<todo, taken>>
    BY <1>4 DEF ServePlain, ServeButton, Serve, Refuse, calls
  <2>2. CASE e.live /\ e.by = c
    <3>1. pc[c] = "sent" /\ e.what \in RecordSteps
      BY <1>0, <2>1, <2>2, AnsweredCall
    <3>2. Refuse(e)
      BY <1>4, <3>1 DEF ServePlain, ServeButton, RecordSteps, Handed
    <3>3. pc'[c] = "failed"
      BY <1>0, <2>2, <3>2 DEF Refuse, Go, CallTypes
    <3> QED
      BY <2>1, <3>1, <3>3
  <2>3. CASE ~(e.live /\ e.by = c)
    <3>1. e.live => e.by \in Call
      BY <2>1, AnsweredCall
    <3>2. pc'[c] = pc[c] /\ reply'[c] = reply[c]
      BY <1>0, <1>4, <2>3, <3>1 DEF ServePlain, ServeButton, Serve, Refuse, Go, CallTypes, calls
    <3> QED
      BY <2>1, <3>2
  <2> QED
    BY <2>2, <2>3
<1>5. World => Goal
  BY WorldMoves
<1> QED
  BY <1>1, <1>2, <1>3, <1>4, <1>5 DEF Next, Backend

\* A call that records has done so since it began.
LEMMA RecordsSince ==
  ASSUME TypeOK, InPlace, OneLive, Next, NEW c \in Call, Records(todo'[c]), pc[c] # "idle"
  PROVE  todo'[c] = todo[c]
<1>0. CallTypes
  BY DEF TypeOK
<1>1. CASE Onward
  BY <1>1 DEF Onward
<1>2. ASSUME NEW d \in Call, Answer(d) PROVE todo'[c] = todo[c]
  <2>1. todo' = [todo EXCEPT ![d] = << >>]
    BY <1>2 DEF Answer
  <2> QED
    BY <1>0, <2>1, NothingLeft DEF CallTypes
<1>3. ASSUME NEW d \in Call, NEW t \in session.tools, Begin(d, t) PROVE todo'[c] = todo[c]
  BY <1>0, <1>3 DEF Begin, CallTypes
<1> QED
  BY <1>1, <1>2, <1>3, GoesOn

\* What met another record call has met it until the answer.
LEMMA OverlapStays ==
  ASSUME TypeOK, Next, NEW c \in Call, overlap[c], pc[c] \notin {"idle", "done", "failed"}
  PROVE  overlap'[c]
<1>0. overlap \in [Call -> BOOLEAN]
  BY DEF TypeOK, TapeTypes
<1>1. ASSUME NEW d \in Call, Answer(d) PROVE overlap'[c]
  <2>1. overlap' = [overlap EXCEPT ![d] = FALSE] /\ d # c
    BY <1>1 DEF Answer
  <2> QED
    BY <1>0, <2>1
<1>2. ASSUME NEW d \in Call, NEW t \in session.tools, Begin(d, t) PROVE overlap'[c]
  BY <1>2 DEF Begin
<1>3. ASSUME NEW d \in Call, GivesUp(d) \/ KeepTimeline(d) \/ TakeTimeline(d) \/ WriteManifest(d)
      PROVE  overlap'[c]
  BY <1>3 DEF GivesUp, KeepTimeline, TakeTimeline, WriteManifest, past
<1>4. ASSUME NEW e, ServeRecordStart(e) \/ ServeRecordStop(e) PROVE overlap'[c]
  BY <1>4 DEF ServeRecordStart, ServeRecordStop, Serve
<1>5. EndsByItself \/ OtherStarts \/ OtherStops => overlap'[c]
  BY DEF EndsByItself, OtherStarts, OtherStops, Strange
<1> QED
  BY <1>1, <1>2, <1>3, <1>4, <1>5, WhoRecords

LEMMA LastStep ==
  ASSUME TypeOK, InPlace, OneLive, Next, Overlap, LastToTape
  PROVE  LastToTape'
<1>1. InPlace' /\ OneLive' /\ CallTypes'
  BY CallsStep, OneLiveStep
<1>2. SUFFICES ASSUME NEW c \in Recording', ~overlap'[c], NEW i \in DOMAIN queue',
                      NEW j \in DOMAIN queue', queue'[i].by = c, queue'[i].live, i < j,
                      queue'[j].what \in RecordSteps
               PROVE  FALSE
  BY DEF LastToTape
<1>3. c \in Call /\ pc'[c] = "sent" /\ Records(todo'[c])
  BY <1>1, <1>2 DEF Recording, Busy, OneLive
<1>4. ASSUME pc[c] = "sent", NEW k \in DOMAIN queue, NEW l \in DOMAIN queue, queue[k].by = c,
             queue[k].live, k < l, queue[l].what \in RecordSteps
      PROVE  FALSE
  <2>1. ~overlap[c]
    BY <1>2, <1>3, <1>4, OverlapStays
  <2>2. c \in Recording
    BY <1>3, <1>4, RecordsSince, RecordsAre
  <2> QED
    BY <1>4, <2>1, <2>2 DEF LastToTape
<1>5. CASE queue' = queue
  <2>1. pc[c] = "sent"
    BY <1>2, <1>5 DEF OneLive
  <2> QED
    BY <1>2, <1>4, <1>5, <2>1
<1>6. ASSUME NEW d \in Call, Send(d) PROVE FALSE
  <2>1. /\ DOMAIN queue' = 1 .. Len(queue) + 1 /\ Len(queue) \in Nat
        /\ \A k \in 1 .. Len(queue) : k \in DOMAIN queue /\ queue'[k] = queue[k]
        /\ queue'[Len(queue) + 1].what = Head(todo[d])
    BY <1>6, AtTheEnd, Queued
  <2>2. i \in 1 .. Len(queue) /\ i \in DOMAIN queue /\ queue'[i] = queue[i]
    BY <1>2, <2>1
  <2>3. pc[c] = "sent" /\ pc[d] = "send"
    BY <1>2, <1>6, <2>2 DEF OneLive, Send
  <2>4. CASE j \in 1 .. Len(queue)
    BY <1>2, <1>4, <2>1, <2>2, <2>3, <2>4
  <2>5. CASE j = Len(queue) + 1
    <3>1. Records(todo[d]) /\ Records(todo[c]) /\ c # d
      BY <1>2, <1>3, <2>1, <2>3, <2>5, RecordsAre, RecordsSince
    <3>2. overlap[c]
      BY <1>3, <3>1, RecordsAre DEF Overlap
    <3> QED
      BY <1>2, <1>3, <2>3, <3>2, OverlapStays
  <2> QED
    BY <1>2, <2>1, <2>4, <2>5
<1>7. ASSUME NEW d \in Call, GivesUp(d) PROVE FALSE
  <2>1. /\ i \in DOMAIN queue /\ j \in DOMAIN queue /\ queue[i].by = c /\ queue[i].live
        /\ queue[j].what \in RecordSteps
    BY <1>2, <1>7, LeftBehind
  <2>2. pc[c] = "sent"
    BY <2>1 DEF OneLive
  <2> QED
    BY <1>2, <1>4, <2>1, <2>2
<1>8. CASE Backend
  <2>1. queue # << >> /\ queue' = Tail(queue)
    BY <1>8, BackendMoves
  <2>2. /\ i + 1 \in DOMAIN queue /\ queue'[i] = queue[i + 1] /\ i \in Nat
        /\ j + 1 \in DOMAIN queue /\ queue'[j] = queue[j + 1] /\ j \in Nat
    BY <2>1, TheRest
  <2>3. pc[c] = "sent" /\ i + 1 < j + 1
    BY <1>2, <2>2 DEF OneLive
  <2> QED
    BY <1>2, <1>4, <2>2, <2>3
<1> QED
  BY <1>5, <1>6, <1>7, <1>8, WhoQueues

\* Requests of record calls stay live unless one of these gives up.
LEMMA LiveRecords ==
  ASSUME TypeOK, InPlace, OneLive, Next,
         \A i \in DOMAIN queue : queue[i].what \in RecordSteps => queue[i].live,
         \A d \in Call : GivesUp(d) => ~Records(todo[d])
  PROVE  \A i \in DOMAIN queue' : queue'[i].what \in RecordSteps => queue'[i].live
<1> SUFFICES ASSUME NEW i \in DOMAIN queue', queue'[i].what \in RecordSteps
             PROVE  queue'[i].live
  OBVIOUS
<1>1. CASE queue' = queue
  BY <1>1
<1>2. ASSUME NEW d \in Call, Send(d) PROVE queue'[i].live
  BY <1>2, AtTheEnd, Queued
<1>3. ASSUME NEW d \in Call, GivesUp(d) PROVE queue'[i].live
  <2>1. i \in DOMAIN queue /\ queue[i].what \in RecordSteps /\ queue[i].live
    BY <1>3, LeftBehind
  <2>2. queue[i].by # d
    BY <1>3, <2>1, RecordsAre DEF OneLive
  <2> QED
    BY <1>3, <2>1, <2>2, LeftBehind
<1>4. CASE Backend
  <2>1. queue # << >> /\ queue' = Tail(queue)
    BY <1>4, BackendMoves
  <2> QED
    BY <2>1, TheRest
<1> QED
  BY <1>1, <1>2, <1>3, <1>4, WhoQueues

\* Nobody else sends a request to record while a call that met no other does.
LEMMA NoneSent ==
  ASSUME TypeOK, InPlace, OneLive, Next, Overlap,
         \A i \in DOMAIN queue : queue[i].what \notin RecordSteps,
         NEW c \in Call, Records(todo[c]), ~overlap[c], pc[c] = "back"
  PROVE  \A i \in DOMAIN queue' : queue'[i].what \notin RecordSteps
<1> SUFFICES ASSUME NEW i \in DOMAIN queue', queue'[i].what \in RecordSteps PROVE FALSE
  OBVIOUS
<1>1. PICK d \in Call : At(d, "send", {queue'[i].what})
  BY WhoQueued
<1>2. Records(todo[d]) /\ d # c
  BY <1>1, RecordsAre DEF At
<1> QED
  BY <1>2, RecordsAre DEF Overlap

TapeParts == Overlap /\ OverlapParts /\ ToldOfTaping /\ InStep /\ Stopped /\ ManifestIsOwn

LEMMA TapeStep ==
  ASSUME TypeOK, InPlace, OneLive, Next, LastToTape, TapeParts
  PROVE  TapeParts'
<1> DEFINE R(c) == Records(todo[c])
           Halts(c) == pc[c] = "back" /\ Head(todo[c]) = "recstop"
           N1 == \A c, d \in Call : R(c)' /\ R(d)' /\ c # d => overlap'[c]
           N2 == \A c \in Call : R(c)' /\ overlap'[c] => apart' # {}
           N3 == \A c \in Call : R(c)' /\ ~overlap'[c] /\ pc'[c] = "back" =>
                   /\ \A i \in DOMAIN queue' : queue'[i].what \notin RecordSteps
                   /\ ended' = 0
                   /\ taping' = IF Head(todo'[c]) = "recstart" THEN reply'[c] ELSE 0
           N4 == apart' = {} =>
                   /\ ended' = 0
                   /\ \A i \in DOMAIN queue' : queue'[i].what \in RecordSteps => queue'[i].live
                   /\ (\A c \in Call : R(c)' => pc'[c] # "back") => rec' = taping'
                   /\ \A c \in Call : Halts(c)' => reply'[c] = rec'
           N5 == \A c \in Call :
                   /\ Halts(c)' \/ pc'[c] = "status" => reply'[c] # 0
                   /\ pc'[c] = "status" /\ reply'[c] \notin mixed' => taken'[c] = reply'[c]
           N6 == \A r \in Recs \ mixed' : manifest'[r] \in {-1, r}
           New == N1 /\ N2 /\ N3 /\ N4 /\ N5 /\ N6
<1>0. /\ CallTypes /\ BackTypes /\ TapeTypes /\ MaxRecs \in Nat
      /\ Recording = {c \in Call : R(c)}
  BY RecordsAre, Ends DEF TypeOK
<1>1. /\ \A c \in Call : R(c) => pc[c] # "idle" /\ todo[c] # << >> /\ Head(todo[c]) \in RecordSteps
      /\ \A c \in Call : todo[c] # << >> /\ Head(todo[c]) \in RecordSteps => R(c)
      /\ \A c \in Call : Halts(c) \/ pc[c] = "status" => R(c)
  BY RecordsAre DEF RecordSteps
<1>2. InPlace' /\ \A c \in Call : pc'[c] = "idle" => todo'[c] = << >>
  BY CallsStep DEF InPlace
<1>3. /\ \A c, d \in Call : R(c) /\ R(d) /\ c # d => overlap[c]
      /\ \A c \in Call : R(c) /\ overlap[c] => apart # {}
  BY <1>0 DEF TapeParts, Overlap, OverlapParts
<1>4. \A c \in Call : R(c) /\ ~overlap[c] /\ pc[c] = "back" =>
        /\ \A i \in DOMAIN queue : queue[i].what \notin RecordSteps
        /\ ended = 0
        /\ taping = IF Head(todo[c]) = "recstart" THEN reply[c] ELSE 0
  BY <1>0 DEF TapeParts, ToldOfTaping
<1>5. apart = {} =>
        /\ ended = 0
        /\ \A i \in DOMAIN queue : queue[i].what \in RecordSteps => queue[i].live
        /\ (\A c \in Call : R(c) => pc[c] # "back") => rec = taping
        /\ \A c \in Call : Halts(c) => reply[c] = rec
  BY <1>0 DEF TapeParts, InStep, At
<1>6. /\ \A c \in Call : /\ Halts(c) \/ pc[c] = "status" => reply[c] # 0
                         /\ pc[c] = "status" /\ reply[c] \notin mixed => taken[c] = reply[c]
      /\ \A r \in Recs \ mixed : manifest[r] \in {-1, r}
  BY DEF TapeParts, Stopped, ManifestIsOwn, At
<1>7. \A c \in Call : R(c)' /\ pc[c] # "idle" => todo'[c] = todo[c] /\ R(c)
  BY RecordsSince
<1>8. (\A d \in Call : GivesUp(d) => ~R(d)) /\ apart = {} =>
        \A i \in DOMAIN queue' : queue'[i].what \in RecordSteps => queue'[i].live
  BY <1>5, LiveRecords
<1>9. \A c \in Call : R(c) /\ ~overlap[c] /\ pc[c] = "back" =>
        \A i \in DOMAIN queue' : queue'[i].what \notin RecordSteps
  BY <1>4, NoneSent DEF TapeParts
<1>10. \A c \in Call : Halts(c)' \/ pc'[c] = "status" => R(c)'
  <2>1. ASSUME NEW c \in Call, pc'[c] \in {"back", "status"}, Head(todo'[c]) = "recstop"
        PROVE  Records(todo'[c])
    <3>1. /\ todo'[c] \in Seq(Primitive) /\ todo'[c] # << >>
          /\ Records(todo'[c]) \/ ~HasRecordStep(todo'[c])
      BY <2>1, CallsStep DEF InPlace, CallTypes
    <3>2. HasRecordStep(todo'[c])
      BY <2>1, <3>1, HeadDoes DEF RecordSteps
    <3> QED
      BY <3>1, <3>2
  <2>2. \A c \in Call : pc'[c] = "status" => Head(todo'[c]) = "recstop"
    BY <1>2 DEF InPlace
  <2> QED
    BY <2>1, <2>2
<1>11. ASSUME NEW c \in Call, NEW t \in session.tools, Begin(c, t) PROVE New
  <2>1. /\ pc[c] = "idle" /\ todo' = [todo EXCEPT ![c] = t] /\ pc' = [pc EXCEPT ![c] = Enter(t)]
        /\ UNCHANGED <<rec, manifest, mixed, reply, taken, queue, taping, ended>>
        /\ overlap' = [d \in Call |-> IF d = c THEN Records(t) /\ Recording # {}
                                      ELSE overlap[d] \/ (d \in Recording /\ Records(t))]
        /\ apart' = IF Records(t) /\ Recording # {} THEN apart \cup {"overlap"} ELSE apart
    BY <1>11 DEF Begin, Go, tape, calls, server
  <2>2. Enter(t) \notin {"back", "status"}
    BY <1>0, Tools
  <2>3. /\ ~R(c) /\ pc'[c] = Enter(t) /\ (R(c)' <=> Records(t))
        /\ \A d \in Call \ {c} : pc'[d] = pc[d] /\ todo'[d] = todo[d]
    BY <1>0, <1>1, <2>1 DEF CallTypes
  <2>4. N1
    BY <1>0, <1>3, <2>1, <2>3
  <2>5. N2
    BY <1>0, <1>3, <2>1, <2>3
  <2>6. N3
    BY <1>4, <2>1, <2>2, <2>3
  <2>7. N4
    BY <1>0, <1>5, <2>1, <2>2, <2>3
  <2>8. N5 /\ N6
    BY <1>6, <2>1, <2>2, <2>3
  <2> QED
    BY <2>4, <2>5, <2>6, <2>7, <2>8
<1>12. ASSUME NEW c \in Call, Answer(c) PROVE New
  <2>1. /\ pc[c] \in {"done", "failed"} /\ pc' = [pc EXCEPT ![c] = "idle"]
        /\ todo' = [todo EXCEPT ![c] = << >>]
        /\ reply' = [reply EXCEPT ![c] = 0] /\ taken' = [taken EXCEPT ![c] = 0]
        /\ overlap' = [overlap EXCEPT ![c] = FALSE]
        /\ UNCHANGED <<rec, manifest, mixed, queue, taping, ended, apart>>
    BY <1>12 DEF Answer, Go, tape, server
  <2>2. /\ ~R(c)' /\ pc'[c] = "idle"
        /\ \A d \in Call \ {c} : /\ pc'[d] = pc[d] /\ todo'[d] = todo[d] /\ reply'[d] = reply[d]
                                 /\ taken'[d] = taken[d] /\ overlap'[d] = overlap[d]
    BY <1>0, <2>1, NothingLeft DEF CallTypes, TapeTypes
  <2>3. N1 /\ N2 /\ N3
    BY <1>3, <1>4, <2>1, <2>2
  <2>4. N4
    BY <1>5, <2>1, <2>2
  <2>5. N5 /\ N6
    BY <1>6, <2>1, <2>2
  <2> QED
    BY <2>3, <2>4, <2>5
<1>13. ASSUME NEW c \in Call, GivesUp(c) PROVE New
  <2>1. /\ pc[c] = "sent" /\ pc' = [pc EXCEPT ![c] = "failed"]
        /\ apart' = IF Records(todo[c]) THEN apart \cup {"late"} ELSE apart
        /\ UNCHANGED <<todo, reply, taken, rec, manifest, mixed, taping, ended, overlap>>
    BY <1>13 DEF GivesUp, Go, tape, server, calls
  <2>2. pc'[c] = "failed" /\ \A d \in Call \ {c} : pc'[d] = pc[d]
    BY <1>0, <2>1 DEF CallTypes
  <2>3. N1 /\ N2 /\ N3
    BY <1>3, <1>4, <1>9, <2>1, <2>2
  <2>4. N4
    <3>1. CASE R(c)
      BY <2>1, <3>1
    <3>2. CASE ~R(c)
      <4>1. \A d \in Call : GivesUp(d) => d = c
        BY <1>0, <2>1, <2>2 DEF GivesUp, Go, CallTypes
      <4> QED
        BY <1>5, <1>8, <2>1, <2>2, <3>2, <4>1
    <3> QED
      BY <3>1, <3>2
  <2>5. N5 /\ N6
    BY <1>6, <2>1, <2>2
  <2> QED
    BY <2>3, <2>4, <2>5
<1>14. ASSUME NEW c \in Call, KeepTimeline(c) PROVE New
  <2>1. /\ pc[c] = "back" /\ Head(todo[c]) = "recstart" /\ R(c)
    BY <1>1, <1>14 DEF KeepTimeline, At, InPlace, RecordSteps
  <2>2. /\ rec' = reply[c] /\ apart' = IF overlap[c] THEN apart ELSE {}
        /\ UNCHANGED <<manifest, mixed, reply, taken, queue, taping, ended, overlap>>
    BY <1>14 DEF KeepTimeline, Settle, server
  <2>3. /\ todo'[c] = << >> /\ pc'[c] \notin {"back", "status"} /\ ~R(c)'
        /\ \A d \in Call \ {c} : pc'[d] = pc[d] /\ todo'[d] = todo[d]
    <3>1. Tail(todo[c]) = << >>
      BY <1>0, <1>1, <2>1, RestDoesLess DEF CallTypes
    <3>2. todo' = [todo EXCEPT ![c] = << >>] /\ pc' = [pc EXCEPT ![c] = "done"]
      BY <1>14, <3>1 DEF KeepTimeline, Finish, Go, Enter
    <3> QED
      BY <1>0, <3>2, NothingLeft DEF CallTypes
  <2>4. \A d \in Call \ {c} : R(d) => overlap[c] /\ overlap[d]
    BY <1>3, <2>1
  <2>5. N1 /\ N2
    BY <1>3, <2>2, <2>3, <2>4
  <2>6. N3
    BY <1>4, <2>2, <2>3
  <2>7. N4
    <3>1. CASE overlap[c]
      BY <1>3, <2>1, <2>2, <3>1
    <3>2. CASE ~overlap[c]
      <4>1. /\ \A i \in DOMAIN queue : queue[i].what \notin RecordSteps
            /\ ended = 0 /\ taping = reply[c]
        BY <1>4, <2>1, <3>2
      <4>2. \A d \in Call : ~Halts(d)'
        BY <1>1, <2>3, <2>4, <3>2
      <4> QED
        BY <2>2, <4>1, <4>2
    <3> QED
      BY <3>1, <3>2
  <2>8. N5 /\ N6
    BY <1>6, <2>2, <2>3
  <2> QED
    BY <2>5, <2>6, <2>7, <2>8
<1>15. ASSUME NEW c \in Call, TakeTimeline(c) PROVE New
  <2>1. pc[c] = "back" /\ Head(todo[c]) = "recstop" /\ R(c) /\ Halts(c)
    BY <1>1, <1>15 DEF TakeTimeline, At
  <2>2. /\ rec' = 0 /\ apart' = IF overlap[c] THEN apart ELSE {}
        /\ mixed' = IF apart = {} THEN mixed ELSE mixed \cup {reply[c]}
        /\ taken' = [taken EXCEPT ![c] = rec] /\ pc' = [pc EXCEPT ![c] = "status"]
        /\ UNCHANGED <<manifest, todo, reply, queue, taping, ended, overlap>>
    BY <1>15 DEF TakeTimeline, Settle, server, Go
  <2>3. /\ pc'[c] = "status" /\ taken'[c] = rec
        /\ \A d \in Call \ {c} : pc'[d] = pc[d] /\ taken'[d] = taken[d]
    BY <1>0, <2>2 DEF CallTypes
  <2>4. \A d \in Call \ {c} : R(d) => overlap[c] /\ overlap[d]
    BY <1>3, <2>1
  <2>5. N1 /\ N2
    BY <1>3, <2>2, <2>4
  <2>6. N3
    BY <1>4, <2>2, <2>3
  <2>7. N4
    <3>1. CASE overlap[c]
      BY <1>3, <2>1, <2>2, <3>1
    <3>2. CASE ~overlap[c]
      <4>1. /\ \A i \in DOMAIN queue : queue[i].what \notin RecordSteps
            /\ ended = 0 /\ taping = 0
        BY <1>4, <2>1, <3>2
      <4>2. \A d \in Call : ~Halts(d)'
        BY <1>1, <2>2, <2>3, <2>4, <3>2
      <4> QED
        BY <2>2, <4>1, <4>2
    <3> QED
      BY <3>1, <3>2
  <2>8. reply[c] # 0 /\ (reply[c] \notin mixed' => rec = reply[c])
    BY <1>5, <1>6, <2>1, <2>2
  <2>9. N5 /\ N6
    BY <1>6, <2>2, <2>3, <2>8
  <2> QED
    BY <2>5, <2>6, <2>7, <2>9
<1>16. ASSUME NEW c \in Call, WriteManifest(c) PROVE New
  <2>1. pc[c] = "status" /\ R(c)
    BY <1>1, <1>16 DEF WriteManifest
  <2>2. /\ manifest' = manifest \/ manifest' = [manifest EXCEPT ![reply[c]] = taken[c]]
        /\ UNCHANGED <<rec, mixed, reply, taken, queue, taping, ended, overlap, apart>>
    BY <1>16 DEF WriteManifest, server, past
  <2>3. /\ todo'[c] = << >> /\ pc'[c] \notin {"back", "status"} /\ ~R(c)'
        /\ \A d \in Call \ {c} : pc'[d] = pc[d] /\ todo'[d] = todo[d]
    <3>1. Tail(todo[c]) = << >>
      BY <1>0, <1>1, <2>1, RestDoesLess DEF CallTypes
    <3>2. todo' = [todo EXCEPT ![c] = << >>] /\ pc' = [pc EXCEPT ![c] = "done"]
      BY <1>16, <3>1 DEF WriteManifest, Finish, Go, Enter
    <3> QED
      BY <1>0, <3>2, NothingLeft DEF CallTypes
  <2>4. N1 /\ N2 /\ N3
    BY <1>3, <1>4, <2>2, <2>3
  <2>5. N4
    BY <1>5, <2>1, <2>2, <2>3
  <2>6. N5
    BY <1>6, <2>2, <2>3
  <2>7. N6
    <3>1. reply[c] \notin mixed => taken[c] = reply[c]
      BY <1>6, <2>1
    <3> QED
      BY <1>0, <1>6, <2>2, <3>1 DEF TapeTypes
  <2> QED
    BY <2>4, <2>5, <2>6, <2>7
<1> DEFINE Answered(e, r) ==
             /\ UNCHANGED <<rec, manifest, mixed, apart, overlap, todo, taken>>
             /\ \A a \in Call : pc[a] = "back" /\ R(a) => overlap[a]
             /\ \A j \in DOMAIN queue' : j + 1 \in DOMAIN queue /\ queue'[j] = queue[j + 1]
             /\ ~e.live => apart # {} /\ pc' = pc /\ reply' = reply
             /\ e.live => /\ e.by \in Call /\ R(e.by) /\ pc[e.by] = "sent"
                          /\ Head(todo[e.by]) = e.what /\ pc'[e.by] = "back" /\ reply'[e.by] = r
                          /\ \A d \in Call \ {e.by} : pc'[d] = pc[d] /\ reply'[d] = reply[d]
                          /\ ~overlap[e.by] =>
                               \A j \in DOMAIN queue' : queue'[j].what \notin RecordSteps
<1>17. ASSUME NEW i \in DOMAIN queue, NEW r, Serve(queue[i], r), queue[i].what \in RecordSteps,
              UNCHANGED <<rec, manifest, mixed>>
       PROVE  Answered(queue[i], r)
  <2> DEFINE e == queue[i]
  <2>1. /\ queue # << >> /\ e = Head(queue) /\ queue' = Tail(queue)
        /\ UNCHANGED <<rec, manifest, mixed, apart, overlap, todo, taken>>
        /\ IF e.live THEN Go(e.by, "back") /\ reply' = [reply EXCEPT ![e.by] = r]
                     ELSE UNCHANGED <<pc, reply>>
    BY <1>17 DEF Serve
  <2>2. /\ e = queue[1] /\ 1 \in DOMAIN queue
        /\ \A j \in DOMAIN queue' : /\ j \in Nat \ {0} /\ j + 1 \in DOMAIN queue
                                    /\ queue'[j] = queue[j + 1]
    BY <2>1, TheRest
  <2>3. \A a \in Call : pc[a] = "back" /\ R(a) => overlap[a]
    BY <1>4, <1>17
  <2>4. CASE ~e.live
    <3>1. apart # {}
      BY <1>5, <1>17, <2>4
    <3> QED
      BY <2>1, <2>2, <2>3, <2>4, <3>1
  <2>5. CASE e.live
    <3>1. e.by \in Call /\ pc[e.by] = "sent" /\ todo[e.by] # << >> /\ Head(todo[e.by]) = e.what
      BY <2>1, <2>5, AnsweredCall
    <3>2. R(e.by)
      BY <1>1, <1>17, <3>1
    <3>3. /\ pc'[e.by] = "back" /\ reply'[e.by] = r
          /\ \A d \in Call \ {e.by} : pc'[d] = pc[d] /\ reply'[d] = reply[d]
      BY <1>0, <2>1, <2>5, <3>1 DEF Go, CallTypes
    <3>4. ASSUME ~overlap[e.by], NEW j \in DOMAIN queue' PROVE queue'[j].what \notin RecordSteps
      <4>1. j + 1 \in DOMAIN queue /\ 1 < j + 1 /\ queue'[j] = queue[j + 1]
        BY <2>2
      <4>2. e.by \in Recording
        BY <1>0, <3>1, <3>2
      <4> QED
        BY <2>2, <2>5, <3>4, <4>1, <4>2 DEF LastToTape
    <3> QED
      BY <2>1, <2>2, <2>3, <2>5, <3>1, <3>2, <3>3, <3>4
  <2> QED
    BY <2>4, <2>5
<1>18. ASSUME NEW i \in DOMAIN queue, ServeRecordStart(queue[i]) \/ ServeRecordStop(queue[i])
       PROVE  New
  <2> DEFINE e == queue[i]
  <2>1. PICK r : /\ Serve(e, r) /\ ended' = 0 /\ r # 0
                 /\ \/ e.what = "recstart" /\ taping' = r
                    \/ e.what = "recstop" /\ taping' = 0 /\ (r = taping \/ ended # 0)
    BY <1>0, <1>18 DEF ServeRecordStart, ServeRecordStop, BackTypes
  <2>2. e.what \in RecordSteps /\ UNCHANGED <<rec, manifest, mixed>>
    BY <2>1 DEF RecordSteps, Serve, tape
  <2>3. Answered(e, r)
    BY <1>17, <2>1, <2>2
  <2>4. N1 /\ N2 /\ N6
    BY <1>3, <1>6, <2>3
  <2>5. CASE ~e.live
    <3>1. N3 /\ N4 /\ N5
      BY <1>6, <2>3, <2>5
    <3> QED
      BY <2>4, <3>1
  <2>6. CASE e.live
    <3> DEFINE c == e.by
    <3>1. /\ c \in Call /\ R(c) /\ pc[c] = "sent" /\ Head(todo[c]) = e.what
          /\ pc'[c] = "back" /\ reply'[c] = r /\ todo' = todo /\ overlap' = overlap
          /\ taken' = taken /\ mixed' = mixed /\ apart' = apart /\ rec' = rec
          /\ \A d \in Call \ {c} : pc'[d] = pc[d] /\ reply'[d] = reply[d]
          /\ ~overlap[c] => \A j \in DOMAIN queue' : queue'[j].what \notin RecordSteps
          /\ \A j \in DOMAIN queue' : j + 1 \in DOMAIN queue /\ queue'[j] = queue[j + 1]
          /\ \A a \in Call : pc[a] = "back" /\ R(a) => overlap[a]
      BY <2>3, <2>6
    <3> HIDE DEF c
    <3>2. N3
      <4> SUFFICES ASSUME NEW a \in Call, R(a)', ~overlap'[a], pc'[a] = "back"
                   PROVE  /\ \A j \in DOMAIN queue' : queue'[j].what \notin RecordSteps
                          /\ ended' = 0
                          /\ taping' = IF Head(todo'[a]) = "recstart" THEN reply'[a] ELSE 0
        OBVIOUS
      <4>1. a = c
        BY <3>1
      <4> QED
        BY <2>1, <3>1, <4>1
    <3>3. \A a \in Call : Halts(a)' =>
            (a = c /\ e.what = "recstop") \/ (R(a) /\ a # c /\ Halts(a))
      BY <1>1, <1>10, <3>1
    <3>4. N5
      BY <1>6, <2>1, <3>1
    <3>5. N4
      <4> SUFFICES ASSUME apart = {} PROVE N4
        BY <3>1
      <4>1. \A a \in Call : R(a) => a = c
        BY <1>3, <3>1
      <4>2. \A a \in Call : R(a) => pc[a] # "back"
        BY <3>1, <4>1
      <4>3. rec = taping /\ ended = 0
        BY <1>5, <4>2
      <4>4. \A j \in DOMAIN queue' : queue'[j].what \in RecordSteps => queue'[j].live
        BY <1>5, <3>1
      <4>5. \A a \in Call : Halts(a)' => reply'[a] = rec'
        BY <2>1, <3>1, <3>3, <4>1, <4>3
      <4>6. ~\A a \in Call : R(a)' => pc'[a] # "back"
        BY <3>1
      <4> QED
        BY <2>1, <4>4, <4>5, <4>6
    <3> QED
      BY <2>4, <3>2, <3>4, <3>5
  <2> QED
    BY <2>5, <2>6
<1>19. ASSUME EndsByItself \/ OtherStarts \/ OtherStops PROVE New
  <2>1. PICK cause : Strange(cause)
    BY <1>19 DEF EndsByItself, OtherStarts, OtherStops
  <2>2. /\ apart' # {} /\ \A c \in Call : R(c) => overlap'[c]
        /\ UNCHANGED <<pc, todo, reply, taken, manifest, mixed>>
    BY <1>0, <2>1 DEF Strange, tape, calls
  <2>3. N1 /\ N2 /\ N3 /\ N4
    BY <2>2
  <2>4. N5 /\ N6
    BY <1>6, <2>2
  <2> QED
    BY <2>3, <2>4
<1>20. ASSUME UNCHANGED <<rec, manifest, mixed, apart, overlap, taping, ended, made>>,
              ~\E c \in Call : \/ Answer(c) \/ GivesUp(c) \/ KeepTimeline(c) \/ TakeTimeline(c)
                               \/ WriteManifest(c) \/ \E t \in session.tools : Begin(c, t),
              ~\E i \in DOMAIN queue : ServeRecordStart(queue[i]) \/ ServeRecordStop(queue[i])
       PROVE  New
  <2>1. \A c \in Call : R(c) =>
          /\ todo'[c] = todo[c] /\ taken'[c] = taken[c]
          /\ pc'[c] \in {"back", "status"} \/ pc[c] \in {"back", "status"} =>
               pc'[c] = pc[c] /\ reply'[c] = reply[c]
    BY <1>20, RecordsOn
  <2>2. \A c \in Call : R(c)' <=> R(c)
    <3>1. Onward
      BY <1>20, GoesOn
    <3> QED
      BY <2>1, <3>1 DEF Onward
  <2>3. N1 /\ N2
    BY <1>3, <1>20, <2>2
  <2>4. N3
    BY <1>4, <1>9, <1>20, <2>1, <2>2
  <2>5. \A c \in Call : Halts(c)' => Halts(c) /\ reply'[c] = reply[c]
    BY <1>10, <2>1, <2>2
  <2>6. \A c \in Call : R(c) => (pc'[c] = "back" <=> pc[c] = "back")
    BY <2>1
  <2>7. N4
    BY <1>5, <1>8, <1>20, <2>2, <2>5, <2>6
  <2>8. N5
    BY <1>6, <1>10, <1>20, <2>1, <2>2, <2>5
  <2> QED
    BY <1>6, <1>20, <2>3, <2>4, <2>7, <2>8
<1>21. New
  <2> DEFINE Other == ~\E i \in DOMAIN queue :
                         ServeRecordStart(queue[i]) \/ ServeRecordStop(queue[i])
             Else == ~\E c \in Call :
                        \/ Answer(c) \/ GivesUp(c) \/ KeepTimeline(c) \/ TakeTimeline(c)
                        \/ WriteManifest(c) \/ \E t \in session.tools : Begin(c, t)
  <2> HIDE DEF New
  <2>1. ~Other => New
    BY <1>18
  <2>2. ~Else => New
    BY <1>11, <1>12, <1>13, <1>14, <1>15, <1>16
  <2>3. UNCHANGED <<rec, manifest, mixed, apart, overlap, taping, ended, made>> /\ Other /\ Else
        => New
    BY <1>20
  <2>4. \/ UNCHANGED <<rec, manifest, mixed, apart, overlap, taping, ended, made>>
        \/ ~Other \/ ~Else \/ EndsByItself \/ OtherStarts \/ OtherStops
    BY WhoRecords
  <2> HIDE DEF Other, Else
  <2> QED
    BY <1>19, <2>1, <2>2, <2>3, <2>4
<1>22. Recording' = {c \in Call : R(c)'}
  BY <1>2, NothingLeft DEF Recording, Busy
<1> QED
  BY <1>21, <1>22 DEF TapeParts, Overlap, OverlapParts, ToldOfTaping, InStep, Stopped,
     ManifestIsOwn, At


-----------------------------------------------------------------------------
(* The whole invariant *)

\* It holds when the server starts: nobody calls, nothing is asked, no button
\* is down, nothing is recorded.
LEMMA InitMcp ==
  ASSUME Init
  PROVE  McpInv
<1>1. TypeOK
  BY TypeInit
<1>2. /\ \A c \in Call : /\ pc[c] = "idle" /\ todo[c] = << >> /\ used[c] = {}
                         /\ got[c] = None /\ crossed[c] = FALSE /\ overlap[c] = FALSE
      /\ queue = << >> /\ DOMAIN queue = {} /\ Busy = {} /\ Recording = {} /\ Imaging = {}
  BY DEF Init, Busy, Recording, Imaging
<1>3. InPlace /\ OneLive
  BY <1>2, NothingLeft DEF InPlace, OneLive
<1>4. Crossed /\ ViewIsOwn /\ ViewIsLast /\ ViewIsMeant /\ CoordinatesHold /\ ViewIsSeen
  <2>1. view = seen
    BY DEF Init
  <2> QED
    BY <1>2, <2>1 DEF Crossed, ViewIsOwn, ViewIsLast, ViewIsMeant, CoordinatesHold, ViewIsSeen
<1>5. /\ hand.age = TTL /\ handlock = None /\ calm = Limit /\ held = {} /\ TTL \in Nat
      /\ ended = 0 /\ taping = 0 /\ rec = 0 /\ mixed = {}
      /\ \A r \in Recs : manifest[r] = -1
  BY Ends DEF Init
<1>6. HolderAsks /\ AskedSince /\ BelievedSince /\ StoredSince /\ HandAge
  BY <1>2, <1>5 DEF HolderAsks, AskedSince, BelievedSince, StoredSince, HandAge
<1>7. PressedCalm /\ PressedAlike /\ UpReleases
  BY <1>2, <1>5 DEF PressedCalm, PressedAlike, UpReleases, At
<1>8. Overlap /\ OverlapParts /\ LastToTape /\ ToldOfTaping /\ InStep /\ Stopped
  BY <1>2, <1>5 DEF Overlap, OverlapParts, LastToTape, ToldOfTaping, InStep, Stopped, At
<1>9. KnowsRecording /\ ManifestIsOwn
  BY <1>5 DEF KnowsRecording, ManifestIsOwn
<1> QED
  BY <1>1, <1>3, <1>4, <1>6, <1>7, <1>8, <1>9 DEF McpInv, ViewInv, HandInv, TapeInv

\* Every step keeps it.
LEMMA NextMcp ==
  ASSUME McpInv, Next
  PROVE  McpInv'
<1>1. /\ TypeOK /\ InPlace /\ OneLive /\ ViewInv /\ HandInv /\ TapeInv
      /\ Stopped /\ Overlap /\ LastToTape /\ TapeParts
  BY DEF McpInv, ViewInv, TapeInv, TapeParts
<1>2. CallTypes' /\ InPlace' /\ OneLive'
  BY <1>1, CallsStep, OneLiveStep
<1>3. TypeOK'
  <2>1. HandTypes' /\ ViewTypes' /\ TapeTypes' /\ BackTypes'
    BY <1>1, HandTypesStep, ViewTypesStep, TapeTypesStep, BackTypesStep
  <2> QED
    BY <1>2, <2>1 DEF TypeOK
<1>4. ViewInv'
  BY <1>1, <1>2, <1>3, ViewStep DEF ViewInv
<1>5. HandInv'
  <2>1. HolderAsks' /\ AskedSince' /\ BelievedSince' /\ StoredSince'
    BY <1>1, <1>3, AskStep DEF HandInv
  <2>2. PressedCalm' /\ PressedAlike' /\ UpReleases'
    BY <1>1, <1>3, PressStep DEF HandInv
  <2>3. HandAge'
    <3>1. hand'.age \in 0 .. TTL /\ calm' \in 0 .. Limit /\ TTL \in Nat /\ Slow \in Nat
      BY <1>3, Ends DEF TypeOK, HandTypes
    <3> QED
      BY <2>1, <3>1 DEF HandAge, BelievedSince, Limit
  <2> QED
    BY <2>1, <2>2, <2>3 DEF HandInv
<1>6. TapeInv'
  <2>1. LastToTape' /\ TapeParts'
    BY <1>1, LastStep, TapeStep
  <2>2. KnowsRecording'
    BY <2>1 DEF TapeParts, InStep, KnowsRecording
  <2> QED
    BY <2>1, <2>2 DEF TapeParts, TapeInv
<1> QED
  BY <1>4, <1>5, <1>6 DEF McpInv

\* So does a step that changes nothing.
LEMMA StutterMcp ==
  ASSUME McpInv, UNCHANGED vars
  PROVE  McpInv'
<1> USE DEF vars, shared, hands, tape, calls, server, world, client, past
<1>1. TypeOK'
  BY DEF McpInv, ViewInv, TypeOK, CallTypes, HandTypes, BackTypes, TapeTypes, ViewTypes
<1>2. InPlace' /\ OneLive' /\ Crossed' /\ ViewIsOwn' /\ ViewIsLast' /\ ViewIsMeant'
  BY DEF McpInv, ViewInv, InPlace, OneLive, Crossed, ViewIsOwn, ViewIsLast, ViewIsMeant, Busy,
     Imaging, Meant
<1>3. CoordinatesHold' /\ ViewIsSeen'
  BY DEF McpInv, ViewInv, CoordinatesHold, ViewIsSeen, Meant, Busy
<1>4. HolderAsks' /\ AskedSince' /\ BelievedSince' /\ StoredSince' /\ HandAge'
  BY DEF McpInv, HandInv, HolderAsks, AskedSince, BelievedSince, StoredSince, HandAge, Setting
<1>5. PressedCalm' /\ PressedAlike' /\ UpReleases'
  BY DEF McpInv, HandInv, PressedCalm, PressedAlike, UpReleases, Pressing, Setting, At
<1>6. Overlap' /\ OverlapParts' /\ LastToTape' /\ ToldOfTaping' /\ InStep' /\ Stopped'
  BY DEF McpInv, TapeInv, Overlap, OverlapParts, LastToTape, ToldOfTaping, InStep, Stopped,
     Recording, Busy, At
<1>7. KnowsRecording' /\ ManifestIsOwn'
  BY DEF McpInv, TapeInv, KnowsRecording, ManifestIsOwn, Recording, Busy
<1> QED
  BY <1>1, <1>2, <1>3, <1>4, <1>5, <1>6, <1>7 DEF McpInv, ViewInv, HandInv, TapeInv

\* The three parts together are inductive.
THEOREM Server == Spec => []McpInv
<1>1. Init => McpInv
  BY InitMcp
<1>2. McpInv /\ [Next]_vars => McpInv'
  BY NextMcp, StutterMcp
<1> QED
  BY <1>1, <1>2, PTL DEF Spec

\* mcp.rs:18-19: the coordinates a call converts, wherever it awaits between
\* its conversions and whatever other calls do meanwhile, are those of the image
\* the client means, unless a call that takes images was beside it.
THEOREM Coordinates == Spec => []ViewInv
<1>1. McpInv => ViewInv
  BY DEF McpInv
<1> QED
  BY <1>1, Server, PTL

\* mcp.rs:57-58: what is believed of the buttons is no older than the TTL and
\* two questions, and left_mouse_up lets go of what left_mouse_down pressed.
THEOREM Buttons == Spec => []HandInv
<1>1. McpInv => HandInv
  BY DEF McpInv
<1> QED
  BY <1>1, Server, PTL

\* The timeline that is kept is the back end's recording's, and a manifest has
\* that of its own recording, unless record calls met, an answer was late, or a
\* recording began or ended without the server.
THEOREM Timelines == Spec => []TapeInv
<1>1. McpInv => TapeInv
  BY DEF McpInv
<1> QED
  BY <1>1, Server, PTL
=============================================================================
