----------------------------- MODULE CuadProofs -----------------------------
(***************************************************************************)
(* Theorems about the capture daemon for every set of topologies, layouts  *)
(* and rects, every plan, and every number of faults: the protocol between *)
(* the two threads, and what it gives the pointer and the recorder.        *)
(***************************************************************************)
EXTENDS Cuad, SequenceTheorems, TLAPS

\* The desktop of any placed displays is a rect, and never None.
LEMMA DeskIsRect ==
  ASSUME NEW t \in Live, NEW l \in Monitors
  PROVE  Place(t, l) \in Rect /\ Place(t, l) # NoRect
BY PlanAssumption DEF Place

\* What sync_pointer would apply is a range.
LEMMA RangeIsRect == TypeOK => NextRange \in Rect /\ Desk \in Rect /\ Primary \in Display
<1> SUFFICES ASSUME TypeOK PROVE NextRange \in Rect /\ Desk \in Rect /\ Primary \in Display
  OBVIOUS
<1>1. heads \in Live /\ monitors \in Monitors /\ slot \in Rect \cup {NoRect} /\ ptr \in Rect
  BY DEF TypeOK
<1>2. Primary \in Display
  BY <1>1, PlanAssumption DEF Primary
<1>3. Desk \in Rect
  BY <1>1, DeskIsRect DEF Desk
<1> QED
  BY <1>1, <1>2, <1>3 DEF NextRange

\* A layout that is kept or dropped is a layout.
LEMMA KeptIsMonitors ==
  ASSUME NEW t, NEW l \in Monitors
  PROVE  Kept(t, l) \in Monitors
BY DEF Kept, Monitors

\* The marks for "nothing" are no commands, answers or requests.
LEMMA Nothings ==
  /\ \A j \in Job : j # NoJob /\ j.op # "None"
  /\ \A r \in Reply : r # NoReply /\ r.desktop \in Rect
  /\ \A q \in Serving : q # NoRequest
BY DEF NoJob, NoReply, NoRequest, Job, Reply, Serving, Cmd, Request, Look

\* A spent bound is a bound.
LEMMA SpendType ==
  ASSUME bounds \in [Kinds -> Nat], NEW kind \in Kinds, Spend(kind)
  PROVE  bounds' \in [Kinds -> Nat]
BY DEF Spend

\* set_desktop leaves a range.
LEMMA SetDesktopType ==
  ASSUME TypeOK, NEW d \in Rect, NEW ok, SetDesktop(d, ok)
  PROVE  ptr' \in Rect /\ bounds' \in [Kinds -> Nat]
<1> "fault" \in Kinds
  BY DEF Kinds
<1> QED
  BY SpendType DEF TypeOK, SetDesktop

\* sync_pointer leaves a range, an empty slot and known causes.
LEMMA SyncPointerType ==
  ASSUME TypeOK, NEW ok, SyncPointer(ok)
  PROVE  /\ ptr' \in Rect /\ slot' = NoRect /\ drift' \subseteq Causes
         /\ bounds' \in [Kinds -> Nat]
<1>1. ptr' \in Rect /\ bounds' \in [Kinds -> Nat]
  BY RangeIsRect, SetDesktopType DEF SyncPointer
<1>2. drift' \subseteq Causes
  BY DEF SyncPointer, Blame, TypeOK, Causes
<1> QED
  BY <1>1, <1>2 DEF SyncPointer

\* A command that is sent is a command of the queue.
LEMMA SendType ==
  ASSUME queue \in Seq(Job), NEW op \in Cmd, NEW lay \in Monitors, Send(op, lay)
  PROVE  queue' \in Seq(Job)
<1>1. [op |-> op, lay |-> lay, live |-> TRUE] \in Job
  BY DEF Job
<1> QED
  BY <1>1 DEF Send

\* A command that is received is one, and the rest of the queue are commands.
LEMMA TakeType ==
  ASSUME queue \in Seq(Job), queue # << >>
  PROVE  Head(queue) \in Job /\ Tail(queue) \in Seq(Job)
OBVIOUS

\* What a handler answers is an answer.
LEMMA FinishType ==
  ASSUME TypeOK, NEW ok \in BOOLEAN, NEW d \in Rect, Finish(ok, d)
  PROVE  /\ job' = NoJob /\ reply' \in Reply \cup {NoReply} /\ wpc' = "idle"
         /\ listed' \in Live \cap Topology
<1>1. CASE job.live
  BY <1>1, PlanAssumption DEF TypeOK, Finish, Job, NoJob, Reply
<1>2. CASE ~job.live
  BY <1>2, PlanAssumption DEF TypeOK, Finish
<1> QED
  BY <1>1, <1>2 DEF Finish

\* The initial states are well typed.
LEMMA InitType == Init => TypeOK /\ StartInv
<1> SUFFICES ASSUME Init PROVE TypeOK /\ StartInv
  OBVIOUS
<1> USE DEF Init
<1>1. ptr \in Rect
  BY DeskIsRect DEF Monitors
<1>2. bounds \in [Kinds -> Nat]
  BY BoundAssumption DEF Kinds
<1>4. queue \in Seq(Job) /\ monitors \in Monitors /\ file \in Monitors
  BY DEF Monitors
<1>6. acked \subseteq Confirmation
  BY <1>4 DEF Confirmation
<1>5. topo \in Topology /\ heads \in Live /\ seen \in [Display -> Topology]
  BY PlanAssumption
<1> QED
  BY <1>1, <1>2, <1>4, <1>5, <1>6, PlanAssumption DEF TypeOK, StartInv

-----------------------------------------------------------------------------
\* Every step keeps the types.
LEMMA NextType == TypeOK /\ StartInv /\ [Next]_vars => TypeOK' /\ StartInv'
<1> SUFFICES ASSUME TypeOK, StartInv, [Next]_vars PROVE TypeOK' /\ StartInv'
  OBVIOUS
<1> USE DEF TypeOK, StartInv
<1>r. NextRange \in Rect /\ Desk \in Rect /\ Primary \in Display
  BY RangeIsRect
<1>1. CASE UNCHANGED vars
  BY <1>1 DEF vars
<1>2. CASE Boot
  BY <1>2, PlanAssumption DEF Boot
<1>3. CASE BootFails
  BY <1>3 DEF BootFails, vars
<1>4. CASE BootDone
  <2>1. heads' \in Live /\ monitors' \in Monitors /\ seen' \in [Display -> Topology]
    BY <1>4, KeptIsMonitors DEF BootDone, OpenHeads
  <2>2. ptr' \in Rect
    BY <1>4, <2>1, DeskIsRect DEF BootDone
  <2> QED
    BY <1>4, <2>1, <2>2 DEF BootDone, OpenHeads, Misses
<1>5. CASE Crash
  <2>1. bounds' \in [Kinds -> Nat]
    BY <1>5, SpendType DEF Crash, Kinds
  <2> QED
    BY <1>5, <1>r, <2>1, << >> \in Seq(Job), PlanAssumption DEF Crash
<1>6. CASE Replug
  <2>1. bounds' \in [Kinds -> Nat]
    BY <1>6, SpendType DEF Replug, Kinds
  <2> QED
    BY <1>6, <2>1 DEF Replug
<1>7. ASSUME NEW op \in Request, NEW lay \in Monitors, Accept(op, lay)
      PROVE  TypeOK' /\ StartInv'
  <2>1. /\ ptr' \in Rect /\ slot' = NoRect /\ drift' \subseteq Causes
        /\ bounds' \in [Kinds -> Nat]
    BY <1>7, SyncPointerType DEF Accept
  <2>2. acked' \subseteq Confirmation
    BY <1>7 DEF Accept
  <2>3. CASE op \in {"Ping", "Input"}
    BY <1>7, <2>1, <2>2, <2>3 DEF Accept
  <2>4. CASE op \notin {"Ping", "Input"}
    <3>1. FirstAsk(op) \in Cmd
      BY <2>4 DEF Request, Cmd, Look, FirstAsk
    <3>2. queue' \in Seq(Job)
      BY <1>7, <2>4, <3>1, SendType DEF Accept
    <3>3. rq' \in Serving
      <4>1. rq' = [op |-> op, lay |-> lay, ask |-> FirstAsk(op),
                   shown |-> NoRect, saved |-> FALSE]
        BY <1>7, <2>4 DEF Accept
      <4> QED
        BY <3>1, <4>1, <1>7 DEF Serving
    <3> QED
      BY <1>7, <2>1, <2>2, <2>4, <3>2, <3>3 DEF Accept
  <2> QED
    BY <2>3, <2>4
<1>8. CASE AcceptFails
  BY <1>8, SyncPointerType DEF AcceptFails, workerVars
<1>9. CASE Relay
  BY <1>9 DEF Relay, Idle, Consume, workerVars
<1>10. CASE LayoutApplied
  <2>1. reply.desktop \in Rect
    BY <1>10, Nothings DEF LayoutApplied, Answered
  <2>2. rq \in Serving
    BY <1>10, <2>1 DEF LayoutApplied, Answered, NoRequest
  <2>3. queue' \in Seq(Job)
    BY <1>10, <2>2, SendType DEF LayoutApplied, Serving, Cmd, Look
  <2>4. rq' \in Serving
    BY <1>10, <2>2 DEF LayoutApplied, Serving, Cmd, Look
  <2>5. bounds' \in [Kinds -> Nat]
    BY <1>10, SpendType DEF LayoutApplied, Kinds
  <2>6. drift' \subseteq Causes
    BY <1>10 DEF LayoutApplied, Blame
  <2>7. file' \in Monitors
    BY <1>10, <2>2 DEF LayoutApplied, SaveLayout, Serving
  <2> QED
    BY <1>10, <2>1, <2>3, <2>4, <2>5, <2>6, <2>7 DEF LayoutApplied, Answered, Consume, workerVars
<1>11. CASE LayoutNotFollowed
  <2>1. reply.desktop \in Rect
    BY <1>11, Nothings DEF LayoutNotFollowed, Answered
  <2>2. ptr' \in Rect /\ bounds' \in [Kinds -> Nat]
    BY <1>11, <2>1, SetDesktopType DEF LayoutNotFollowed
  <2>3. drift' \subseteq Causes
    BY <1>11 DEF LayoutNotFollowed, Blame, Causes
  <2> QED
    BY <1>11, <2>2, <2>3 DEF LayoutNotFollowed, Idle, Consume, workerVars
<1>12. CASE StatusDisplays
  <2>1. reply.desktop \in Rect
    BY <1>12, Nothings DEF StatusDisplays, Answered
  <2>2. rq \in Serving
    BY <1>12 DEF StatusDisplays, Answered, NoRequest
  <2>3. queue' \in Seq(Job)
    BY <1>12, <2>2, SendType DEF StatusDisplays, Serving, Cmd, Look
  <2>4. rq' \in Serving
    BY <1>12, <2>1, <2>2 DEF StatusDisplays, Serving, Cmd, Look
  <2>5. /\ ptr' \in Rect /\ slot' = NoRect /\ drift' \subseteq Causes
        /\ bounds' \in [Kinds -> Nat]
    BY <1>12, SyncPointerType DEF StatusDisplays
  <2> QED
    BY <1>12, <2>3, <2>4, <2>5 DEF StatusDisplays, Answered, Consume, workerVars
<1>13. CASE StatusFails
  BY <1>13, SyncPointerType DEF StatusFails, Idle, Consume, workerVars
<1>14. CASE StatusAnswer
  <2>1. rq \in Serving
    BY <1>14 DEF StatusAnswer, Answered, NoRequest
  <2>2. acked' \subseteq Confirmation
    BY <1>14, <2>1 DEF StatusAnswer, Serving, Confirmation
  <2> QED
    BY <1>14, <2>2 DEF StatusAnswer, Idle, Consume, workerVars
<1>15. CASE TimeOut
  <2>1. \A j \in Job : Orphan(j) \in Job
    BY DEF Orphan, Job
  <2>2. queue' \in Seq(Job)
    BY <1>15, <2>1 DEF TimeOut
  <2>3. job' \in Job \cup {NoJob}
    BY <1>15, <2>1 DEF TimeOut
  <2>4. bounds' \in [Kinds -> Nat]
    BY <1>15, SpendType DEF TimeOut, Kinds
  <2> QED
    BY <1>15, <2>2, <2>3, <2>4 DEF TimeOut, Idle
<1>16. CASE Take
  <2>1. job' \in Job /\ queue' \in Seq(Job)
    BY <1>16, TakeType DEF Take
  <2> QED
    BY <1>16, <2>1, PlanAssumption DEF Take, requestVars
<1>17. CASE TakeChanged
  <2>1. job' \in Job /\ queue' \in Seq(Job)
    BY <1>17, TakeType DEF TakeChanged
  <2> QED
    BY <1>17, <2>1, <1>r DEF TakeChanged, requestVars
<1>18. CASE Enumerate
  <2>1. heads' \in Live /\ monitors' \in Monitors /\ seen' \in [Display -> Topology]
    BY <1>18, KeptIsMonitors DEF Enumerate, OpenHeads
  <2>2. slot' \in Rect
    BY <1>18, <2>1, DeskIsRect DEF Enumerate
  <2>3. rpc \notin {"down", "boot"}
    BY <1>18 DEF Enumerate
  <2> QED
    BY <1>18, <2>1, <2>2, <2>3 DEF Enumerate, OpenHeads, Misses, requestVars
<1>19. CASE EnumerateFails
  <2>1. bounds' \in [Kinds -> Nat]
    BY <1>19, SpendType DEF EnumerateFails, Kinds
  <2>2. blind' \subseteq Misses
    BY <1>19 DEF EnumerateFails, Misses
  <2> QED
    BY <1>19, <2>1, <2>2 DEF EnumerateFails, requestVars
<1>20. CASE ServeRead
  <2>1. /\ job' = NoJob /\ reply' \in Reply \cup {NoReply} /\ wpc' = "idle"
        /\ listed' \in Live \cap Topology
    BY <1>20, <1>r, FinishType DEF ServeRead
  <2> QED
    BY <1>20, <2>1 DEF ServeRead, requestVars
<1>21. CASE ServeSetLayout
  <2>1. job.lay \in Monitors
    BY <1>21 DEF ServeSetLayout, Handling, NoJob, Job
  <2>2. /\ job' = NoJob /\ reply' \in Reply \cup {NoReply} /\ wpc' = "idle"
        /\ listed' \in Live \cap Topology
    BY <1>21, <2>1, DeskIsRect, FinishType DEF ServeSetLayout
  <2>3. drift' \subseteq Causes
    BY <1>21 DEF ServeSetLayout, Causes
  <2> QED
    BY <1>21, <2>1, <2>2, <2>3 DEF ServeSetLayout, requestVars
<1>22. CASE RefuseSetLayout
  <2>1. /\ job' = NoJob /\ reply' \in Reply \cup {NoReply} /\ wpc' = "idle"
        /\ listed' \in Live \cap Topology
    BY <1>22, <1>r, FinishType DEF RefuseSetLayout
  <2> QED
    BY <1>22, <2>1 DEF RefuseSetLayout, requestVars
<1>23. CASE ServeRecordStart
  <2>1. /\ job' = NoJob /\ reply' \in Reply \cup {NoReply} /\ wpc' = "idle"
        /\ listed' \in Live \cap Topology
    BY <1>23, <1>r, FinishType DEF ServeRecordStart
  <2>2. rpc \notin {"down", "boot"}
    BY <1>23 DEF ServeRecordStart, Handling
  <2> QED
    BY <1>23, <1>r, <2>1, <2>2 DEF ServeRecordStart, requestVars
<1>24. CASE RefuseRecordStart
  <2>1. /\ job' = NoJob /\ reply' \in Reply \cup {NoReply} /\ wpc' = "idle"
        /\ listed' \in Live \cap Topology
    BY <1>24, <1>r, FinishType DEF RefuseRecordStart
  <2> QED
    BY <1>24, <2>1 DEF RefuseRecordStart, requestVars
<1>25. CASE ServeRecordStop
  <2>1. /\ job' = NoJob /\ reply' \in Reply \cup {NoReply} /\ wpc' = "idle"
        /\ listed' \in Live \cap Topology
    BY <1>25, <1>r, FinishType DEF ServeRecordStop
  <2> QED
    BY <1>25, <2>1 DEF ServeRecordStop, requestVars
<1>26. CASE AutoStop
  BY <1>26 DEF AutoStop, requestVars
<1>27. CASE ListDisplays
  BY <1>27 DEF ListDisplays, requestVars
<1> QED
  BY <1>1, <1>2, <1>3, <1>4, <1>5, <1>6, <1>7, <1>8, <1>9, <1>10, <1>11, <1>12,
     <1>13, <1>14, <1>15, <1>16, <1>17, <1>18, <1>19, <1>20, <1>21, <1>22,
     <1>23, <1>24, <1>25, <1>26, <1>27
  DEF Next, RequestNext, WorkerNext, Serve

\* Type correctness of the daemon, for every value of the constants.
THEOREM TypeCorrect == Spec => []TypeOK
<1>1. Init => TypeOK /\ StartInv
  BY InitType
<1>2. TypeOK /\ StartInv /\ [Next]_vars => TypeOK' /\ StartInv'
  BY NextType
<1> QED
  BY <1>1, <1>2, PTL DEF Spec

-----------------------------------------------------------------------------
\* A command is sent behind those that nobody waits for any more.
LEMMA SendLast ==
  ASSUME queue \in Seq(Job), NEW op \in Cmd, NEW lay \in Monitors, Send(op, lay)
  PROVE  /\ Len(queue') = Len(queue) + 1
         /\ \A i \in 1..Len(queue) : queue'[i] = queue[i]
         /\ queue'[Len(queue')].op = op /\ queue'[Len(queue')].live
         /\ queue' # << >>
<1> DEFINE c == [op |-> op, lay |-> lay, live |-> TRUE]
<1>1. queue' = Append(queue, c) /\ c \in Job
  BY DEF Send, Job
<1> HIDE DEF c
<1>2. Len(queue') = Len(queue) + 1 /\ queue'[Len(queue) + 1] = c
      /\ \A i \in 1..Len(queue) : queue'[i] = queue[i]
  BY <1>1
<1>3. c.op = op /\ c.live
  BY DEF c
<1>4. queue' # << >>
  BY <1>2
<1> QED
  BY <1>2, <1>3, <1>4

\* The command received is the first, and the others move up.
LEMMA TakeFirst ==
  ASSUME queue \in Seq(Job), queue # << >>
  PROVE  /\ Head(queue) = queue[1] /\ 1 \in 1..Len(queue)
         /\ Len(Tail(queue)) = Len(queue) - 1
         /\ \A i \in 1..Len(Tail(queue)) : Tail(queue)[i] = queue[i + 1]
         /\ Tail(queue) = << >> <=> Len(queue) = 1
<1>1. Len(queue) \in Nat /\ Len(queue) # 0
  OBVIOUS
<1>2. Head(queue) = queue[1] /\ 1 \in 1..Len(queue)
  BY <1>1
<1>3. Tail(queue) \in Seq(Job) /\ Len(Tail(queue)) = Len(queue) - 1
  BY <1>1, HeadTailProperties
<1>4. \A i \in 1..Len(Tail(queue)) : Tail(queue)[i] = queue[i + 1]
  BY <1>1, <1>3
<1>5. Tail(queue) = << >> <=> Len(queue) = 1
  <2>1. Tail(queue) = << >> <=> Len(Tail(queue)) = 0
    BY <1>3, EmptySeq
  <2> QED
    BY <1>1, <1>3, <2>1
<1> QED
  BY <1>2, <1>3, <1>4, <1>5

\* A command that timed out is the same command, waited for by nobody.
LEMMA OrphanDead ==
  ASSUME NEW j \in Job
  PROVE  Orphan(j).op = j.op /\ ~Orphan(j).live
BY DEF Orphan, Job

\* What the channel invariant says while nobody waits: no command is live.
LEMMA NoneLive ==
  ASSUME ChannelInv, rpc # "wait" \/ reply # NoReply
  PROVE  ~job.live /\ \A i \in 1..Len(queue) : ~queue[i].live
BY DEF ChannelInv

\* The initial states satisfy all of the invariant.
LEMMA InitInv == Init => CuadInv
<1> SUFFICES ASSUME Init PROVE CuadInv
  OBVIOUS
<1>1. TypeOK /\ StartInv
  BY InitType
<1>2. Len(queue) = 0
  BY DEF Init
<1>3. WorkerInv /\ RecordingKeepsDesktop
  BY DEF Init, WorkerInv, RecordingKeepsDesktop
<1>4. ChannelInv
  BY <1>2 DEF Init, ChannelInv, AnswersMatch, NoJob
<1>5. PointerTracksDesktop
  BY DEF Init, PointerTracksDesktop, LayoutPending, Answered
<1>6. StatusInv
  BY DEF Init, StatusInv, StatusCoherent
<1>7. SavedInv /\ FreshInv
  BY DEF Init, SavedInv, FreshInv, AckedLayoutSaved, ReadsAreFresh, Handling
<1> QED
  BY <1>1, <1>3, <1>4, <1>5, <1>6, <1>7 DEF CuadInv

\* The channel between the threads after a command was sent: nobody waited
\* before, or the answer has just been consumed.
LEMMA SendKeepsChannel ==
  ASSUME TypeOK, WorkerInv, ChannelInv,
         rpc # "wait" \/ reply # NoReply,
         NEW op \in Cmd, NEW lay \in Monitors, Send(op, lay),
         rpc' = "wait", reply' = NoReply, rq' # NoRequest, rq'.ask = op,
         UNCHANGED <<job, wpc, rec>>
  PROVE  WorkerInv' /\ ChannelInv'
<1>1. /\ Len(queue') = Len(queue) + 1 /\ Len(queue) \in Nat
      /\ \A i \in 1..Len(queue) : queue'[i] = queue[i]
      /\ queue'[Len(queue')].op = op /\ queue'[Len(queue')].live
      /\ queue' # << >>
  BY SendLast DEF TypeOK
<1>2. ~job.live /\ \A i \in 1..Len(queue) : ~queue[i].live
  BY NoneLive
<1>3. \A i \in 1..Len(queue') : queue'[i].live => i = Len(queue')
  BY <1>1, <1>2
<1>4. AnswersMatch'
  BY <1>1 DEF AnswersMatch
<1> QED
  BY <1>2, <1>3, <1>4 DEF WorkerInv, ChannelInv

\* ... after a handler finished: its command is answered if it is waited for.
LEMMA FinishKeepsChannel ==
  ASSUME TypeOK, WorkerInv, ChannelInv, wpc = "serve",
         NEW ok \in BOOLEAN, NEW d \in Rect, Finish(ok, d),
         UNCHANGED <<queue, rpc, rq>>
  PROVE  WorkerInv' /\ ChannelInv'
<1>1. job \in Job /\ job' = NoJob /\ wpc' = "idle" /\ ~job'.live
  BY DEF Finish, NoJob, WorkerInv, TypeOK
<1>2. reply = NoReply
  BY DEF ChannelInv
<1>3. CASE job.live
  <2>1. /\ queue = << >> /\ rpc = "wait" /\ job.op = rq.ask
        /\ rq # NoRequest
    BY <1>3 DEF ChannelInv, AnswersMatch
  <2>2. reply' # NoReply /\ reply'.op = job.op
    BY <1>1, <1>3, Nothings DEF Finish, Job, NoReply
  <2>3. \A i \in 1..Len(queue') : FALSE
    BY <2>1, EmptySeq
  <2> QED
    BY <1>1, <2>1, <2>2, <2>3 DEF WorkerInv, ChannelInv, AnswersMatch
<1>4. CASE ~job.live
  <2>1. reply' = reply
    BY <1>4 DEF Finish
  <2> QED
    BY <1>1, <1>2, <1>4, <2>1 DEF WorkerInv, ChannelInv, AnswersMatch
<1> QED
  BY <1>3, <1>4

\* ... after the answer was consumed and the request is over.
LEMMA IdleKeepsChannel ==
  ASSUME TypeOK, WorkerInv, ChannelInv, rpc = "wait", reply # NoReply,
         Idle, Consume, UNCHANGED <<queue, job, wpc, rec>>
  PROVE  WorkerInv' /\ ChannelInv'
BY NoneLive DEF Idle, Consume, WorkerInv, ChannelInv, AnswersMatch

\* ... after a command was received.
LEMMA TakeKeepsChannel ==
  ASSUME TypeOK, WorkerInv, ChannelInv, wpc = "idle", queue # << >>,
         job' = Head(queue), queue' = Tail(queue), wpc' \in {"serve", "list"},
         wpc' = "list" => rec = NoRect /\ Head(queue).op \in Look \cup {"SetLayout"},
         UNCHANGED <<rec, rpc, rq, reply>>
  PROVE  WorkerInv' /\ ChannelInv'
<1>1. /\ job' = queue[1] /\ 1 \in 1..Len(queue)
      /\ Len(queue') = Len(queue) - 1 /\ Len(queue) \in Nat
      /\ \A i \in 1..Len(queue') : queue'[i] = queue[i + 1]
      /\ queue' = << >> <=> Len(queue) = 1
  BY TakeFirst DEF TypeOK
<1>2. job' \in Job /\ job' # NoJob
  BY TakeType, Nothings DEF TypeOK
<1>3. reply = NoReply
  BY DEF ChannelInv
<1>4. \A i \in 1..Len(queue') : i + 1 \in 1..Len(queue)
  BY <1>1
<1>5. ASSUME NEW i \in 1..Len(queue'), queue'[i].live PROVE i = Len(queue')
  <2>1. i + 1 \in 1..Len(queue) /\ queue[i + 1].live
    BY <1>1, <1>4, <1>5
  <2>2. i + 1 = Len(queue)
    BY <2>1 DEF ChannelInv
  <2>3. Len(queue') \in Int /\ i \in Int
    BY <1>1
  <2>4. Len(queue') + 1 = Len(queue) /\ Len(queue) \in Int
    BY <1>1
  <2> QED
    BY <2>2, <2>3, <2>4
<1>6. job'.live => queue' = << >>
  BY <1>1 DEF ChannelInv
<1>7. job'.live \/ (\E i \in 1..Len(queue') : queue'[i].live) => rpc = "wait"
  BY <1>1, <1>4 DEF ChannelInv
<1>8. rpc = "wait" =>
        IF queue' = << >> THEN job'.live /\ job'.op = rq.ask
        ELSE queue'[Len(queue')].live /\ queue'[Len(queue')].op = rq.ask
  <2>1. rpc = "wait" => queue[Len(queue)].live /\ queue[Len(queue)].op = rq.ask
    BY <1>3 DEF ChannelInv, AnswersMatch
  <2>2. queue' # << >> => queue'[Len(queue')] = queue[Len(queue)]
    BY <1>1
  <2> QED
    BY <1>1, <2>1, <2>2
<1>9. AnswersMatch'
  BY <1>3, <1>8 DEF AnswersMatch
<1> QED
  BY <1>2, <1>3, <1>5, <1>6, <1>7, <1>9 DEF WorkerInv, ChannelInv

\* ... after a time-out: nothing that was sent is waited for.
LEMMA TimeOutKeepsChannel ==
  ASSUME TypeOK, WorkerInv, ChannelInv, TimeOut
  PROVE  WorkerInv' /\ ChannelInv'
<1>1. /\ rpc = "wait" /\ reply = NoReply /\ reply' = NoReply /\ rpc' = "idle"
      /\ wpc' = wpc /\ rec' = rec
      /\ job' = (IF job = NoJob THEN NoJob ELSE Orphan(job))
      /\ queue' = [i \in DOMAIN queue |-> Orphan(queue[i])]
  BY DEF TimeOut, Idle
<1>2. \A i \in DOMAIN queue : queue[i] \in Job
  BY DEF TypeOK
<1>3. DOMAIN queue = 1..Len(queue) /\ Len(queue) \in Nat
  BY DEF TypeOK
<1>4. Len(queue') = Len(queue) /\ \A i \in 1..Len(queue) : ~queue'[i].live
  BY <1>1, <1>2, <1>3, OrphanDead
<1>5. ~job'.live /\ (job' = NoJob <=> job = NoJob) /\ job'.op = job.op
  <2>1. CASE job = NoJob
    BY <1>1, <2>1 DEF NoJob
  <2>2. CASE job # NoJob
    <3>1. job \in Job /\ Orphan(job) \in Job
      BY <2>2 DEF TypeOK, Orphan, Job
    <3> QED
      BY <1>1, <2>2, <3>1, OrphanDead, Nothings
  <2> QED
    BY <2>1, <2>2
<1> QED
  BY <1>1, <1>4, <1>5 DEF WorkerInv, ChannelInv, AnswersMatch

\* Every step keeps the protocol between the two threads.
LEMMA NextChannel == CuadInv /\ [Next]_vars => WorkerInv' /\ ChannelInv'
<1> SUFFICES ASSUME CuadInv, [Next]_vars PROVE WorkerInv' /\ ChannelInv'
  OBVIOUS
<1> USE DEF CuadInv
<1>r. NextRange \in Rect /\ Desk \in Rect
  BY RangeIsRect
<1>q. rpc = "wait" => rq \in Serving
  BY DEF TypeOK, ChannelInv
\* Steps that touch neither the channel nor where the threads stand.
<1>s. ASSUME UNCHANGED <<queue, job, wpc, reply, rq, rec>>,
             rpc' = rpc \/ (rpc # "wait" /\ rpc' # "wait")
      PROVE  WorkerInv' /\ ChannelInv'
  BY <1>s DEF WorkerInv, ChannelInv, AnswersMatch
<1>1. CASE UNCHANGED vars
  BY <1>1, <1>s DEF vars
<1>2. CASE Boot
  BY <1>2, <1>s DEF Boot
<1>3. CASE BootFails
  BY <1>3, <1>s DEF BootFails, vars
<1>4. CASE BootDone
  BY <1>4, <1>s DEF BootDone
<1>5. CASE Crash
  <2>1. Len(queue') = 0
    BY <1>5, EmptySeq DEF Crash
  <2> QED
    BY <1>5, <2>1 DEF Crash, WorkerInv, ChannelInv, AnswersMatch, NoJob
<1>6. CASE Replug
  BY <1>6, <1>s DEF Replug
<1>7. ASSUME NEW op \in Request, NEW lay \in Monitors, Accept(op, lay)
      PROVE  WorkerInv' /\ ChannelInv'
  <2>1. CASE op \in {"Ping", "Input"}
    BY <1>7, <2>1, <1>s DEF Accept
  <2>2. CASE op \notin {"Ping", "Input"}
    <3>1. FirstAsk(op) \in Cmd
      BY <2>2 DEF Request, Cmd, Look, FirstAsk
    <3>2. rq' = [op |-> op, lay |-> lay, ask |-> FirstAsk(op),
                 shown |-> NoRect, saved |-> FALSE]
      BY <1>7, <2>2 DEF Accept
    <3>3. rq' # NoRequest /\ rq'.ask = FirstAsk(op)
      BY <1>7, <3>1, <3>2, Nothings DEF Serving
    <3>4. rpc = "idle" /\ reply = NoReply
      BY <1>7 DEF Accept, ChannelInv
    <3>5. /\ Send(FirstAsk(op), lay) /\ rpc' = "wait" /\ reply' = NoReply
          /\ UNCHANGED <<job, wpc, rec>>
      BY <1>7, <2>2, <3>4 DEF Accept
    <3> QED
      BY <1>7, <3>1, <3>3, <3>4, <3>5, SendKeepsChannel
  <2> QED
    BY <2>1, <2>2
<1>8. CASE AcceptFails
  BY <1>8, <1>s DEF AcceptFails, workerVars
<1>9. CASE Relay
  BY <1>9, IdleKeepsChannel DEF Relay, workerVars
<1>10. CASE LayoutApplied
  <2>0. rq \in Serving
    BY <1>10, <1>q DEF LayoutApplied, Answered
  <2>1. rq'.ask = "Displays" /\ rq' # NoRequest
    <3>1. rq' \in Serving /\ rq'.ask = "Displays"
      BY <1>10, <2>0 DEF LayoutApplied, Serving, Cmd, Look
    <3> QED
      BY <3>1, Nothings
  <2>2. "Displays" \in Cmd /\ rq.lay \in Monitors
    BY <1>10, <1>q DEF LayoutApplied, Answered, Serving, Cmd, Look
  <2> QED
    BY <1>10, <2>1, <2>2, SendKeepsChannel
    DEF LayoutApplied, Answered, Consume, workerVars
<1>11. CASE LayoutNotFollowed
  BY <1>11, IdleKeepsChannel DEF LayoutNotFollowed, Answered, workerVars
<1>12. CASE StatusDisplays
  <2>1. rq'.ask = "Info" /\ rq' # NoRequest
    BY <1>12, <1>q DEF StatusDisplays, Answered, Serving, NoRequest
  <2>2. "Info" \in Cmd /\ rq.lay \in Monitors
    BY <1>12, <1>q DEF StatusDisplays, Answered, Serving, Cmd, Look
  <2> QED
    BY <1>12, <2>1, <2>2, SendKeepsChannel
    DEF StatusDisplays, Answered, Consume, workerVars
<1>13. CASE StatusFails
  BY <1>13, IdleKeepsChannel DEF StatusFails, Answered, workerVars
<1>14. CASE StatusAnswer
  BY <1>14, IdleKeepsChannel DEF StatusAnswer, Answered, workerVars
<1>15. CASE TimeOut
  BY <1>15, TimeOutKeepsChannel
<1>16. CASE Take
  BY <1>16, TakeKeepsChannel DEF Take, requestVars
<1>17. CASE TakeChanged
  BY <1>17, TakeKeepsChannel DEF TakeChanged, Checks, requestVars
<1>18. CASE Enumerate
  BY <1>18 DEF Enumerate, requestVars, WorkerInv, ChannelInv, AnswersMatch
<1>19. CASE EnumerateFails
  BY <1>19 DEF EnumerateFails, requestVars, WorkerInv, ChannelInv, AnswersMatch
<1>20. CASE ServeRead
  BY <1>20, <1>r, FinishKeepsChannel DEF ServeRead, Handling, requestVars
<1>21. CASE ServeSetLayout
  <2>1. Place(heads, job.lay) \in Rect
    BY <1>21, DeskIsRect DEF ServeSetLayout, Handling, NoJob, Job, TypeOK
  <2> QED
    BY <1>21, <2>1, FinishKeepsChannel DEF ServeSetLayout, Handling, requestVars
<1>22. CASE RefuseSetLayout
  BY <1>22, <1>r, FinishKeepsChannel DEF RefuseSetLayout, Handling, requestVars
<1>23. CASE ServeRecordStart
  BY <1>23, <1>r, FinishKeepsChannel DEF ServeRecordStart, Handling, requestVars
<1>24. CASE RefuseRecordStart
  BY <1>24, <1>r, FinishKeepsChannel DEF RefuseRecordStart, Handling, requestVars
<1>25. CASE ServeRecordStop
  BY <1>25, <1>r, FinishKeepsChannel DEF ServeRecordStop, Handling, requestVars
<1>26. CASE AutoStop
  BY <1>26 DEF AutoStop, requestVars, WorkerInv, ChannelInv, AnswersMatch
<1>27. CASE ListDisplays
  BY <1>27 DEF ListDisplays, requestVars, WorkerInv, ChannelInv, AnswersMatch
<1> QED
  BY <1>1, <1>2, <1>3, <1>4, <1>5, <1>6, <1>7, <1>8, <1>9, <1>10, <1>11, <1>12,
     <1>13, <1>14, <1>15, <1>16, <1>17, <1>18, <1>19, <1>20, <1>21, <1>22,
     <1>23, <1>24, <1>25, <1>26, <1>27
  DEF Next, RequestNext, WorkerNext, Serve

-----------------------------------------------------------------------------
\* The desktop moves only when the displays are opened or a layout applied,
\* and neither happens while a recording runs.
LEMMA NextRecording == CuadInv /\ [Next]_vars => RecordingKeepsDesktop'
<1> SUFFICES ASSUME CuadInv, [Next]_vars PROVE RecordingKeepsDesktop'
  OBVIOUS
<1> USE DEF CuadInv
\* Steps that leave the displays as they are and start no recording.
<1>s. ASSUME UNCHANGED <<heads, monitors>>, rec' \in {rec, NoRect}
      PROVE  RecordingKeepsDesktop'
  BY <1>s DEF RecordingKeepsDesktop, Desk
<1>n. ASSUME rec' = NoRect PROVE RecordingKeepsDesktop'
  BY <1>n DEF RecordingKeepsDesktop
<1>1. CASE UNCHANGED vars
  BY <1>1, <1>s DEF vars
<1>2. CASE Boot
  BY <1>2, <1>s DEF Boot
<1>3. CASE BootFails
  BY <1>3, <1>s DEF BootFails, vars
<1>4. CASE BootDone
  BY <1>4, <1>n DEF BootDone, StartInv
<1>5. CASE Crash
  BY <1>5, <1>n DEF Crash
<1>6. CASE Replug
  BY <1>6, <1>s DEF Replug
<1>7. ASSUME NEW op \in Request, NEW lay \in Monitors, Accept(op, lay)
      PROVE  RecordingKeepsDesktop'
  BY <1>7, <1>s DEF Accept
<1>8. CASE AcceptFails
  BY <1>8, <1>s DEF AcceptFails, workerVars
<1>9. CASE Relay
  BY <1>9, <1>s DEF Relay, workerVars
<1>10. CASE LayoutApplied
  BY <1>10, <1>s DEF LayoutApplied, workerVars
<1>11. CASE LayoutNotFollowed
  BY <1>11, <1>s DEF LayoutNotFollowed, workerVars
<1>12. CASE StatusDisplays
  BY <1>12, <1>s DEF StatusDisplays, workerVars
<1>13. CASE StatusFails
  BY <1>13, <1>s DEF StatusFails, workerVars
<1>14. CASE StatusAnswer
  BY <1>14, <1>s DEF StatusAnswer, workerVars
<1>15. CASE TimeOut
  BY <1>15, <1>s DEF TimeOut
<1>16. CASE Take
  BY <1>16, <1>s DEF Take
<1>17. CASE TakeChanged
  BY <1>17, <1>s DEF TakeChanged
<1>18. CASE Enumerate
  BY <1>18, <1>n DEF Enumerate, WorkerInv
<1>19. CASE EnumerateFails
  BY <1>19, <1>s DEF EnumerateFails
<1>20. CASE ServeRead
  BY <1>20, <1>s DEF ServeRead
<1>21. CASE ServeSetLayout
  BY <1>21, <1>n DEF ServeSetLayout, LayoutAccepted
<1>22. CASE RefuseSetLayout
  BY <1>22, <1>s DEF RefuseSetLayout
<1>23. CASE ServeRecordStart
  BY <1>23 DEF ServeRecordStart, RecordingKeepsDesktop, Desk
<1>24. CASE RefuseRecordStart
  BY <1>24, <1>s DEF RefuseRecordStart
<1>25. CASE ServeRecordStop
  BY <1>25, <1>s DEF ServeRecordStop
<1>26. CASE AutoStop
  BY <1>26, <1>s DEF AutoStop
<1>27. CASE ListDisplays
  BY <1>27, <1>s DEF ListDisplays
<1> QED
  BY <1>1, <1>2, <1>3, <1>4, <1>5, <1>6, <1>7, <1>8, <1>9, <1>10, <1>11, <1>12,
     <1>13, <1>14, <1>15, <1>16, <1>17, <1>18, <1>19, <1>20, <1>21, <1>22,
     <1>23, <1>24, <1>25, <1>26, <1>27
  DEF Next, RequestNext, WorkerNext, Serve

\* After sync_pointer the range is the desktop if it was going to be.
LEMMA SyncPointerAims ==
  ASSUME TypeOK, drift = {} => NextRange = Desk, NEW ok, SyncPointer(ok),
         UNCHANGED <<heads, monitors>>
  PROVE  /\ drift' = {} => NextRange' = Desk'
         /\ ok /\ drift' = {} => ptr' = Desk
<1>1. Desk' = Desk
  BY DEF Desk
<1>2. NextRange' = ptr' /\ slot' = NoRect
  BY DEF SyncPointer, NextRange
<1>3. CASE ok
  BY <1>1, <1>2, <1>3 DEF SyncPointer, SetDesktop, Blame
<1>4. CASE ~ok
  BY <1>1, <1>2, <1>4 DEF SyncPointer, SetDesktop, Blame
<1> QED
  BY <1>3, <1>4

\* Every step keeps the pointer on the desktop, or remembers why it is not.
LEMMA NextPointer == CuadInv /\ [Next]_vars => PointerTracksDesktop'
<1> SUFFICES ASSUME CuadInv, [Next]_vars PROVE PointerTracksDesktop'
  OBVIOUS
<1> USE DEF CuadInv
\* Steps that move neither the desktop nor the range, and answer no command.
<1>s. ASSUME UNCHANGED <<heads, monitors, slot, ptr, drift>>,
             rpc' = rpc \/ rpc' \in {"down", "boot"} \/ (rpc = "wait" /\ reply = NoReply),
             rq' = rq \/ rpc' # "wait",
             reply' = reply
      PROVE  PointerTracksDesktop'
  BY <1>s DEF PointerTracksDesktop, LayoutPending, Answered, NextRange, Desk
\* Steps that end the wait for, or are, something else than a SetLayout.
<1>p. ASSUME ~LayoutPending, rpc \in {"idle", "wait"} PROVE drift = {} => NextRange = Desk
  BY <1>p DEF PointerTracksDesktop
<1>f. ASSUME NextRange = Desk \/ drift # {}, UNCHANGED <<heads, monitors, slot, ptr, drift>>,
             ~LayoutPending'
      PROVE  PointerTracksDesktop'
  BY <1>f DEF PointerTracksDesktop, NextRange, Desk
\* Handlers other than SetLayout.
<1>h. ASSUME wpc = "serve", job.op # "SetLayout", NEW ok \in BOOLEAN, Finish(ok, Desk),
             UNCHANGED <<heads, monitors, slot, ptr, drift, rpc, rq>>
      PROVE  PointerTracksDesktop'
  <2>1. reply = NoReply /\ ~LayoutPending
    BY <1>h DEF ChannelInv, LayoutPending, Answered
  <2>2. ~LayoutPending'
    <3>1. CASE job.live
      <4>1. rpc = "wait" /\ job.op = rq.ask
        BY <3>1, <2>1 DEF ChannelInv, AnswersMatch
      <4> QED
        BY <1>h, <4>1 DEF LayoutPending, Answered
    <3>2. CASE ~job.live
      BY <1>h, <2>1, <3>2 DEF LayoutPending, Answered, Finish
    <3> QED
      BY <3>1, <3>2
  <2>3. rpc \in {"idle", "wait"}
    BY <1>h DEF StartInv, TypeOK
  <2> QED
    BY <1>h, <1>f, <1>p, <2>1, <2>2, <2>3
<1>1. CASE UNCHANGED vars
  BY <1>1, <1>s DEF vars
<1>2. CASE Boot
  BY <1>2, <1>s DEF Boot
<1>3. CASE BootFails
  BY <1>3, <1>s DEF BootFails, vars
<1>4. CASE BootDone
  <2>1. slot' = NoRect
    BY <1>4 DEF BootDone, StartInv
  <2> QED
    BY <1>4, <2>1 DEF BootDone, PointerTracksDesktop, LayoutPending, Answered, NextRange, Desk
<1>5. CASE Crash
  BY <1>5 DEF Crash, PointerTracksDesktop, LayoutPending, Answered
<1>6. CASE Replug
  BY <1>6, <1>s DEF Replug
<1>7. ASSUME NEW op \in Request, NEW lay \in Monitors, Accept(op, lay)
      PROVE  PointerTracksDesktop'
  <2>1. reply = NoReply /\ reply' = NoReply /\ rpc = "idle"
    BY <1>7 DEF Accept, ChannelInv
  <2>2. drift = {} => NextRange = Desk
    BY <1>p, <2>1 DEF LayoutPending, Answered
  <2>3. drift' = {} => NextRange' = Desk'
    BY <1>7, <2>2, SyncPointerAims DEF Accept
  <2> QED
    BY <2>1, <2>3 DEF PointerTracksDesktop, LayoutPending, Answered
<1>8. CASE AcceptFails
  <2>1. reply = NoReply /\ reply' = NoReply /\ rpc = "idle"
    BY <1>8 DEF AcceptFails, ChannelInv
  <2>2. drift = {} => NextRange = Desk
    BY <1>p, <2>1 DEF LayoutPending, Answered
  <2>3. drift' = {} => NextRange' = Desk'
    BY <1>8, <2>2, SyncPointerAims DEF AcceptFails, workerVars
  <2> QED
    BY <2>1, <2>3 DEF PointerTracksDesktop, LayoutPending, Answered
<1>9. CASE Relay
  <2>1. ~LayoutPending /\ rpc = "wait"
    BY <1>9 DEF Relay, LayoutPending, Answered
  <2> QED
    BY <1>9, <1>f, <1>p, <2>1 DEF Relay, Consume, LayoutPending, Answered, workerVars
<1>10. CASE LayoutApplied
  <2>1. LayoutPending /\ reply' = NoReply /\ Desk' = Desk
    BY <1>10 DEF LayoutApplied, LayoutPending, Consume, Desk, workerVars
  <2>2. NextRange' = IF slot = NoRect THEN reply.desktop ELSE slot
    BY <1>10 DEF LayoutApplied, NextRange
  <2>3. drift' = {} => NextRange' = Desk
    BY <1>10, <2>1, <2>2 DEF LayoutApplied, Blame, PointerTracksDesktop
  <2> QED
    BY <2>1, <2>3 DEF PointerTracksDesktop, LayoutPending, Answered
<1>11. CASE LayoutNotFollowed
  <2>1. reply' = NoReply /\ Desk' = Desk /\ NextRange' = NextRange
    BY <1>11 DEF LayoutNotFollowed, SetDesktop, Consume, Desk, NextRange, workerVars
  <2>2. drift' = {} => NextRange = Desk
    BY <1>11 DEF LayoutNotFollowed, Blame
  <2> QED
    BY <2>1, <2>2 DEF PointerTracksDesktop, LayoutPending, Answered
<1>12. CASE StatusDisplays
  <2>1. ~LayoutPending /\ rpc = "wait" /\ reply' = NoReply
    BY <1>12 DEF StatusDisplays, LayoutPending, Answered, Consume
  <2>2. drift' = {} => NextRange' = Desk'
    BY <1>12, <1>p, <2>1, SyncPointerAims DEF StatusDisplays, workerVars
  <2> QED
    BY <2>1, <2>2 DEF PointerTracksDesktop, LayoutPending, Answered
<1>13. CASE StatusFails
  <2>1. ~LayoutPending /\ rpc = "wait" /\ reply' = NoReply
    BY <1>13 DEF StatusFails, LayoutPending, Answered, Consume
  <2>2. drift' = {} => NextRange' = Desk'
    BY <1>13, <1>p, <2>1, SyncPointerAims DEF StatusFails, workerVars
  <2> QED
    BY <2>1, <2>2 DEF PointerTracksDesktop, LayoutPending, Answered
<1>14. CASE StatusAnswer
  <2>1. ~LayoutPending /\ rpc = "wait" /\ ~LayoutPending'
    BY <1>14 DEF StatusAnswer, LayoutPending, Answered, Consume
  <2> QED
    BY <1>14, <1>f, <1>p, <2>1 DEF StatusAnswer, workerVars
<1>15. CASE TimeOut
  <2>1. ~LayoutPending /\ rpc = "wait" /\ ~LayoutPending'
    BY <1>15 DEF TimeOut, LayoutPending, Answered
  <2> QED
    BY <1>15, <1>f, <1>p, <2>1 DEF TimeOut
<1>16. CASE Take
  BY <1>16, <1>s DEF Take, requestVars
<1>17. CASE TakeChanged
  BY <1>17, <1>s DEF TakeChanged, requestVars
<1>18. CASE Enumerate
  <2>1. ~LayoutPending'
    BY <1>18 DEF Enumerate, ChannelInv, LayoutPending, Answered
  <2>2. slot' = Desk' /\ slot' # NoRect
    <3>1. heads' \in Live /\ monitors' \in Monitors
      BY <1>18, KeptIsMonitors DEF Enumerate, OpenHeads, TypeOK
    <3> QED
      BY <1>18, <3>1, DeskIsRect DEF Enumerate, Desk
  <2> QED
    BY <2>1, <2>2 DEF PointerTracksDesktop, NextRange
<1>19. CASE EnumerateFails
  BY <1>19, <1>s DEF EnumerateFails, requestVars
<1>20. CASE ServeRead
  BY <1>20, <1>h DEF ServeRead, Handling, Look, requestVars
<1>21. CASE ServeSetLayout
  <2> DEFINE new == Place(heads, job.lay)
  <2>1. /\ reply = NoReply /\ rpc \in {"idle", "wait"} /\ ~LayoutPending
        /\ rq' = rq /\ rpc' = rpc /\ slot' = slot /\ ptr' = ptr /\ Desk' = new
    BY <1>21 DEF ServeSetLayout, Handling, ChannelInv, StartInv, TypeOK,
       LayoutPending, Answered, Desk, requestVars
  <2>2. CASE ~job.live
    <3>1. ~LayoutPending'
      BY <1>21, <2>1, <2>2 DEF ServeSetLayout, Finish, LayoutPending, Answered
    <3>2. drift' = {} => NextRange = new
      BY <1>21, <2>2 DEF ServeSetLayout
    <3> QED
      BY <2>1, <3>1, <3>2 DEF PointerTracksDesktop, NextRange
  <2>3. CASE job.live
    <3>1. reply' = [op |-> job.op, ok |-> TRUE, desktop |-> new]
      BY <1>21, <2>3 DEF ServeSetLayout, Finish
    <3>2. rpc = "wait" /\ rq.ask = "SetLayout" /\ job.op = "SetLayout"
      BY <1>21, <2>3 DEF ServeSetLayout, Handling, ChannelInv, AnswersMatch
    <3>3. LayoutPending' /\ reply'.desktop = Desk'
      BY <2>1, <3>1, <3>2 DEF LayoutPending, Answered, NoReply
    <3>4. drift' = {} => slot \in {NoRect, new}
      <4>1. CASE NextRange = new
        BY <4>1 DEF NextRange
      <4>2. CASE NextRange # new /\ slot # NoRect
        BY <1>21, <2>3, <4>2 DEF ServeSetLayout
      <4> QED
        BY <4>1, <4>2
    <3> QED
      BY <2>1, <3>3, <3>4 DEF PointerTracksDesktop
  <2> QED
    BY <2>2, <2>3
<1>22. CASE RefuseSetLayout
  <2>1. /\ reply = NoReply /\ rpc \in {"idle", "wait"} /\ ~LayoutPending
        /\ ~LayoutPending'
    BY <1>22, Nothings DEF RefuseSetLayout, Handling, Finish, ChannelInv, StartInv,
       TypeOK, LayoutPending, Answered
  <2> QED
    BY <1>22, <1>f, <1>p, <2>1 DEF RefuseSetLayout, requestVars
<1>23. CASE ServeRecordStart
  BY <1>23, <1>h DEF ServeRecordStart, Handling, requestVars
<1>24. CASE RefuseRecordStart
  BY <1>24, <1>h DEF RefuseRecordStart, Handling, requestVars
<1>25. CASE ServeRecordStop
  BY <1>25, <1>h DEF ServeRecordStop, Handling, requestVars
<1>26. CASE AutoStop
  BY <1>26, <1>s DEF AutoStop, requestVars
<1>27. CASE ListDisplays
  BY <1>27, <1>s DEF ListDisplays, requestVars
<1> QED
  BY <1>1, <1>2, <1>3, <1>4, <1>5, <1>6, <1>7, <1>8, <1>9, <1>10, <1>11, <1>12,
     <1>13, <1>14, <1>15, <1>16, <1>17, <1>18, <1>19, <1>20, <1>21, <1>22,
     <1>23, <1>24, <1>25, <1>26, <1>27
  DEF Next, RequestNext, WorkerNext, Serve

\* Every step keeps what status() reads and reports in agreement.
LEMMA NextStatus == CuadInv /\ [Next]_vars => StatusInv'
<1> SUFFICES ASSUME CuadInv, [Next]_vars PROVE StatusInv'
  OBVIOUS
<1> USE DEF CuadInv
\* Steps that leave the threads, the pointer and the displays alone.
<1>s. ASSUME UNCHANGED <<heads, monitors, queue, job, ptr, drift, rq, reply>>,
             rpc' = rpc \/ rpc' # "wait"
      PROVE  StatusInv'
  BY <1>s DEF StatusInv, StatusCoherent, Desk
\* Steps after which the request thread does not wait for Info.
<1>w. ASSUME rpc' # "wait" \/ rq'.ask # "Info", reply' = NoReply
      PROVE  StatusInv'
  BY <1>w DEF StatusInv, StatusCoherent
\* Handlers other than SetLayout.
<1>h. ASSUME wpc = "serve", NEW ok \in BOOLEAN, Finish(ok, Desk),
             UNCHANGED <<heads, monitors, queue, ptr, drift, rpc, rq>>
      PROVE  StatusInv'
  <2>1. job' = NoJob /\ job'.op = "None" /\ reply = NoReply
    BY <1>h DEF Finish, NoJob, ChannelInv
  <2>2. reply' # NoReply => reply'.desktop = Desk'
    BY <1>h, <2>1 DEF Finish, Desk
  <2> QED
    BY <1>h, <2>1, <2>2 DEF StatusInv, StatusCoherent
\* A command is received.
<1>t. ASSUME wpc = "idle", queue # << >>, job' = Head(queue), queue' = Tail(queue),
             UNCHANGED <<heads, monitors, ptr, drift, rpc, rq, reply>>
      PROVE  StatusInv'
  <2>1. /\ job' = queue[1] /\ 1 \in 1..Len(queue)
        /\ Len(queue') = Len(queue) - 1 /\ Len(queue) \in Nat
        /\ \A i \in 1..Len(queue') : queue'[i] = queue[i + 1]
    BY <1>t, TakeFirst DEF TypeOK
  <2>2. \A i \in 1..Len(queue') : i + 1 \in 1..Len(queue)
    BY <2>1
  <2> QED
    BY <1>t, <2>1, <2>2 DEF StatusInv, StatusCoherent, Desk
<1>1. CASE UNCHANGED vars
  BY <1>1, <1>s DEF vars
<1>2. CASE Boot
  BY <1>2, <1>s DEF Boot
<1>3. CASE BootFails
  BY <1>3, <1>s DEF BootFails, vars
<1>4. CASE BootDone
  BY <1>4, <1>w DEF BootDone, ChannelInv
<1>5. CASE Crash
  BY <1>5, <1>w DEF Crash
<1>6. CASE Replug
  BY <1>6, <1>s DEF Replug
<1>7. ASSUME NEW op \in Request, NEW lay \in Monitors, Accept(op, lay)
      PROVE  StatusInv'
  <2>1. reply' = NoReply /\ rpc = "idle"
    BY <1>7 DEF Accept, ChannelInv
  <2>2. CASE op \in {"Ping", "Input"}
    BY <1>7, <1>w, <2>1, <2>2 DEF Accept
  <2>3. CASE op \notin {"Ping", "Input"}
    <3>1. rq'.ask = FirstAsk(op)
      BY <1>7, <2>3 DEF Accept
    <3>2. FirstAsk(op) # "Info"
      BY DEF FirstAsk, Request, Cmd, Look
    <3> QED
      BY <1>w, <2>1, <3>1, <3>2
  <2> QED
    BY <2>2, <2>3
<1>8. CASE AcceptFails
  BY <1>8, <1>w DEF AcceptFails, ChannelInv, workerVars
<1>9. CASE Relay
  BY <1>9, <1>w DEF Relay, Idle, Consume
<1>10. CASE LayoutApplied
  <2>1. rq \in Serving
    BY <1>10 DEF LayoutApplied, Answered, TypeOK, ChannelInv
  <2>2. rq'.ask = "Displays"
    BY <1>10, <2>1 DEF LayoutApplied, Serving
  <2> QED
    BY <1>10, <1>w, <2>2 DEF LayoutApplied, Consume
<1>11. CASE LayoutNotFollowed
  BY <1>11, <1>w DEF LayoutNotFollowed, Idle, Consume
<1>12. CASE StatusDisplays
  <2>1. /\ rpc = "wait" /\ reply # NoReply /\ rq \in Serving /\ queue = << >>
        /\ job = NoJob /\ reply' = NoReply /\ job' = job
        /\ UNCHANGED <<heads, monitors>>
    BY <1>12 DEF StatusDisplays, Answered, TypeOK, ChannelInv, WorkerInv, Consume, workerVars
  <2>2. queue' = Append(queue, [op |-> "Info", lay |-> rq.lay, live |-> TRUE])
    BY <1>12 DEF StatusDisplays, Send
  <2>3. \A i \in 1..Len(queue') : queue'[i].op = "Info"
    <3>1. [op |-> "Info", lay |-> rq.lay, live |-> TRUE] \in Job
      BY <2>1 DEF Job, Serving, Cmd
    <3>2. Len(queue') = 1 /\ queue'[1] = [op |-> "Info", lay |-> rq.lay, live |-> TRUE]
      BY <2>1, <2>2, <3>1 DEF TypeOK
    <3> QED
      BY <3>2
  <2>4. ~LayoutPending
    BY <1>12 DEF StatusDisplays, LayoutPending, Answered
  <2>5. drift' = {} => ptr' = Desk
    BY <1>12, <2>1, <2>4, SyncPointerAims DEF StatusDisplays, PointerTracksDesktop
  <2>6. rq'.shown = reply.desktop
    BY <1>12, <2>1 DEF StatusDisplays, Serving
  <2>7. reply.desktop = Desk
    BY <2>1 DEF StatusInv
  <2> QED
    BY <2>1, <2>3, <2>5, <2>6, <2>7 DEF StatusInv, StatusCoherent, NoJob
<1>13. CASE StatusFails
  BY <1>13, <1>w DEF StatusFails, Idle, Consume
<1>14. CASE StatusAnswer
  BY <1>14, <1>w DEF StatusAnswer, Idle, Consume
<1>15. CASE TimeOut
  BY <1>15, <1>w DEF TimeOut, Idle
<1>16. CASE Take
  BY <1>16, <1>t DEF Take, requestVars
<1>17. CASE TakeChanged
  BY <1>17, <1>t DEF TakeChanged, requestVars
<1>18. CASE Enumerate
  <2>1. reply' = NoReply /\ rq' = rq /\ rpc' = rpc
    BY <1>18 DEF Enumerate, ChannelInv, requestVars
  <2>2. ~(rpc = "wait" /\ rq.ask = "Info")
    BY <1>18 DEF Enumerate, WorkerInv, StatusInv, Look
  <2> QED
    BY <1>w, <2>1, <2>2
<1>19. CASE EnumerateFails
  BY <1>19, <1>s DEF EnumerateFails, requestVars
<1>20. CASE ServeRead
  BY <1>20, <1>h DEF ServeRead, Handling, requestVars
<1>21. CASE ServeSetLayout
  <2>1. reply = NoReply /\ rq' = rq /\ rpc' = rpc /\ ~(rpc = "wait" /\ rq.ask = "Info")
    BY <1>21 DEF ServeSetLayout, Handling, ChannelInv, StatusInv, requestVars
  <2>2. reply' # NoReply => reply'.desktop = Desk'
    BY <1>21, <2>1 DEF ServeSetLayout, Finish, Desk
  <2> QED
    BY <2>1, <2>2 DEF StatusInv, StatusCoherent
<1>22. CASE RefuseSetLayout
  BY <1>22, <1>h DEF RefuseSetLayout, Handling, requestVars
<1>23. CASE ServeRecordStart
  BY <1>23, <1>h DEF ServeRecordStart, Handling, requestVars
<1>24. CASE RefuseRecordStart
  BY <1>24, <1>h DEF RefuseRecordStart, Handling, requestVars
<1>25. CASE ServeRecordStop
  BY <1>25, <1>h DEF ServeRecordStop, Handling, requestVars
<1>26. CASE AutoStop
  BY <1>26, <1>s DEF AutoStop, requestVars
<1>27. CASE ListDisplays
  BY <1>27, <1>s DEF ListDisplays, requestVars
<1> QED
  BY <1>1, <1>2, <1>3, <1>4, <1>5, <1>6, <1>7, <1>8, <1>9, <1>10, <1>11, <1>12,
     <1>13, <1>14, <1>15, <1>16, <1>17, <1>18, <1>19, <1>20, <1>21, <1>22,
     <1>23, <1>24, <1>25, <1>26, <1>27
  DEF Next, RequestNext, WorkerNext, Serve

-----------------------------------------------------------------------------
\* Every step keeps what was confirmed, and what is being saved, on the disk.
LEMMA NextSaved == CuadInv /\ [Next]_vars => SavedInv'
<1> SUFFICES ASSUME CuadInv, [Next]_vars PROVE SavedInv'
  OBVIOUS
<1> USE DEF SavedInv, AckedLayoutSaved
<1>0. SavedInv
  BY DEF CuadInv
\* Steps that leave the request and the file alone, or end the request.
<1>s. ASSUME UNCHANGED <<file, acked>>, UNCHANGED <<rq, rpc>> \/ rpc' # "wait"
      PROVE  SavedInv'
  BY <1>0, <1>s
<1>1. ASSUME NEW op \in Request, NEW lay \in Monitors, Accept(op, lay)
      PROVE  SavedInv'
  <2>1. CASE op \in {"Ping", "Input"}
    BY <1>1, <1>0, <2>1 DEF Accept
  <2>2. CASE op \notin {"Ping", "Input"}
    <3>1. rq' = [op |-> op, lay |-> lay, ask |-> FirstAsk(op),
                 shown |-> NoRect, saved |-> FALSE]
      BY <1>1, <2>2 DEF Accept
    <3>2. FirstAsk(op) = "SetLayout" => op = "SetLayout"
      BY DEF FirstAsk
    <3> QED
      BY <1>1, <1>0, <3>1, <3>2 DEF Accept
  <2> QED
    BY <2>1, <2>2
<1>2. CASE LayoutApplied
  <2>1. rq \in Serving /\ rpc = "wait" /\ rq.ask = "SetLayout"
    BY <1>2 DEF LayoutApplied, Answered, CuadInv, TypeOK, ChannelInv
  <2>2. rq.op = "SetLayout" /\ acked = {} /\ (rq.saved => file = rq.lay)
    BY <1>0, <2>1
  <2>3. /\ rq'.op = rq.op /\ rq'.lay = rq.lay
        /\ file' = rq.lay \/ (rq'.saved = rq.saved /\ file' = file)
    <3>1. CASE file' = SaveLayout(rq.lay) /\ rq' = [rq EXCEPT !.ask = "Displays", !.saved = TRUE]
      BY <2>1, <3>1 DEF SaveLayout, Serving
    <3>2. CASE file' = file /\ rq' = [rq EXCEPT !.ask = "Displays"]
      BY <2>1, <3>2 DEF Serving
    <3> QED
      BY <1>2, <3>1, <3>2 DEF LayoutApplied
  <2> QED
    BY <1>2, <2>2, <2>3 DEF LayoutApplied
<1>3. CASE StatusDisplays
  <2>1. rq \in Serving /\ rpc = "wait" /\ rq.ask = "Displays"
    BY <1>3 DEF StatusDisplays, Answered, CuadInv, TypeOK, ChannelInv
  <2>2. rq'.op = rq.op /\ rq'.lay = rq.lay /\ rq'.saved = rq.saved /\ rq'.ask = "Info"
    BY <1>3, <2>1 DEF StatusDisplays, Serving
  <2> QED
    BY <1>3, <1>0, <2>1, <2>2 DEF StatusDisplays
<1>4. CASE StatusAnswer
  <2>1. rpc = "wait" /\ rpc' # "wait" /\ file' = file
    BY <1>4 DEF StatusAnswer, Answered, Idle
  <2>2. CASE rq.op = "SetLayout"
    <3>1. acked' = {[lay |-> rq.lay, saved |-> rq.saved]}
      BY <1>4, <2>2 DEF StatusAnswer
    <3> QED
      BY <1>0, <2>1, <2>2, <3>1
  <2>3. CASE rq.op # "SetLayout"
    BY <1>4, <1>0, <2>1, <2>3 DEF StatusAnswer
  <2> QED
    BY <2>2, <2>3
<1>5. CASE AcceptFails \/ Relay \/ LayoutNotFollowed \/ StatusFails \/ TimeOut
  BY <1>5, <1>s
     DEF AcceptFails, Relay, LayoutNotFollowed, StatusFails, TimeOut, Idle
<1>6. CASE WorkerNext
  BY <1>6, <1>s
     DEF WorkerNext, Serve, Take, TakeChanged, ListDisplays, Enumerate, EnumerateFails, ServeRead,
         ServeSetLayout, RefuseSetLayout, ServeRecordStart, RefuseRecordStart,
         ServeRecordStop, AutoStop, requestVars
<1>7. CASE Boot \/ BootFails \/ BootDone \/ Crash \/ Replug \/ UNCHANGED vars
  BY <1>7, <1>s DEF Boot, BootFails, BootDone, Crash, Replug, vars
<1> QED
  BY <1>1, <1>2, <1>3, <1>4, <1>5, <1>6, <1>7 DEF Next, RequestNext

\* Every step keeps what the contexts know of the topology.
LEMMA NextFresh == CuadInv /\ [Next]_vars => FreshInv'
<1> SUFFICES ASSUME CuadInv, [Next]_vars PROVE FreshInv'
  OBVIOUS
<1> USE DEF FreshInv, ReadsAreFresh, Handling
<1>0. FreshInv /\ TypeOK /\ StartInv /\ WorkerInv
  BY DEF CuadInv
<1>r. Primary \in Display
  BY <1>0, RangeIsRect
\* Steps that leave the displays and the command alone.
<1>s. ASSUME UNCHANGED <<heads, seen, monitors, wpc, job, listed, rec, blind>>,
             rpc' \in {"idle", "wait"} => rpc \in {"idle", "wait"}
      PROVE  FreshInv'
  BY <1>0, <1>s DEF Primary
\* Steps after which no command is handled, with the same displays.
<1>i. ASSUME UNCHANGED <<heads, seen, blind, rpc>>, wpc \notin {"list", "enum"}, wpc' = "idle"
      PROVE  FreshInv'
  BY <1>0, <1>i
<1>1. CASE Take
  <2>1. /\ wpc = "idle" /\ wpc' = "serve" /\ job' = Head(queue)
        /\ UNCHANGED <<heads, seen, monitors, rec, blind, rpc>>
    BY <1>1 DEF Take, requestVars
  <2>2. rpc \in {"idle", "wait"}
    BY <1>0, <1>1 DEF Take, TypeOK, StartInv
  <2>3. CASE Checks(Head(queue).op)
    <3>1. listed' = topo /\ seen[Primary] = topo
      BY <1>1, <2>3 DEF Take
    <3> QED
      BY <1>0, <1>r, <2>1, <2>2, <3>1
  <2>4. CASE ~Checks(Head(queue).op)
    BY <1>0, <2>1, <2>2, <2>4 DEF Checks
  <2> QED
    BY <2>3, <2>4
<1>2. CASE TakeChanged
  <2>1. /\ wpc = "idle" /\ wpc' = "list"
        /\ seen' = [seen EXCEPT ![Primary] = topo]
        /\ UNCHANGED <<heads, monitors, blind, rpc>>
    BY <1>2 DEF TakeChanged, requestVars
  <2>2. Primary' = Primary
    BY <2>1 DEF Primary
  <2> QED
    BY <1>0, <2>1, <2>2 DEF TypeOK
<1>14. CASE ListDisplays
  <2>1. /\ wpc = "list" /\ wpc' = "enum"
        /\ UNCHANGED <<heads, seen, monitors, blind, rpc>>
    BY <1>14 DEF ListDisplays, requestVars
  <2> QED
    BY <1>0, <2>1 DEF Primary
<1>3. CASE Enumerate
  BY <1>3, <1>0 DEF Enumerate, OpenHeads
<1>4. CASE EnumerateFails
  <2>1. /\ wpc = "enum" /\ wpc' = "serve"
        /\ UNCHANGED <<heads, seen, monitors, listed, rpc>>
        /\ blind' = {} => blind = {} /\ listed \notin Live /\ seen[Primary] = listed
    BY <1>4 DEF EnumerateFails, requestVars
  <2> QED
    BY <1>0, <2>1
<1>5. CASE Serve
  BY <1>5, <1>i
     DEF Serve, ServeRead, ServeSetLayout, RefuseSetLayout, ServeRecordStart,
         RefuseRecordStart, ServeRecordStop, Finish, requestVars
<1>6. CASE AutoStop
  BY <1>6, <1>i DEF AutoStop, requestVars
<1>7. ASSUME NEW op \in Request, NEW lay \in Monitors, Accept(op, lay)
      PROVE  FreshInv'
  BY <1>7, <1>s DEF Accept
<1>8. CASE AcceptFails \/ Relay \/ LayoutApplied \/ LayoutNotFollowed
           \/ StatusDisplays \/ StatusFails \/ StatusAnswer
  BY <1>8, <1>s
     DEF AcceptFails, Relay, LayoutApplied, LayoutNotFollowed, StatusDisplays,
         StatusFails, StatusAnswer, Answered, Idle, workerVars
<1>9. CASE TimeOut
  <2>1. /\ rpc = "wait"
        /\ UNCHANGED <<heads, seen, monitors, wpc, listed, rec, blind>>
        /\ job' = job \/ job' = Orphan(job)
    BY <1>9 DEF TimeOut
  <2>2. job' \in Job \cup {NoJob} /\ (job'.op \in Look => job.op \in Look)
    BY <1>0, <1>9, <2>1 DEF TimeOut, TypeOK, Job, Orphan, NoJob
  <2> QED
    BY <1>0, <2>1, <2>2 DEF Primary
<1>10. CASE Boot
  BY <1>10, <1>0 DEF Boot, StartInv
<1>11. CASE BootDone
  BY <1>11, <1>0 DEF BootDone, OpenHeads, StartInv
<1>12. CASE Crash
  BY <1>12 DEF Crash
<1>13. CASE BootFails \/ Replug \/ UNCHANGED vars
  BY <1>13, <1>s DEF BootFails, Replug, vars
<1> QED
  BY <1>1, <1>2, <1>3, <1>4, <1>5, <1>6, <1>7, <1>8, <1>9, <1>10, <1>11, <1>12, <1>13, <1>14
     DEF Next, RequestNext, WorkerNext

-----------------------------------------------------------------------------
\* The invariant holds in every reachable state.
THEOREM Invariance == Spec => []CuadInv
<1>1. Init => CuadInv
  BY InitInv
<1>2. CuadInv /\ [Next]_vars => CuadInv'
  <2> SUFFICES ASSUME CuadInv, [Next]_vars PROVE CuadInv'
    OBVIOUS
  <2>1. TypeOK' /\ StartInv'
    BY NextType DEF CuadInv
  <2> QED
    BY <2>1, NextChannel, NextRecording, NextPointer, NextStatus, NextSaved, NextFresh
       DEF CuadInv
<1> QED
  BY <1>1, <1>2, PTL DEF Spec

\* The pointer's range leaves the desktop for three reasons only.
THEOREM PointerTracks == Spec => []PointerTracksDesktop
<1>1. CuadInv => PointerTracksDesktop
  BY DEF CuadInv
<1> QED
  BY <1>1, Invariance, PTL

\* A recording's frames keep the size it was started with.
THEOREM RecordingKeeps == Spec => []RecordingKeepsDesktop
<1>1. CuadInv => RecordingKeepsDesktop
  BY DEF CuadInv
<1> QED
  BY <1>1, Invariance, PTL

\* Late answers never reach a request that did not ask for them.
THEOREM AnswersAreOwn == Spec => []AnswersMatch
<1>1. CuadInv => AnswersMatch
  BY DEF CuadInv, ChannelInv
<1> QED
  BY <1>1, Invariance, PTL

\* What status() reports of the displays and of the pointer is one desktop.
THEOREM StatusAgrees == Spec => []StatusCoherent
<1>1. CuadInv => StatusCoherent
  BY DEF CuadInv, StatusInv
<1> QED
  BY <1>1, Invariance, PTL

\* server.rs, SetLayout: what a client was told is in place is what the next
\* start reads, whatever dies or times out in between, unless the save failed,
\* which is logged and not told.
THEOREM ConfirmedIsSaved == Spec => []AckedLayoutSaved
<1>1. CuadInv => AckedLayoutSaved
  BY DEF CuadInv, SavedInv
<1> QED
  BY <1>1, Invariance, PTL

\* server.rs, hotplug: displays are read through contexts that were opened for
\* what was plugged in when the hotplug check looked or listed, but for what a
\* failed re-enumeration has missed, or one during which a monitor changed.
THEOREM ReadsHold == Spec => []ReadsAreFresh
<1>1. CuadInv => ReadsAreFresh
  BY DEF CuadInv, FreshInv
<1> QED
  BY <1>1, Invariance, PTL
=============================================================================
