-------------------------------- MODULE Cuad --------------------------------
(***************************************************************************)
(* The capture daemon cuad: one request thread that serves connections one *)
(* at a time (server.rs, Daemon) and owns the virtual input devices, and   *)
(* one capture thread (server.rs, CaptureWorker) that owns the displays    *)
(* and the recorder.  They meet in three places: the command queue         *)
(* (capture_tx), a reply channel made for each command (ask), and the      *)
(* desktop_update slot through which the capture thread tells the request  *)
(* thread that the pointer's range must follow a hotplug.  Monitors may be *)
(* plugged at any moment, an answer may come after the 30 s the request    *)
(* thread waits, the uinput device, the displays or the disk may fail, and *)
(* the process may die and be started again.                               *)
(*                                                                         *)
(* Data is abstracted to what decides control: a topology, a layout and a  *)
(* desktop rect are values of constant sets, and what plan_layout computes *)
(* from a topology and a layout is given by the constants Fits, Desktop    *)
(* and PrimaryOf.                                                          *)
(***************************************************************************)
EXTENDS Naturals, Sequences

CONSTANTS
  Topology,     \* sets of connected displays, with their modes
  Live,         \* the topologies that have an active display
  Layout,       \* the non-empty layouts a client may push
  NoLayout,     \* the empty layout: the single-display default
  Fits,         \* <<t, l>>: plan_layout places the displays of t by l
  Rect,         \* desktop rects
  NoRect,       \* None
  Display,      \* indices of heads
  Desktop,      \* Desktop[t, l]: the union of the displays of t placed by l
  PrimaryOf,    \* PrimaryOf[t, l]: the display that is 1:1 with the desktop
  MaxChanges,   \* bound: topology changes
  MaxFaults,    \* bound: failures of uinput, DRM or the disk
  MaxTimeouts,  \* bound: answers that come after the 30 s of ask
  MaxCrashes,   \* bound: deaths of the process
  MaxTroubles   \* bound: failures, late answers and deaths together

Monitors == Layout \cup {NoLayout}

ASSUME PlanAssumption ==
  /\ Live \subseteq Topology
  /\ Live # {}
  /\ NoLayout \notin Layout
  /\ NoRect \notin Rect
  /\ Fits \subseteq Live \X Layout
  /\ Desktop \in [Live \X Monitors -> Rect]
  /\ PrimaryOf \in [Live \X Monitors -> Display]

ASSUME BoundAssumption ==
  /\ MaxChanges \in Nat
  /\ MaxFaults \in Nat
  /\ MaxTimeouts \in Nat
  /\ MaxCrashes \in Nat
  /\ MaxTroubles \in Nat

VARIABLES
  topo,      \* what is plugged in now
  heads,     \* Capturer.heads: the topology the contexts were opened for
  seen,      \* per head, the topology its context last compared with
  monitors,  \* Capturer.monitors: the layout in force
  rec,       \* CaptureWorker.recorder: the desktop its frame size is from
  queue,     \* commands sent and not received
  job,       \* the command the capture thread is handling
  wpc,       \* where in it
  listed,    \* the topology the handler's hotplug check found, then listed
  slot,      \* desktop_update
  ptr,       \* Input.desktop: the pointer's ABS range
  rq,        \* the request being served
  rpc,       \* where the request thread is
  reply,     \* the channel of the last ask
  file,      \* the saved layout; NoLayout when the file is absent
  acked,     \* history: {the layout a client last had confirmed, with
             \* whether it was saved}, empty when a SetLayout was accepted
             \* since
  drift,     \* history: why the pointer's range left the desktop
  blind,     \* history: why the contexts missed a topology
  bounds     \* how many faults of each kind happened

workerVars == <<heads, seen, monitors, rec, job, wpc, listed>>
requestVars == <<ptr, rq, rpc, file, acked>>
vars == <<topo, heads, seen, monitors, rec, queue, job, wpc, listed,
          slot, ptr, rq, rpc, reply, file, acked, drift, blind, bounds>>

-----------------------------------------------------------------------------
(* Commands and requests *)

\* Commands that begin with hotplug() and then read the displays.
Look == {"Displays", "Screenshot", "Cursor"}
Cmd == Look \cup {"Info", "SetLayout", "RecordStart", "RecordStop", "RecordStatus"}
Request == {"Ping", "Input", "Status"} \cup (Cmd \ {"Info"})

Job == [op : Cmd, lay : Monitors, live : BOOLEAN]
NoJob == [op |-> "None", lay |-> NoLayout, live |-> FALSE]

\* An answer, good or bad, with the desktop there was when it was sent.
Reply == [op : Cmd, ok : BOOLEAN, desktop : Rect]
NoReply == [op |-> "None", ok |-> FALSE, desktop |-> NoRect]

\* The request being served, the command it now waits for, the desktop the
\* Displays answer showed and whether the layout reached the disk.
Serving == [op : Request, lay : Monitors, ask : Cmd,
            shown : Rect \cup {NoRect}, saved : BOOLEAN]
NoRequest == [op |-> "None", lay |-> NoLayout, ask |-> "None",
              shown |-> NoRect, saved |-> FALSE]

\* What a client was told is in place, and what it was not told: whether the
\* save worked.
Confirmation == [lay : Monitors, saved : BOOLEAN]

Causes == {"fault", "timeout", "race"}
Misses == {"fault", "window"}

Send(op, lay) == queue' = Append(queue, [op |-> op, lay |-> lay, live |-> TRUE])

\* The desktop of displays t placed by layout l.
Place(t, l) == Desktop[<<t, l>>]

\* What a capture answer says the desktop is (Capturer::desktop_rect).
Desk == Place(heads, monitors)
Primary == PrimaryOf[<<heads, monitors>>]

\* The range the next input request will use, sync_pointer included.
NextRange == IF slot = NoRect THEN ptr ELSE slot

\* What is remembered of why the range differs from the desktop, if it does.
Blame(range, causes) == drift' = IF range = Desk THEN {} ELSE drift \cup causes

Kinds == {"change", "fault", "timeout", "crash", "trouble"}
Spend(kind) ==
  LET spent == IF kind = "change" THEN {kind} ELSE {kind, "trouble"} IN
  /\ \A k \in spent : bounds[k] > 0
  /\ bounds' = [k \in Kinds |-> IF k \in spent THEN bounds[k] - 1 ELSE bounds[k]]
-----------------------------------------------------------------------------
(* Start and death of the process *)

Init ==
  /\ topo \in Live
  /\ heads = topo
  /\ seen = [h \in Display |-> topo]
  /\ monitors = NoLayout
  /\ rec = NoRect
  /\ queue = << >>
  /\ job = NoJob
  /\ wpc = "idle"
  /\ listed = topo
  /\ slot = NoRect
  /\ ptr = Place(topo, NoLayout)
  /\ rq = NoRequest
  /\ rpc = "down"
  /\ reply = NoReply
  /\ file = NoLayout
  /\ acked = {[lay |-> NoLayout, saved |-> TRUE]}
  /\ drift = {}
  /\ blind = {}
  /\ bounds = [k \in Kinds |-> CASE k = "change"  -> MaxChanges
                                [] k = "fault"   -> MaxFaults
                                [] k = "timeout" -> MaxTimeouts
                                [] k = "crash"   -> MaxCrashes
                                [] k = "trouble" -> MaxTroubles]

\* main: Capturer::open lists the displays; with none active it exits.
Boot ==
  /\ rpc = "down"
  /\ topo \in Live
  /\ listed' = topo
  /\ rpc' = "boot"
  /\ UNCHANGED <<topo, heads, seen, monitors, rec, queue, job, wpc,
                 slot, ptr, rq, reply, file, acked, drift, blind, bounds>>

\* With no active display to open, main returns the error and the service is
\* started again later, from nothing.
BootFails ==
  /\ rpc = "down"
  /\ topo \notin Live
  /\ UNCHANGED vars

\* The layout open_heads ends up with: the wanted one if plan_layout takes it.
Kept(t, wanted) == IF <<t, wanted>> \in Fits THEN wanted ELSE NoLayout

\* The contexts on t's displays are opened and primed with the topology of
\* this moment; a change since the listing is taken for already known.
OpenHeads(t, wanted) ==
  /\ heads' = t
  /\ seen' = [h \in Display |-> topo]
  /\ monitors' = Kept(t, wanted)
  /\ blind' = IF topo = t THEN {} ELSE {"window"}

\* main, the rest: the saved layout is applied, the pointer is built for the
\* resulting desktop, and the daemon begins to serve.
BootDone ==
  /\ rpc = "boot"
  /\ OpenHeads(listed, file)
  /\ ptr' = Place(heads', monitors')
  /\ rpc' = "idle"
  /\ drift' = {}
  /\ UNCHANGED <<topo, rec, queue, job, wpc, listed, slot, rq, reply,
                 file, acked, bounds>>

\* The process dies at any point; only the layout file is left.
Crash ==
  /\ rpc # "down"
  /\ Spend("crash")
  /\ rpc' = "down"
  /\ rec' = NoRect
  /\ queue' = << >>
  /\ job' = NoJob
  /\ wpc' = "idle"
  /\ listed' = heads
  /\ slot' = NoRect
  /\ ptr' = Desk
  /\ rq' = NoRequest
  /\ reply' = NoReply
  /\ drift' = {}
  /\ UNCHANGED <<topo, heads, seen, monitors, file, acked, blind>>

\* A monitor is plugged, unplugged or re-moded, or blanks.
Replug ==
  /\ Spend("change")
  /\ topo' \in Topology \ {topo}
  /\ UNCHANGED <<heads, seen, monitors, rec, queue, job, wpc, listed,
                 slot, ptr, rq, rpc, reply, file, acked, drift, blind>>
-----------------------------------------------------------------------------
(* The request thread *)

\* Input::set_desktop: the ABS range is fixed when the device is made, so a
\* different desktop means a new uinput device, whose creation may fail; the
\* old range then stays.
SetDesktopOutcomes(d) ==
  {TRUE} \cup (IF d # ptr /\ bounds["fault"] > 0 THEN {FALSE} ELSE {})

SetDesktop(d, ok) ==
  /\ ptr' = IF ok THEN d ELSE ptr
  /\ IF ok THEN UNCHANGED bounds ELSE Spend("fault")

\* sync_pointer takes the slot before it tries to apply it.
SyncPointer(ok) ==
  /\ ok \in SetDesktopOutcomes(NextRange)
  /\ SetDesktop(NextRange, ok)
  /\ slot' = NoRect
  /\ IF ok THEN Blame(NextRange, {}) ELSE Blame(ptr, {"fault"})

Idle == rpc' = "idle" /\ rq' = NoRequest

\* status() begins with the displays.
FirstAsk(op) == IF op = "Status" THEN "Displays" ELSE op

\* A request comes in.  Ping and the input requests are over with
\* sync_pointer; the others send their first command.
Accept(op, lay) ==
  /\ rpc = "idle"
  /\ SyncPointer(TRUE)
  /\ IF op \in {"Ping", "Input"}
     THEN UNCHANGED <<rpc, rq, queue>>
     ELSE /\ rpc' = "wait"
          /\ rq' = [op |-> op, lay |-> lay, ask |-> FirstAsk(op),
                    shown |-> NoRect, saved |-> FALSE]
          /\ Send(FirstAsk(op), lay)
  /\ acked' = IF op = "SetLayout" THEN {} ELSE acked
  /\ UNCHANGED <<topo, heads, seen, monitors, rec, job, wpc, listed,
                 reply, file, blind>>

\* The pointer cannot follow: whatever was asked is answered with the error.
AcceptFails ==
  /\ rpc = "idle"
  /\ SyncPointer(FALSE)
  /\ UNCHANGED <<topo, queue, rq, rpc, reply, file, acked, blind>>
  /\ UNCHANGED workerVars

\* The wait in ask ends with the answer.
Answered(cmd) == rpc = "wait" /\ rq.ask = cmd /\ reply # NoReply
Consume == reply' = NoReply

\* The requests that are one command: the answer, good or bad, goes back.
Relay ==
  /\ rpc = "wait" /\ reply # NoReply
  /\ rq.op = rq.ask
  /\ rq.op = "SetLayout" => ~reply.ok
  /\ Idle /\ Consume
  /\ UNCHANGED <<topo, queue, slot, ptr, file, acked, drift, blind, bounds>>
  /\ UNCHANGED workerVars

\* Slip: pushing the empty layout forgets to remove the saved one.
SaveLayoutKept(l) == IF l = NoLayout THEN file ELSE l

\* save_layout: a temporary file renamed over the saved one, or, for the
\* empty layout, the saved one removed.
SaveLayout(l) == l

\* SetLayout was applied: the pointer follows, the layout is saved (a failure
\* is only logged), and status() begins.
LayoutApplied ==
  /\ Answered("SetLayout") /\ reply.ok
  /\ ptr' = reply.desktop
  /\ \/ /\ file' = SaveLayout(rq.lay)
        /\ rq' = [rq EXCEPT !.ask = "Displays", !.saved = TRUE]
        /\ UNCHANGED bounds
     \/ /\ Spend("fault")
        /\ rq' = [rq EXCEPT !.ask = "Displays"]
        /\ UNCHANGED file
  /\ Send("Displays", rq.lay)
  /\ Consume
  /\ Blame(IF slot = NoRect THEN reply.desktop ELSE slot, {})
  /\ UNCHANGED <<topo, rpc, slot, acked, blind>>
  /\ UNCHANGED workerVars

\* ... but the pointer could not follow: an error, and nothing is saved.
LayoutNotFollowed ==
  /\ Answered("SetLayout") /\ reply.ok
  /\ FALSE \in SetDesktopOutcomes(reply.desktop)
  /\ SetDesktop(reply.desktop, FALSE)
  /\ Idle /\ Consume
  /\ Blame(NextRange, {"fault"})
  /\ UNCHANGED <<topo, queue, slot, file, acked, blind>>
  /\ UNCHANGED workerVars

\* Slip: status() without its second sync_pointer.
StatusDisplaysNoSync ==
  /\ Answered("Displays") /\ rq.op # "Displays"
  /\ rq' = [rq EXCEPT !.ask = "Info", !.shown = reply.desktop]
  /\ Send("Info", rq.lay)
  /\ Consume
  /\ UNCHANGED <<topo, rpc, slot, ptr, file, acked, drift, blind, bounds>>
  /\ UNCHANGED workerVars

\* status(): the displays are in; the pointer follows what the capture
\* thread found while reading them, then Info is asked.
StatusDisplays ==
  /\ Answered("Displays") /\ rq.op # "Displays"
  /\ SyncPointer(TRUE)
  /\ rq' = [rq EXCEPT !.ask = "Info", !.shown = reply.desktop]
  /\ Send("Info", rq.lay)
  /\ Consume
  /\ UNCHANGED <<topo, rpc, file, acked, blind>>
  /\ UNCHANGED workerVars

StatusFails ==
  /\ Answered("Displays") /\ rq.op # "Displays"
  /\ SyncPointer(FALSE)
  /\ Idle /\ Consume
  /\ UNCHANGED <<topo, queue, file, acked, blind>>
  /\ UNCHANGED workerVars

\* status() is complete: it reports the displays and the pointer's range.  A
\* SetLayout is thereby confirmed, whether or not it could be saved.
StatusAnswer ==
  /\ Answered("Info")
  /\ acked' = IF rq.op = "SetLayout" THEN {[lay |-> rq.lay, saved |-> rq.saved]} ELSE acked
  /\ Idle /\ Consume
  /\ UNCHANGED <<topo, queue, slot, ptr, file, drift, blind, bounds>>
  /\ UNCHANGED workerVars

\* 30 s without an answer: the client gets an error and the receiver is
\* dropped, while the command stays in the queue or in the worker's hands.
Orphan(cmd) == [cmd EXCEPT !.live = FALSE]
TimeOut ==
  /\ rpc = "wait" /\ reply = NoReply
  /\ Spend("timeout")
  /\ queue' = [i \in DOMAIN queue |-> Orphan(queue[i])]
  /\ job' = IF job = NoJob THEN NoJob ELSE Orphan(job)
  /\ Idle
  /\ UNCHANGED <<topo, heads, seen, monitors, rec, wpc, listed, slot,
                 ptr, reply, file, acked, drift, blind>>
-----------------------------------------------------------------------------
(* The capture thread *)

\* Slip: hotplug() does not look whether a recording runs.
ChecksAlways(op) == op \in Look \cup {"SetLayout"}

\* hotplug() asks the primary's context whether the topology changed, except
\* while recording: the frame size is fixed, so the change waits.
Checks(op) == op \in Look \cup {"SetLayout"} /\ rec = NoRect

\* Slip: the context is asked before the recorder, so that a change during a
\* recording is used up and not looked at when the recording is over.
TakeUsesUp ==
  /\ wpc = "idle" /\ queue # << >>
  /\ Checks(Head(queue).op) => seen[Primary] = topo
  /\ seen' = [seen EXCEPT ![Primary] = topo]
  /\ listed' = IF Checks(Head(queue).op) THEN topo ELSE listed
  /\ job' = Head(queue)
  /\ queue' = Tail(queue)
  /\ wpc' = "serve"
  /\ UNCHANGED <<topo, heads, monitors, rec, slot, reply, drift,
                 blind, bounds>>
  /\ UNCHANGED requestVars

\* A command is received and nothing has to be re-enumerated for it.
Take ==
  /\ wpc = "idle" /\ queue # << >>
  /\ Checks(Head(queue).op) => seen[Primary] = topo
  /\ listed' = IF Checks(Head(queue).op) THEN topo ELSE listed
  /\ job' = Head(queue)
  /\ queue' = Tail(queue)
  /\ wpc' = "serve"
  /\ UNCHANGED <<topo, heads, seen, monitors, rec, slot, reply, drift,
                 blind, bounds>>
  /\ UNCHANGED requestVars

\* The context answers "changed", once: what it looked at is what it compares
\* with from now on.
TakeChanged ==
  /\ wpc = "idle" /\ queue # << >>
  /\ Checks(Head(queue).op)
  /\ seen[Primary] # topo
  /\ seen' = [seen EXCEPT ![Primary] = topo]
  /\ listed' = topo
  /\ job' = Head(queue)
  /\ queue' = Tail(queue)
  /\ wpc' = "list"
  /\ UNCHANGED <<topo, heads, monitors, rec, slot, reply, drift, blind,
                 bounds>>
  /\ UNCHANGED requestVars

\* open_heads: the displays are listed, which may no longer be those the
\* context looked at.
ListDisplays ==
  /\ wpc = "list"
  /\ listed' = topo
  /\ wpc' = "enum"
  /\ UNCHANGED <<topo, heads, seen, monitors, rec, queue, job, slot,
                 reply, drift, blind, bounds>>
  /\ UNCHANGED requestVars

\* Slip: the desktop is put in the slot only when a layout is in force.
EnumerateQuiet ==
  /\ wpc = "enum"
  /\ listed \in Live
  /\ OpenHeads(listed, monitors)
  /\ slot' = IF monitors' = NoLayout THEN slot ELSE Place(heads', monitors')
  /\ wpc' = "serve"
  /\ drift' = {}
  /\ UNCHANGED <<topo, rec, queue, job, listed, reply, bounds>>
  /\ UNCHANGED requestVars

\* open_heads succeeds: new contexts, the layout re-applied or dropped, and
\* the desktop put in the slot for the request thread.
Enumerate ==
  /\ wpc = "enum"
  /\ listed \in Live
  /\ OpenHeads(listed, monitors)
  /\ slot' = Place(heads', monitors')
  /\ wpc' = "serve"
  /\ drift' = {}
  /\ UNCHANGED <<topo, rec, queue, job, listed, reply, bounds>>
  /\ UNCHANGED requestVars

\* open_heads fails, for want of an active display or otherwise; the previous
\* heads are kept and the change is not looked at again.  If what was listed
\* is not what the context looked at, the context takes a topology no head was
\* opened for as known.
EnumerateFails ==
  /\ wpc = "enum"
  /\ IF listed \in Live
     THEN Spend("fault") /\ blind' = blind \cup {"fault"}
     ELSE /\ blind' = IF seen[Primary] = listed THEN blind ELSE blind \cup {"window"}
          /\ UNCHANGED bounds
  /\ wpc' = "serve"
  /\ UNCHANGED <<topo, heads, seen, monitors, rec, queue, job, listed,
                 slot, reply, drift>>
  /\ UNCHANGED requestVars

Handling(ops) == wpc = "serve" /\ job.op \in ops

\* The handler returns, what it listed goes with it, and its answer reaches a
\* receiver that still waits.
Finish(ok, desktop) ==
  /\ wpc' = "idle"
  /\ job' = NoJob
  /\ listed' = heads
  /\ reply' = IF job.live THEN [op |-> job.op, ok |-> ok, desktop |-> desktop]
              ELSE reply

\* Screenshot, Cursor and Displays read the heads, Info what is known of
\* them, RecordStatus the recorder's or the last recording's information.
ServeRead ==
  /\ Handling(Look \cup {"Info", "RecordStatus"})
  /\ Finish(TRUE, Desk)
  /\ UNCHANGED <<topo, heads, seen, monitors, rec, queue, slot,
                 drift, blind, bounds>>
  /\ UNCHANGED requestVars

\* Not while recording, and not a layout that does not fit.
LayoutAccepted(l) == rec = NoRect /\ (l = NoLayout \/ <<heads, l>> \in Fits)

ServeSetLayout ==
  /\ Handling({"SetLayout"})
  /\ LayoutAccepted(job.lay)
  /\ monitors' = job.lay
  /\ LET new == Place(heads, job.lay) IN
     /\ Finish(TRUE, new)
     /\ drift' = CASE NextRange = new    -> {}
                   [] ~job.live      -> drift \cup {"timeout"}
                   [] slot # NoRect  -> drift \cup {"race"}
                   [] OTHER          -> drift
  /\ UNCHANGED <<topo, heads, seen, rec, queue, slot, blind, bounds>>
  /\ UNCHANGED requestVars

\* Slip: a layout pushed during a recording waits for its end.
RefuseSetLayoutLater ==
  /\ Handling({"SetLayout"})
  /\ ~LayoutAccepted(job.lay)
  /\ rec = NoRect
  /\ Finish(FALSE, Desk)
  /\ UNCHANGED <<topo, heads, seen, monitors, rec, queue, slot,
                 drift, blind, bounds>>
  /\ UNCHANGED requestVars

RefuseSetLayout ==
  /\ Handling({"SetLayout"})
  /\ ~LayoutAccepted(job.lay)
  /\ Finish(FALSE, Desk)
  /\ UNCHANGED <<topo, heads, seen, monitors, rec, queue, slot,
                 drift, blind, bounds>>
  /\ UNCHANGED requestVars

\* start_recording plans the frame size from the desktop, without looking for
\* a hotplug.  The first frame is pushed at once and may already end it.
ServeRecordStart ==
  /\ Handling({"RecordStart"})
  /\ rec = NoRect
  /\ rec' \in {Desk, NoRect}
  /\ Finish(TRUE, Desk)
  /\ UNCHANGED <<topo, heads, seen, monitors, queue, slot, drift,
                 blind, bounds>>
  /\ UNCHANGED requestVars

\* Already recording, no usable encoder, or it did not start.
RefuseRecordStart ==
  /\ Handling({"RecordStart"})
  /\ Finish(FALSE, Desk)
  /\ UNCHANGED <<topo, heads, seen, monitors, rec, queue, slot,
                 drift, blind, bounds>>
  /\ UNCHANGED requestVars

ServeRecordStop ==
  /\ Handling({"RecordStop"})
  /\ Finish(rec # NoRect, Desk)
  /\ rec' = NoRect
  /\ UNCHANGED <<topo, heads, seen, monitors, queue, slot, drift,
                 blind, bounds>>
  /\ UNCHANGED requestVars

\* A frame is due and the recording is over time, or the encoder refuses it.
AutoStop ==
  /\ wpc = "idle"
  /\ rec # NoRect
  /\ rec' = NoRect
  /\ UNCHANGED <<topo, heads, seen, monitors, queue, job, wpc, listed, slot,
                 reply, drift, blind, bounds>>
  /\ UNCHANGED requestVars
-----------------------------------------------------------------------------
RequestNext ==
  \/ \E op \in Request, lay \in Monitors :
       /\ op # "SetLayout" => lay = NoLayout
       /\ Accept(op, lay)
  \/ AcceptFails \/ Relay \/ LayoutApplied \/ LayoutNotFollowed
  \/ StatusDisplays \/ StatusFails \/ StatusAnswer \/ TimeOut

Serve ==
  \/ ServeRead \/ ServeSetLayout \/ RefuseSetLayout \/ ServeRecordStart
  \/ RefuseRecordStart \/ ServeRecordStop

WorkerNext == \/ Take \/ TakeChanged \/ ListDisplays \/ Enumerate \/ EnumerateFails
              \/ Serve \/ AutoStop

Next == Boot \/ BootFails \/ BootDone \/ Crash \/ Replug \/ RequestNext \/ WorkerNext

Spec == Init /\ [][Next]_vars

\* The capture thread goes on with a command it has, and the request thread
\* with an answer it got; nothing says clients come or recordings end.
Fairness ==
  /\ WF_vars(\/ Take \/ TakeChanged \/ ListDisplays \/ Enumerate
             \/ EnumerateFails \/ Serve)
  /\ WF_vars(Relay \/ LayoutApplied \/ StatusDisplays \/ StatusAnswer)

FairSpec == Spec /\ Fairness
-----------------------------------------------------------------------------
(* Properties *)

TypeOK ==
  /\ topo \in Topology
  /\ heads \in Live
  /\ seen \in [Display -> Topology]
  /\ monitors \in Monitors
  /\ rec \in Rect \cup {NoRect}
  /\ queue \in Seq(Job)
  /\ job \in Job \cup {NoJob}
  /\ wpc \in {"idle", "list", "enum", "serve"}
  /\ listed \in Topology
  /\ slot \in Rect \cup {NoRect}
  /\ ptr \in Rect
  /\ rq \in Serving \cup {NoRequest}
  /\ rpc \in {"down", "boot", "idle", "wait"}
  /\ reply \in Reply \cup {NoReply}
  /\ file \in Monitors
  /\ acked \subseteq Confirmation
  /\ drift \subseteq Causes
  /\ blind \subseteq Misses
  /\ bounds \in [Kinds -> Nat]

\* A layout was applied and the request thread has yet to hear of it.
LayoutPending == Answered("SetLayout") /\ reply.ok

\* The range the next input request uses is the union of the placed displays
\* (input.rs: "why the range must track it"), and a SetLayout the request
\* thread is about to act on carries exactly that union, unless one of three
\* things happened since they last agreed: the device could not be rebuilt, a
\* SetLayout was applied after its client was told it timed out, or a
\* SetLayout found a hotplug before it.
PointerTracksDesktop ==
  drift = {} =>
    IF LayoutPending THEN reply.desktop = Desk /\ slot \in {NoRect, Desk}
                     ELSE rpc \in {"idle", "wait"} => NextRange = Desk

\* status() reports displays and a pointer range that belong together, with
\* the same three exceptions: the second sync_pointer is there because the
\* Displays command may just have re-enumerated.
StatusCoherent ==
  drift = {} /\ rpc = "wait" /\ rq.ask = "Info" => rq.shown = ptr

\* A frame is as large as the recording was started for: while a recording
\* runs, neither a hotplug nor a layout changes the desktop it is cut from.
RecordingKeepsDesktop == rec # NoRect => rec = Desk

\* An answer the request thread can receive is the answer of the command it
\* waits for, late answers of timed out commands never reach it, and while it
\* waits that command is still on its way.
AnswersMatch ==
  /\ reply # NoReply => rpc = "wait" /\ reply.op = rq.ask
  /\ rpc = "wait" /\ reply = NoReply =>
       IF queue = << >> THEN job.live /\ job.op = rq.ask
       ELSE queue[Len(queue)].live /\ queue[Len(queue)].op = rq.ask

\* What is read from the displays, when nothing is recorded, is read from
\* contexts opened for the topology that was there when the command was
\* received, or when the displays were then listed, unless that has no active
\* display; but three misses are not made up for: a re-enumeration that
\* failed, a change between its listing and its priming, and a change between
\* the look and a listing that found no active display.
ReadsAreFresh ==
  blind = {} /\ Handling(Look) /\ rec = NoRect => heads = listed \/ listed \notin Live

\* A layout whose client was told it is in place is on the disk for the next
\* start, whatever crashes between, until another SetLayout is accepted; but a
\* save that failed is only logged, and its client is told the same.
AckedLayoutSaved == \A a \in acked : a.saved => file = a.lay

\* A request is answered, or the process dies: neither thread waits for the
\* other for ever.
RequestsAnswered == rpc = "wait" ~> rpc # "wait"

-----------------------------------------------------------------------------
(* The inductive invariant *)

\* Until the daemon serves there is nothing in flight, and what is being
\* opened has an active display.
StartInv ==
  /\ rpc \in {"down", "boot"} =>
       queue = << >> /\ wpc = "idle" /\ slot = NoRect /\ rec = NoRect
  /\ rpc = "boot" => listed \in Live

\* The worker has a command exactly while it is not between commands, and
\* re-enumerates only for a command that checks, outside a recording.
WorkerInv ==
  /\ wpc = "idle" <=> job = NoJob
  /\ wpc \in {"list", "enum"} => rec = NoRect /\ job.op \in Look \cup {"SetLayout"}

\* Only the command sent last can still be answered, and it is somewhere on
\* its way exactly while the request thread waits for it.
ChannelInv ==
  /\ \A i \in 1..Len(queue) : queue[i].live => i = Len(queue)
  /\ job.live => queue = << >>
  /\ job.live \/ (\E i \in 1..Len(queue) : queue[i].live) =>
       rpc = "wait" /\ reply = NoReply
  /\ reply # NoReply => rpc = "wait" /\ queue = << >> /\ wpc = "idle"
  /\ rpc = "wait" => rq # NoRequest
  /\ AnswersMatch

\* An answer shows the present desktop, as nothing can change it
\* before the answer is received; and nothing but Info is in flight while
\* status() waits for it.
StatusInv ==
  /\ reply # NoReply => reply.desktop = Desk
  /\ rpc = "wait" /\ rq.ask = "Info" =>
       /\ \A i \in 1..Len(queue) : queue[i].op = "Info"
       /\ job.op \in {"None", "Info"}
  /\ StatusCoherent

\* While a SetLayout is served nothing is confirmed, and once it is saved the
\* file is the one asked for.
SavedInv ==
  /\ rpc = "wait" /\ "SetLayout" \in {rq.op, rq.ask} =>
       rq.op = "SetLayout" /\ acked = {} /\ (rq.saved => file = rq.lay)
  /\ AckedLayoutSaved

\* While the daemon serves, a context has last compared with the topology it was
\* opened for or with one that has no active display; but for the primary's,
\* which has just found the change that is being looked at.
FreshInv ==
  /\ blind = {} /\ rpc \in {"idle", "wait"} =>
       \A h \in Display :
         \/ seen[h] = heads \/ seen[h] \notin Live
         \/ wpc \in {"list", "enum"} /\ h = Primary
  /\ ReadsAreFresh

\* All of it together is preserved by every step.
CuadInv ==
  /\ TypeOK
  /\ StartInv
  /\ WorkerInv
  /\ ChannelInv
  /\ RecordingKeepsDesktop
  /\ PointerTracksDesktop
  /\ StatusInv
  /\ SavedInv
  /\ FreshInv
=============================================================================
