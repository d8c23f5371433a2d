---------------------------------- MODULE Mcp ----------------------------------
(***************************************************************************)
(* The MCP server of cua (mcp.rs), in front of either back end.  Each tool *)
(* call is a task of its own; what they share is the view that coordinates *)
(* refer to, the display that is focused, what is known of the mouse's     *)
(* handedness, and the timeline of the recording.  A tool is a sequence of *)
(* primitives, and a batch one of the same primitives; an error ends it.   *)
(*                                                                         *)
(* The back end serves one request at a time, in the order of their        *)
(* arrival.  The client of cuad gives up after 20 s, and what it asked for *)
(* is done later; xcua's is in the same process.                           *)
(***************************************************************************)
EXTENDS Integers, Sequences, FiniteSets

CONSTANTS
  Call,       \* tool calls that may be under way at once
  Display,    \* displays that can be focused
  All,        \* the whole desktop
  Native,     \* the view before the first screenshot: desktop pixels
  None,
  Sessions,   \* records of a back end, the tools its client uses, and which of
              \* "recordings" and "setting" others change meanwhile
  TTL,        \* HANDEDNESS_TTL
  Slow,       \* the time a question to the desktop takes, at most
  MaxRecs,    \* bound: recordings
  MaxFaults,  \* bound: requests that fail or whose answer comes too late
  MaxFlips    \* bound: changes of the desktop's left-handed setting

Region == Display \cup {All}
View == Region \cup {Native}
Recs == 1 .. MaxRecs
Limit == TTL + 2 * Slow

\* What the client can call, as the steps each makes.  An action with `settle`
\* watches the screen and ends with a screenshot; so do the waits.
Screenshot == <<"mark", "shot">>
SettledScreenshot == <<"watch", "mark", "shot">>
Zoom == <<"mark", "zoom">>
Click == <<"click", "mark">>
SettledClick == <<"click", "mark", "watch", "shot">>
Drag == <<"drag", "mark">>
DragFromCursor == <<"where", "dragto", "mark">>
MouseMove == <<"move", "mark">>
Scroll == <<"move", "mark">>
ScrollAtCursor == <<"where", "keys", "mark">>
MouseDown == <<"down", "mark">>
MouseUp == <<"up", "mark">>
CursorPosition == <<"where", "tell">>
Type == <<"keys", "mark">>
TypeMixed == <<"keys", "keys", "mark">>  \* ASCII is typed, the rest is pasted
Key == <<"keys", "mark">>
HoldKey == <<"keys", "mark">>
Wait == <<"mark", "shot">>
SwitchDisplay == <<"switch", "mark", "shot">>
WaitFor == <<"watchpart", "mark", "shot">>
RecordStart == <<"recstart">>
RecordMark == <<"recmark">>
RecordStatus == <<"keys">>
RecordStop == <<"recstop">>
RecordFrames == <<"frames">>
Doctor == <<"doctor">>

Primitive == {"mark", "shot", "watch", "watchpart", "zoom", "click", "drag", "where",
              "dragto", "move", "down", "up", "tell", "keys", "switch", "recstart",
              "recstop", "recmark", "frames", "doctor"}

\* computer_batch: each action is followed by its mark.
Batch(as) ==
  [i \in 1 .. 2 * Len(as) |-> IF i % 2 = 1 THEN as[(i + 1) \div 2] ELSE "mark"]

\* Those that convert coordinates with the view, some of them twice: both ends
\* of a drag, the corner and the size of a rect.  Those that press a button.
Once == {"click", "dragto", "move", "tell", "frames"}
Twice == {"drag", "zoom", "watchpart"}
Handed == {"click", "drag", "dragto", "down", "up"}
TakesImage(t) == \E i \in DOMAIN t : t[i] = "shot"
Records(t) == t \in {RecordStart, RecordStop}

\* Only these two begin and end recordings: no action of a batch does.
RecordSteps == {"recstart", "recstop"}
HasRecordStep(t) == \E i \in DOMAIN t : t[i] \in RecordSteps

ASSUME McpAssumption ==
  /\ TTL \in Nat \ {0} /\ Slow \in Nat
  /\ MaxRecs \in Nat /\ MaxFaults \in Nat /\ MaxFlips \in Nat
  /\ Sessions \subseteq [backend : {"cuad", "xcua"}, tools : SUBSET Seq(Primitive),
                   others : SUBSET {"recordings", "setting"}]
  /\ All \notin Display /\ Native \notin Region /\ None \notin Call \cup View
  /\ \A s \in Sessions : \A t \in s.tools : Records(t) \/ ~HasRecordStep(t)

VARIABLES
  session,   \* the back end and the tools of this session
  view, focus,       \* the coordinate view, the focused display's rect
  hand, handlock,    \* the handedness believed and how old it is; its lock's holder
  rec,       \* whose timeline is kept: a recording, or 0
  pc, todo,  \* each call: its next step, the primitives it has yet to finish
  used,      \* each call: the views its primitive read
  region,    \* each call: what its screenshot is of
  found, took,   \* each call: the setting it was told, and for how long it has asked
  button,    \* each call: whether the button it chose is the other one
  reply, taken,  \* each call: the recording the back end named, the timeline taken
  queue,     \* the requests that wait for the back end
  held, taping, ended,  \* the back end: buttons down, the recording, one that ended
  made,      \* how many recordings were begun
  manifest,  \* manifest[r]: whose timeline is in r's manifest; -1: there is none
  swapped,   \* the desktop's setting
  calm,      \* for how long it has been so, up to Limit
  bounds,    \* faults and flips so far
  seen, asked, got,    \* the image the client saw last; when c began; c's own
  crossed, muddled,    \* history: c met another call that takes images; the
                       \* image seen last came from one that did
  lastop, suspect,     \* history: the button request carried out last; a setting
                       \* changed too late for the buttons that are down
  apart, overlap, mixed  \* history: why rec may differ from taping; c met another
                       \* record call; the recordings whose manifest that touched

shared == <<view, focus>>
hands == <<hand, handlock, found, took>>
tape == <<rec, manifest, mixed>>
calls == <<todo, used, region, button, reply, taken>>
server == <<held, taping, ended, made>>
world == <<swapped, calm>>
client == <<seen, asked, got, crossed, muddled>>
past == <<lastop, suspect, apart, overlap>>
vars == <<session, shared, hands, tape, pc, calls, queue, server, world, bounds,
          client, past>>

CallTypes ==
  /\ pc \in [Call -> {"idle", "look", "again", "hand", "detect", "ask", "asking", "store",
                      "local", "send", "sent", "back", "status", "failed", "done"}]
  /\ todo \in [Call -> Seq(Primitive)]
  /\ used \in [Call -> SUBSET View]
  /\ region \in [Call -> Region]
  /\ button \in [Call -> BOOLEAN]
  /\ reply \in [Call -> 0 .. MaxRecs] /\ taken \in [Call -> 0 .. MaxRecs]

HandTypes ==
  /\ hand \in [val : BOOLEAN, age : 0 .. TTL]
  /\ handlock \in Call \cup {None}
  /\ found \in [Call -> BOOLEAN] /\ took \in [Call -> 0 .. Slow]
  /\ swapped \in BOOLEAN /\ calm \in 0 .. Limit

BackTypes ==
  /\ session \in Sessions
  /\ queue \in Seq([by : Call, what : Primitive, button : BOOLEAN, live : BOOLEAN])
  /\ held \subseteq BOOLEAN
  /\ taping \in 0 .. MaxRecs /\ ended \in 0 .. MaxRecs /\ made \in 0 .. MaxRecs
  /\ bounds \in [{"fault", "flip"} -> Nat]
  /\ lastop \in {"down", "up"} /\ suspect \in BOOLEAN

TapeTypes ==
  /\ rec \in 0 .. MaxRecs
  /\ manifest \in [Recs -> -1 .. MaxRecs]
  /\ apart \subseteq {"overlap", "ended", "other", "late"}
  /\ overlap \in [Call -> BOOLEAN] /\ mixed \subseteq Recs

ViewTypes ==
  /\ view \in View /\ focus \in Region
  /\ seen \in View /\ asked \in [Call -> View]
  /\ got \in [Call -> Region \cup {None}]
  /\ crossed \in [Call -> BOOLEAN] /\ muddled \in BOOLEAN

TypeOK == CallTypes /\ HandTypes /\ BackTypes /\ TapeTypes /\ ViewTypes

Init ==
  /\ session \in Sessions
  /\ view = Native /\ focus = All
  /\ hand = [val |-> FALSE, age |-> TTL] /\ handlock = None
  /\ rec = 0
  /\ pc = [c \in Call |-> "idle"] /\ todo = [c \in Call |-> << >>]
  /\ used = [c \in Call |-> {}] /\ region = [c \in Call |-> All]
  /\ found = [c \in Call |-> FALSE] /\ took = [c \in Call |-> 0]
  /\ button = [c \in Call |-> FALSE] /\ reply = [c \in Call |-> 0]
  /\ taken = [c \in Call |-> 0]
  /\ queue = << >>
  /\ held = {} /\ taping = 0 /\ ended = 0 /\ made = 0
  /\ manifest = [r \in Recs |-> -1]
  /\ swapped = FALSE /\ calm = Limit
  /\ bounds = [b \in {"fault", "flip"} |-> 0]
  /\ seen = Native /\ asked = [c \in Call |-> Native]
  /\ got = [c \in Call |-> None]
  /\ crossed = [c \in Call |-> FALSE] /\ muddled = FALSE
  /\ lastop = "up" /\ suspect = FALSE
  /\ apart = {} /\ overlap = [c \in Call |-> FALSE] /\ mixed = {}

-----------------------------------------------------------------------------

\* Where a call begins the first of the primitives s.
Enter(s) ==
  CASE s = << >> -> "done"
    [] s # << >> /\ Head(s) \in Once \cup Twice -> "look"
    [] s # << >> /\ Head(s) \in {"down", "up"} -> "hand"
    [] s # << >> /\ Head(s) = "doctor" -> "ask"
    [] s # << >> /\ Head(s) \in {"mark", "recmark", "shot"} -> "local"
    [] OTHER -> "send"

\* Where it goes when it has read the view.
Looked(c) ==
  IF Head(todo[c]) \in Handed THEN "hand"
  ELSE IF Head(todo[c]) \in {"tell", "frames"} THEN "local" ELSE "send"

At(c, where, ps) == pc[c] = where /\ Head(todo[c]) \in ps
Go(c, to) == pc' = [pc EXCEPT ![c] = to]
Busy == {c \in Call : pc[c] # "idle"}
Imaging == {c \in Busy : TakesImage(todo[c]) \/ got[c] # None}
Recording == {c \in Busy : Records(todo[c])}

\* The primitive is finished.
Finish(c) ==
  /\ todo' = [todo EXCEPT ![c] = Tail(@)]
  /\ used' = [used EXCEPT ![c] = {}]
  /\ Go(c, Enter(Tail(todo[c])))

Fault == bounds["fault"] < MaxFaults /\ bounds' = [bounds EXCEPT !["fault"] = @ + 1]

\* The setting that applies to the back end's buttons; XTEST has none.
Setting == session.backend = "cuad" /\ swapped

\* A button is down or about to be pressed or let go of.
Presses(t) == \E i \in DOMAIN t : t[i] \in {"down", "up"}
Pressing(cs) ==
  \/ held # {} \/ \E c \in cs : Presses(todo[c])
  \/ \E i \in DOMAIN queue : queue[i].what \in {"down", "up"}

-----------------------------------------------------------------------------
(* Calls *)

Begin(c, t) ==
  /\ pc[c] = "idle"
  /\ todo' = [todo EXCEPT ![c] = t] /\ Go(c, Enter(t))
  /\ asked' = [asked EXCEPT ![c] = seen]
  /\ crossed' = [d \in Call |-> IF d = c THEN Imaging # {}
                                ELSE crossed[d] \/ (d \in Busy /\ TakesImage(t))]
  /\ overlap' = [d \in Call |-> IF d = c THEN Records(t) /\ Recording # {}
                                ELSE overlap[d] \/ (d \in Recording /\ Records(t))]
  /\ apart' = IF Records(t) /\ Recording # {} THEN apart \cup {"overlap"} ELSE apart
  /\ suspect' = (suspect \/ (Presses(t) /\ calm < Limit))
  /\ UNCHANGED <<session, shared, hands, tape, used, region, button, reply, taken,
                 queue, server, world, bounds, seen, got, muddled, lastop>>

\* The answer, with the images of the call, if any; an error has those of a
\* batch up to the action that failed.
Answer(c) ==
  /\ pc[c] \in {"done", "failed"}
  /\ Go(c, "idle")
  /\ todo' = [todo EXCEPT ![c] = << >>] /\ used' = [used EXCEPT ![c] = {}]
  /\ reply' = [reply EXCEPT ![c] = 0] /\ taken' = [taken EXCEPT ![c] = 0]
  /\ region' = [region EXCEPT ![c] = All]
  /\ seen' = IF got[c] = None THEN seen ELSE got[c]
  /\ muddled' = IF got[c] = None THEN muddled ELSE crossed[c]
  /\ got' = [got EXCEPT ![c] = None]
  /\ asked' = [asked EXCEPT ![c] = Native] /\ crossed' = [crossed EXCEPT ![c] = FALSE]
  /\ overlap' = [overlap EXCEPT ![c] = FALSE]
  /\ suspect' = (suspect /\ Pressing(Call \ {c}))
  /\ UNCHANGED <<session, shared, hands, tape, button, queue, server, world, bounds,
                 lastop, apart>>

\* to_scanout, rect_to_scanout and region_xywh: the view is copied under its
\* lock, for the second end or the size once more.
LookAtView(c) ==
  /\ pc[c] = "look"
  /\ used' = [used EXCEPT ![c] = {view}]
  /\ Go(c, IF Head(todo[c]) \in Twice THEN "again" ELSE Looked(c))
  /\ UNCHANGED <<session, shared, hands, tape, todo, region, button, reply, taken,
                 queue, server, world, bounds, client, past>>

LookAgain(c) ==
  /\ pc[c] = "again"
  /\ used' = [used EXCEPT ![c] = @ \cup {view}]
  /\ Go(c, Looked(c))
  /\ UNCHANGED <<session, shared, hands, tape, todo, region, button, reply, taken,
                 queue, server, world, bounds, client, past>>

\* The cursor position in the view's pixels, the frames of a recording cropped
\* to a region: what follows changes no state here.
Tell(c) ==
  /\ At(c, "local", {"tell", "frames"}) /\ Finish(c)
  /\ UNCHANGED <<session, shared, hands, tape, region, button, reply, taken, queue,
                 server, world, bounds, client, past>>

\* A line of the timeline, if one is kept; record_mark alone insists.
Mark(c) ==
  /\ \/ At(c, "local", {"mark"}) /\ Finish(c)
     \/ At(c, "local", {"recmark"}) /\ rec # 0 /\ Finish(c)
     \/ At(c, "local", {"recmark"}) /\ rec = 0 /\ Go(c, "failed") /\ UNCHANGED <<todo, used>>
  /\ UNCHANGED <<session, shared, hands, tape, region, button, reply, taken, queue,
                 server, world, bounds, client, past>>

\* Slip: the view is set when the picture is asked for.
LookSetsView(c) ==
  /\ At(c, "local", {"shot"})
  /\ region' = [region EXCEPT ![c] = focus] /\ view' = focus
  /\ Go(c, "send")
  /\ UNCHANGED <<session, focus, hands, tape, todo, used, button, reply, taken, queue,
                 server, world, bounds, client, past>>

\* shot_full reads the focus before it asks.
LookAtFocus(c) ==
  /\ At(c, "local", {"shot"})
  /\ region' = [region EXCEPT ![c] = focus]
  /\ Go(c, "send")
  /\ UNCHANGED <<session, shared, hands, tape, todo, used, button, reply, taken, queue,
                 server, world, bounds, client, past>>

-----------------------------------------------------------------------------
(* Handedness *)

\* Slip: an answer is believed however old it is.
BelieveHandAlways(c) ==
  /\ pc[c] = "hand" /\ handlock = None
  /\ button' = [button EXCEPT ![c] = hand.val]
  /\ Go(c, "send")
  /\ UNCHANGED <<session, shared, hands, tape, todo, used, region, reply, taken, queue,
                 server, world, bounds, client, past>>

\* physical: the lock is held while the desktop is asked.
BelieveHand(c) ==
  /\ pc[c] = "hand" /\ handlock = None /\ hand.age < TTL
  /\ button' = [button EXCEPT ![c] = hand.val]
  /\ Go(c, "send")
  /\ UNCHANGED <<session, shared, hands, tape, todo, used, region, reply, taken, queue,
                 server, world, bounds, client, past>>

AskHand(c) ==
  /\ pc[c] = "hand" /\ handlock = None /\ hand.age = TTL
  /\ handlock' = c
  /\ found' = [found EXCEPT ![c] = Setting] /\ took' = [took EXCEPT ![c] = 0]
  /\ Go(c, "detect")
  /\ UNCHANGED <<session, shared, hand, tape, calls, queue, server, world, bounds,
                 client, past>>

\* The answer is the setting of some moment since it was asked.
HandFound(c) ==
  /\ pc[c] = "detect"
  /\ \E h \in {found[c], Setting} :
       /\ hand' = [val |-> h, age |-> 0]
       /\ button' = [button EXCEPT ![c] = h]
  /\ handlock' = None
  /\ found' = [found EXCEPT ![c] = FALSE] /\ took' = [took EXCEPT ![c] = 0]
  /\ Go(c, "send")
  /\ UNCHANGED <<session, shared, tape, todo, used, region, reply, taken, queue, server,
                 world, bounds, client, past>>

\* doctor asks without the lock, and takes it to store the answer.
DoctorAsks(c) ==
  /\ pc[c] = "ask"
  /\ found' = [found EXCEPT ![c] = Setting] /\ took' = [took EXCEPT ![c] = 0]
  /\ Go(c, "asking")
  /\ UNCHANGED <<session, shared, hand, handlock, tape, calls, queue, server, world,
                 bounds, client, past>>

DoctorFound(c) ==
  /\ pc[c] = "asking"
  /\ \E h \in {found[c], Setting} : found' = [found EXCEPT ![c] = h]
  /\ Go(c, "store")
  /\ UNCHANGED <<session, shared, hand, handlock, took, tape, calls, queue, server,
                 world, bounds, client, past>>

DoctorStores(c) ==
  /\ pc[c] = "store" /\ handlock = None
  /\ hand' = [val |-> found[c], age |-> 0]
  /\ found' = [found EXCEPT ![c] = FALSE] /\ took' = [took EXCEPT ![c] = 0]
  /\ Go(c, "send")
  /\ UNCHANGED <<session, shared, handlock, tape, calls, queue, server, world, bounds,
                 client, past>>

-----------------------------------------------------------------------------
(* Requests *)

Send(c) ==
  /\ pc[c] = "send"
  /\ queue' = Append(queue, [by |-> c, what |-> Head(todo[c]), button |-> button[c],
                             live |-> TRUE])
  /\ used' = [used EXCEPT ![c] = {}] /\ button' = [button EXCEPT ![c] = FALSE]
  /\ Go(c, "sent")
  /\ UNCHANGED <<session, shared, hands, tape, todo, region, reply, taken, server, world,
                 bounds, client, past>>

\* The 20 s of cuad's client, from the connection on.  The daemon still reads
\* what was sent.
GivesUp(c) ==
  /\ session.backend = "cuad" /\ Fault
  /\ pc[c] = "sent" /\ Go(c, "failed")
  /\ queue' = [i \in DOMAIN queue |->
                 [queue[i] EXCEPT !.live = @ /\ queue[i].by # c]]
  /\ apart' = IF Records(todo[c]) THEN apart \cup {"late"} ELSE apart
  /\ UNCHANGED <<session, shared, hands, tape, calls, server, world, client, lastop,
                 suspect, overlap>>

\* The back end is done with the request that came first, and answers.
Serve(e, r) ==
  /\ queue # << >> /\ e = Head(queue) /\ queue' = Tail(queue)
  /\ IF e.live THEN Go(e.by, "back") /\ reply' = [reply EXCEPT ![e.by] = r]
               ELSE UNCHANGED <<pc, reply>>
  /\ UNCHANGED <<session, shared, hands, tape, todo, used, region, button, taken, world,
                 bounds, client, apart, overlap>>

ServePlain(e) ==
  /\ Serve(e, 0)
  /\ e.what \notin Handed \cup {"recstart", "recstop"}
  /\ UNCHANGED <<server, lastop, suspect>>

\* A click or a drag lets go of its button; a press of one stays.
ServeButton(e) ==
  /\ Serve(e, 0)
  /\ e.what \in Handed
  /\ held' = IF e.what = "down" THEN held \cup {e.button} ELSE held \ {e.button}
  /\ lastop' = IF e.what \in {"down", "up"} THEN e.what ELSE lastop
  /\ UNCHANGED <<taping, ended, made, suspect>>

ServeRecordStart(e) ==
  /\ Serve(e, made + 1)
  /\ e.what = "recstart" /\ taping = 0 /\ made < MaxRecs
  /\ made' = made + 1 /\ taping' = made + 1 /\ ended' = 0
  /\ UNCHANGED <<held, lastop, suspect>>

\* xcua still has the recorder of a recording that ended by itself.
ServeRecordStop(e) ==
  /\ e.what = "recstop"
  /\ \/ taping # 0 /\ Serve(e, taping)
     \/ taping = 0 /\ ended # 0 /\ session.backend = "xcua" /\ Serve(e, ended)
  /\ taping' = 0 /\ ended' = 0
  /\ UNCHANGED <<held, made, lastop, suspect>>

NotRecording == taping = 0 /\ ~(ended # 0 /\ session.backend = "xcua")

\* An error: two recordings at once, none to stop, or anything else.
Refuse(e) ==
  /\ queue # << >> /\ e = Head(queue) /\ queue' = Tail(queue)
  /\ \/ /\ \/ e.what = "recstart" /\ (taping # 0 \/ made = MaxRecs)
           \/ e.what = "recstop" /\ NotRecording
        /\ UNCHANGED bounds
     \/ Fault
  /\ IF e.live THEN Go(e.by, "failed") ELSE UNCHANGED pc
  /\ UNCHANGED <<session, shared, hands, tape, calls, server, world, client, past>>

-----------------------------------------------------------------------------
(* What a call does with its answer *)

\* shot_full: coordinates now refer to the image that was taken.
Shown(c) ==
  /\ At(c, "back", {"shot"})
  /\ view' = region[c] /\ got' = [got EXCEPT ![c] = region[c]]
  /\ region' = [region EXCEPT ![c] = All]
  /\ Finish(c)
  /\ UNCHANGED <<session, focus, hands, tape, button, reply, taken, queue,
                 server, world, bounds, seen, asked, crossed, muddled, past>>

\* switch_display: the rect the display has, or none for "all".
Focus(c) ==
  /\ At(c, "back", {"switch"})
  /\ focus' \in Region
  /\ Finish(c)
  /\ UNCHANGED <<session, view, hands, tape, region, button, reply, taken, queue, server,
                 world, bounds, client, past>>

Carry(c) ==
  /\ pc[c] = "back"
  /\ Head(todo[c]) \notin {"shot", "switch", "recstart", "recstop"}
  /\ Finish(c)
  /\ UNCHANGED <<session, shared, hands, tape, region, button, reply, taken, queue,
                 server, world, bounds, client, past>>

\* Rec and taping agree again when a record call had no other beside it.
Settle(c) == apart' = IF overlap[c] THEN apart ELSE {}

\* Slip: a timeline that is there is kept.
KeepOldTimeline(c) ==
  /\ At(c, "back", {"recstart"})
  /\ rec' = IF rec = 0 THEN reply[c] ELSE rec
  /\ Finish(c) /\ Settle(c)
  /\ UNCHANGED <<session, shared, hands, manifest, mixed, region, button, reply, taken,
                 queue, server, world, bounds, client, lastop, suspect, overlap>>

\* record_start: a new timeline, whatever was there.
KeepTimeline(c) ==
  /\ At(c, "back", {"recstart"})
  /\ rec' = reply[c]
  /\ Finish(c) /\ Settle(c)
  /\ UNCHANGED <<session, shared, hands, manifest, mixed, region, button, reply, taken,
                 queue, server, world, bounds, client, lastop, suspect, overlap>>

\* record_stop takes the timeline only once the back end has stopped.
TakeTimeline(c) ==
  /\ At(c, "back", {"recstop"})
  /\ taken' = [taken EXCEPT ![c] = rec] /\ rec' = 0
  /\ mixed' = IF apart = {} THEN mixed ELSE mixed \cup {reply[c]}
  /\ Go(c, "status") /\ Settle(c)
  /\ UNCHANGED <<session, shared, hands, manifest, todo, used, region, button, reply,
                 queue, server, world, bounds, client, lastop, suspect, overlap>>

\* After the Status that follows, whatever that says, the manifest is written;
\* if that fails, nothing is said.
WriteManifest(c) ==
  /\ pc[c] = "status"
  /\ manifest' \in {manifest, [manifest EXCEPT ![reply[c]] = taken[c]]}
  /\ Finish(c)
  /\ UNCHANGED <<session, shared, hands, rec, mixed, region, button, reply, taken, queue,
                 server, world, bounds, client, past>>

-----------------------------------------------------------------------------
(* The rest of the world *)

\* Record calls that are under way did not expect it.
Strange(cause) ==
  /\ apart' = apart \cup {cause}
  /\ overlap' = [c \in Call |-> overlap[c] \/ c \in Recording]
  /\ UNCHANGED <<session, shared, hands, tape, pc, calls, queue, held, world, bounds,
                 client, lastop, suspect>>

\* max_seconds, or an encoder that failed.
EndsByItself ==
  /\ taping # 0 /\ taping' = 0 /\ ended' = taping
  /\ UNCHANGED made /\ Strange("ended")

\* Another client of cuad records.
OtherStarts ==
  /\ session.backend = "cuad" /\ "recordings" \in session.others
  /\ taping = 0 /\ made < MaxRecs
  /\ made' = made + 1 /\ taping' = made + 1 /\ ended' = 0
  /\ Strange("other")

OtherStops ==
  /\ session.backend = "cuad" /\ "recordings" \in session.others
  /\ taping # 0
  /\ taping' = 0 /\ ended' = 0 /\ UNCHANGED made
  /\ Strange("other")

Flip ==
  /\ session.backend = "cuad" /\ "setting" \in session.others
  /\ bounds["flip"] < MaxFlips
  /\ bounds' = [bounds EXCEPT !["flip"] = @ + 1]
  /\ swapped' = ~swapped /\ calm' = 0
  /\ suspect' = (suspect \/ Pressing(Call))
  /\ UNCHANGED <<session, shared, hands, tape, pc, calls, queue, server, client, lastop,
                 apart, overlap>>

\* The desktop answers within Slow, and who can take a free lock takes it.
Pass ==
  /\ "setting" \in session.others
  /\ \A c \in Call :
       /\ pc[c] \in {"detect", "asking"} => took[c] < Slow
       /\ ~(pc[c] = "store" /\ handlock = None)
  /\ took' = [c \in Call |-> IF pc[c] \in {"detect", "asking"} THEN took[c] + 1 ELSE took[c]]
  /\ hand' = [hand EXCEPT !.age = IF @ < TTL THEN @ + 1 ELSE TTL]
  /\ calm' = IF calm < Limit THEN calm + 1 ELSE Limit
  /\ UNCHANGED <<session, shared, handlock, found, tape, pc, calls, queue, server, swapped,
                 bounds, client, past>>

Step(c) ==
  \/ \E t \in session.tools : Begin(c, t)
  \/ Answer(c)
  \/ LookAtView(c) \/ LookAgain(c) \/ Tell(c) \/ Mark(c) \/ LookAtFocus(c)
  \/ BelieveHand(c) \/ AskHand(c) \/ HandFound(c)
  \/ DoctorAsks(c) \/ DoctorFound(c) \/ DoctorStores(c)
  \/ Send(c) \/ GivesUp(c)
  \/ Shown(c) \/ Focus(c) \/ Carry(c)
  \/ KeepTimeline(c) \/ TakeTimeline(c) \/ WriteManifest(c)

Backend ==
  \E i \in DOMAIN queue :
    \/ ServePlain(queue[i]) \/ ServeButton(queue[i])
    \/ ServeRecordStart(queue[i]) \/ ServeRecordStop(queue[i])
    \/ Refuse(queue[i])

World == EndsByItself \/ OtherStarts \/ OtherStops \/ Flip \/ Pass

Next == (\E c \in Call : Step(c)) \/ Backend \/ World

Spec == Init /\ [][Next]_vars

-----------------------------------------------------------------------------
(* Properties *)

\* The image a call's coordinates are meant for: its own last one in a batch,
\* else the one the client had seen when it called.
Meant(c) == IF got[c] = None THEN asked[c] ELSE got[c]

\* mcp.rs:18-19: coordinates are pixels of the last full screenshot.  Whatever
\* awaits lie between a screenshot, an error, a zoom, a switch of displays and a
\* click, the view used is that of the image the client means, unless another
\* call that takes images was under way beside this one or the image's.
CoordinatesHold ==
  \A c \in Call : ~crossed[c] /\ ~muddled => used[c] \subseteq {Meant(c)}

\* When nothing is under way the view is that of the image seen last.
ViewIsSeen == Busy = {} /\ ~muddled => view = seen

\* mcp.rs:57-58: a changed setting takes effect within the TTL, to which only
\* the time of two questions adds: one's own, and the one that holds the lock.
HandAge == hand.age < TTL /\ hand.val # Setting => calm < Limit

\* left_mouse_up lets go of what left_mouse_down pressed, whichever button that
\* is, unless the setting was changed between them or too late before.
UpReleases == ~suspect /\ lastop = "up" => held = {}

\* The server keeps a timeline exactly while its back end records, unless the
\* recording ended or another client's began by itself, an answer came too
\* late, or two record calls met; a record call by itself makes up for it.
KnowsRecording == apart = {} /\ Recording = {} => rec = taping

\* A manifest has the timeline of its own recording, with the same exceptions.
ManifestIsOwn == \A r \in Recs \ mixed : manifest[r] \in {-1, r}

-----------------------------------------------------------------------------
(* The inductive invariant, in three parts *)

\* A call that is at work has a primitive to finish, and is where that one goes.
InPlace ==
  \A c \in Call :
    /\ pc[c] = "idle" => todo[c] = << >> /\ got[c] = None /\ used[c] = {}
    /\ pc[c] \notin {"idle", "done", "failed"} => todo[c] # << >>
    /\ pc[c] \in {"look", "again"} => Head(todo[c]) \in Once \cup Twice
    /\ pc[c] \in {"hand", "detect"} => Head(todo[c]) \in Handed
    /\ pc[c] \in {"ask", "asking", "store"} => Head(todo[c]) = "doctor"
    /\ pc[c] = "local" => Head(todo[c]) \in {"mark", "recmark", "shot", "tell", "frames"}
    /\ pc[c] = "status" => Head(todo[c]) = "recstop"
    /\ Records(todo[c]) \/ ~HasRecordStep(todo[c])

\* The request a call waits for is the only one of its that is live.
OneLive ==
  \A i \in DOMAIN queue : queue[i].live =>
    /\ pc[queue[i].by] = "sent" /\ todo[queue[i].by] # << >>
    /\ queue[i].what = Head(todo[queue[i].by])
    /\ \A j \in DOMAIN queue : queue[j].live /\ queue[j].by = queue[i].by => i = j

\* Whoever is under way beside a call that takes images knows of it.
Crossed == \A c \in Busy, d \in Imaging : c # d => crossed[c]

\* The view is the image of a call that took one, else the one seen last.
ViewIsOwn == \A c \in Call : ~crossed[c] /\ got[c] # None => view = got[c]
ViewIsLast == ~muddled /\ (\A c \in Call : got[c] = None) => view = seen
ViewIsMeant == \A c \in Busy : ~crossed[c] /\ ~muddled => view = Meant(c)

\* Between calls, and whatever they await in them, the view is the one the
\* coordinates are meant for.
ViewInv ==
  /\ TypeOK /\ InPlace /\ OneLive
  /\ Crossed /\ ViewIsOwn /\ ViewIsLast /\ ViewIsMeant
  /\ CoordinatesHold /\ ViewIsSeen

\* Who has the lock asks.  An answer that is no longer the setting was when it
\* was asked for, and has waited for the lock no longer than the holder asks.
HolderAsks ==
  /\ handlock # None => handlock \in Call /\ pc[handlock] = "detect"
  /\ \A c \in Call : pc[c] = "detect" => handlock = c
AskedSince ==
  \A c \in Call : pc[c] \in {"detect", "asking"} /\ found[c] # Setting => calm <= took[c]
BelievedSince == hand.age < TTL /\ hand.val # Setting => calm <= hand.age + 2 * Slow
StoredSince ==
  \A c \in Call : pc[c] = "store" /\ found[c] # Setting =>
    /\ handlock # None => calm <= Slow + took[handlock]
    /\ handlock = None => calm <= IF hand.age = TTL THEN Slow ELSE 2 * Slow

\* What is down or on its way is the button of the setting, which has been so
\* for long enough to be known.
PressedCalm == ~suspect /\ Pressing(Call) => calm = Limit
PressedAlike ==
  ~suspect =>
    /\ held \subseteq {Setting}
    /\ \A i \in DOMAIN queue : queue[i].what \in {"down", "up"} => queue[i].button = Setting
    /\ \A c \in Call : At(c, "send", {"down", "up"}) => button[c] = Setting

\* The button that comes up is the one that went down, and which one a click
\* presses follows the setting in time.
HandInv ==
  /\ HolderAsks /\ AskedSince /\ BelievedSince /\ StoredSince
  /\ PressedCalm /\ PressedAlike
  /\ HandAge /\ UpReleases

\* Record calls that met know it, and then rec may be wrong.
Overlap == \A c \in Recording : \A d \in Recording : c # d => overlap[c]
OverlapParts == \A c \in Recording : overlap[c] => apart # {}

\* After the request of a record call that met no other there is none, until it
\* is through; what it was told is then what the back end does.
LastToTape ==
  \A c \in Recording : ~overlap[c] =>
    \A i, j \in DOMAIN queue : queue[i].by = c /\ queue[i].live /\ i < j =>
      queue[j].what \notin RecordSteps
ToldOfTaping ==
  \A c \in Recording : ~overlap[c] /\ pc[c] = "back" =>
    /\ \A i \in DOMAIN queue : queue[i].what \notin RecordSteps
    /\ ended = 0
    /\ taping = IF Head(todo[c]) = "recstart" THEN reply[c] ELSE 0

\* While nothing parts them, nobody has given up on a recording, none ended by
\* itself, and rec is the back end's but for an answer on its way.
InStep ==
  apart = {} =>
    /\ ended = 0
    /\ \A i \in DOMAIN queue : queue[i].what \in RecordSteps => queue[i].live
    /\ (\A c \in Recording : pc[c] # "back") => rec = taping
    /\ \A c \in Call : At(c, "back", {"recstop"}) => reply[c] = rec
Stopped ==
  \A c \in Call :
    /\ At(c, "back", {"recstop"}) \/ pc[c] = "status" => reply[c] # 0
    /\ pc[c] = "status" /\ reply[c] \notin mixed => taken[c] = reply[c]

\* What the server keeps of a recording is that of the back end's.
TapeInv ==
  /\ Overlap /\ OverlapParts /\ LastToTape /\ ToldOfTaping /\ InStep /\ Stopped
  /\ KnowsRecording /\ ManifestIsOwn

McpInv == ViewInv /\ HandInv /\ TapeInv
=============================================================================
