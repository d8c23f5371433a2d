------------------------------- MODULE Verbs --------------------------------
(***************************************************************************)
(* The one-shot commands of xcua in several shells over one state          *)
(* directory (cli.rs, view.rs, run and ensure of main.rs).  A screenshot   *)
(* writes its image and then view.json, to which the coordinates of later  *)
(* commands refer; those that send events take turns by a lock on          *)
(* input.lock, and stamp the timeline of a recording.  The server may end, *)
(* or be restarted with another size, at any moment: none of the commands  *)
(* holds the lock that `up --restart` takes (see Xvfb).                    *)
(*                                                                         *)
(* A command is a sequence of the requests it makes: "shot" is a picture   *)
(* that becomes the view, "zoom" a read and "aim" an input whose           *)
(* coordinates refer to the view, "read" and "press" those without.        *)
(* Pictures are numbered, 0 stands for coordinates that are screen pixels. *)
(***************************************************************************)
EXTENDS Naturals, Sequences

CONSTANTS
  Shell,
  Screen,     \* displays and sizes a server may have: records [disp, size]
  Command,    \* bound: the commands that shells run
  None,
  MaxRuns,    \* bound: commands run
  MaxServers, \* bound: X servers
  MaxFaults   \* bound: writes that fail and commands that are killed

\* The commands, and a batch of the same.  The pointer's position is read for
\* a drag or a scroll that begins where the pointer is.
ScreenshotCmd == <<"shot">>
AimCmd == <<"aim">>           \* click, move, drag, scroll
PressCmd == <<"press">>       \* type, key, hold: from the first event to the last
ZoomCmd == <<"zoom">>         \* zoom, cursor, wait-stable and wait-change
FromPointer == <<"read", "aim">>

Request == {"shot", "zoom", "aim", "read", "press"}
Sends(requests) == \E i \in DOMAIN requests : requests[i] \in {"aim", "press"}

Views == [pic : Nat, screen : Screen \cup {None}]
Identity == [pic |-> 0, screen |-> None]

ASSUME VerbsAssumption ==
  /\ Screen # {} /\ \A s \in Screen : DOMAIN s = {"disp", "size"}
  /\ Command \subseteq [batch : BOOLEAN, todo : Seq(Request)]
  /\ None \notin Shell \cup Views
  /\ MaxRuns \in Nat /\ MaxServers \in Nat /\ MaxFaults \in Nat

VARIABLES
  server,    \* servers there have been, and the screen of each
  up,        \* the last one is up
  view,      \* view.json: a picture and the screen it was taken of
  image,     \* image[b]: the picture in the file that screenshots or, if b,
             \* batches write
  lock,      \* input.lock: a shell
  pc, cmd, todo,    \* each shell: its next step, its command, what is left of it
  conn, marked,     \* the server it is connected to, and a restart it has to tell
  ctx,       \* the view its coordinates refer to
  pic,       \* the picture it has taken
  runs, pictures, faults,  \* how many there were
  timeline,  \* the events stamped, by their numbers
  events, mine,  \* history: inputs so far; the number of one's own
  saw, crossed,  \* history: the picture each shell was told of last; a view that
                 \* was saved since, by another or by a command that was killed
  meant, got,    \* history: the picture a command means, None when it was crossed;
                 \* the one it will tell of
  torn, beside   \* history: an image and the view may be of two pictures; another
                 \* command was writing its own while this one did

display == <<server, up>>
files == <<view, image, timeline>>
command == <<cmd, todo>>
context == <<conn, marked, ctx, pic>>
counts == <<runs, pictures, faults>>
knowledge == <<saw, crossed, meant, got>>
order == <<events, mine>>
tears == <<torn, beside>>
vars == <<display, files, lock, pc, command, context, counts, knowledge, order, tears>>

TypeOK ==
  /\ server \in Seq(Screen) /\ Len(server) <= MaxServers
  /\ up \in BOOLEAN /\ (up => server # <<>>)
  /\ view \in Views
  /\ image \in [BOOLEAN -> Nat]
  /\ lock \in Shell \cup {None}
  /\ pc \in [Shell -> {"idle", "lock", "open", "load", "run", "acting", "stamp",
                       "write", "save"}]
  /\ cmd \in [Shell -> Command \cup {None}]
  /\ todo \in [Shell -> Seq(Request)]
  /\ conn \in [Shell -> 0 .. MaxServers] /\ marked \in [Shell -> BOOLEAN]
  /\ ctx \in [Shell -> Views] /\ pic \in [Shell -> Views]
  /\ runs \in 0 .. MaxRuns /\ pictures \in Nat /\ faults \in 0 .. MaxFaults
  /\ timeline \in Seq(Nat) /\ events \in Nat /\ mine \in [Shell -> Nat]
  /\ saw \in [Shell -> Views] /\ crossed \in [Shell -> BOOLEAN]
  /\ meant \in [Shell -> Views \cup {None}] /\ got \in [Shell -> Views \cup {None}]
  /\ torn \in BOOLEAN /\ beside \in [Shell -> BOOLEAN]

Init ==
  /\ server = <<>> /\ up = FALSE
  /\ view = Identity /\ image = [b \in BOOLEAN |-> 0] /\ timeline = <<>>
  /\ lock = None
  /\ pc = [s \in Shell |-> "idle"]
  /\ cmd = [s \in Shell |-> None] /\ todo = [s \in Shell |-> <<>>]
  /\ conn = [s \in Shell |-> 0] /\ marked = [s \in Shell |-> FALSE]
  /\ ctx = [s \in Shell |-> Identity] /\ pic = [s \in Shell |-> Identity]
  /\ runs = 0 /\ pictures = 0 /\ faults = 0
  /\ saw = [s \in Shell |-> Identity] /\ crossed = [s \in Shell |-> FALSE]
  /\ meant = [s \in Shell |-> None] /\ got = [s \in Shell |-> None]
  /\ events = 0 /\ mine = [s \in Shell |-> 0]
  /\ torn = FALSE /\ beside = [s \in Shell |-> FALSE]

-----------------------------------------------------------------------------

Go(s, from, to) == pc[s] = from /\ pc' = [pc EXCEPT ![s] = to]

Alive(s) == up /\ conn[s] = Len(server)

At(s, requests) == pc[s] = "run" /\ todo[s] # <<>> /\ Head(todo[s]) \in requests

NextRequest(s) == todo' = [todo EXCEPT ![s] = Tail(@)]

\* The lock goes with the process that has it.
Dropped(s) == IF lock = s THEN None ELSE lock

\* The process ends.
Exit(s) ==
  /\ pc' = [pc EXCEPT ![s] = "idle"]
  /\ lock' = Dropped(s)
  /\ cmd' = [cmd EXCEPT ![s] = None] /\ todo' = [todo EXCEPT ![s] = <<>>]
  /\ conn' = [conn EXCEPT ![s] = 0] /\ marked' = [marked EXCEPT ![s] = FALSE]
  /\ ctx' = [ctx EXCEPT ![s] = Identity] /\ pic' = [pic EXCEPT ![s] = Identity]
  /\ mine' = [mine EXCEPT ![s] = 0]
  /\ meant' = [meant EXCEPT ![s] = None] /\ got' = [got EXCEPT ![s] = None]
  /\ beside' = [beside EXCEPT ![s] = FALSE]
  /\ torn' = (torn \/ pc[s] \in {"write", "save"})
  /\ UNCHANGED <<display, files, runs, pictures, events>>

\* What it has printed was read, also before an error.
Told(s) == saw' = [saw EXCEPT ![s] = IF got[s] = None THEN @ ELSE got[s]]

Ends(s) == Exit(s) /\ Told(s) /\ UNCHANGED <<crossed, faults>>

-----------------------------------------------------------------------------
(* A command: run, input_lock, ensure, Ctx::open *)

Run(s, c) ==
  /\ pc[s] = "idle" /\ runs < MaxRuns
  /\ runs' = runs + 1
  /\ pc' = [pc EXCEPT ![s] = IF c.batch \/ Sends(c.todo) THEN "lock" ELSE "open"]
  /\ cmd' = [cmd EXCEPT ![s] = c] /\ todo' = [todo EXCEPT ![s] = c.todo]
  /\ UNCHANGED <<display, files, lock, context, pictures, faults, knowledge, order, tears>>

Free == lock = None

TakeLock(s) ==
  /\ Free /\ Go(s, "lock", "open")
  /\ lock' = s
  /\ UNCHANGED <<display, files, command, context, counts, knowledge, order, tears>>

\* 2 minutes.
LockTimesOut(s) ==
  /\ pc[s] = "lock" /\ lock # None
  /\ Ends(s)

\* A server that answers is found, or started and found (ensure), and opened.
Open(s) ==
  /\ up /\ Go(s, "open", "load")
  /\ conn' = [conn EXCEPT ![s] = Len(server)]
  /\ UNCHANGED <<display, files, lock, command, marked, ctx, pic, counts, knowledge,
                 order, tears>>

\* It ends between the two.
OpenFails(s) == pc[s] = "open" /\ ~up /\ Ends(s)

\* The view is of this display, and of a screen of this size.
Fits(v, screen) == v.pic # 0 /\ v.screen = screen

\* View::load.
Load(s) ==
  /\ Go(s, "load", "run")
  /\ ctx' = [ctx EXCEPT ![s] = IF Fits(view, server[conn[s]]) THEN view ELSE Identity]
  /\ meant' = [meant EXCEPT ![s] = IF crossed[s] THEN None ELSE saw[s]]
  /\ UNCHANGED <<display, files, lock, command, conn, marked, pic, counts, saw, crossed,
                 got, order, tears>>

-----------------------------------------------------------------------------
(* Requests *)

\* A read that finds its server gone is tried once more, on the one that has
\* come on the same display.
Reads(s) ==
  \/ Alive(s) /\ UNCHANGED <<conn, marked>>
  \/ /\ ~Alive(s) /\ up /\ server[Len(server)].disp = server[conn[s]].disp
     /\ conn' = [conn EXCEPT ![s] = Len(server)]
     /\ marked' = [marked EXCEPT ![s] = TRUE]

Read(s) ==
  /\ At(s, {"read", "zoom"}) /\ Reads(s) /\ NextRequest(s)
  /\ UNCHANGED <<display, files, lock, pc, cmd, ctx, pic, counts, knowledge, order, tears>>

Grab(s) ==
  /\ At(s, {"shot"}) /\ Reads(s) /\ Go(s, "run", "write")
  /\ pictures' = pictures + 1
  /\ pic' = [pic EXCEPT ![s] = [pic |-> pictures', screen |-> server[Len(server)]]]
  /\ beside' = [t \in Shell |-> IF t = s THEN \E u \in Shell : pc[u] \in {"write", "save"}
                                ELSE beside[t] \/ pc[t] \in {"write", "save"}]
  /\ UNCHANGED <<display, files, lock, command, ctx, runs, faults, knowledge, order, torn>>

WriteImage(s) ==
  /\ Go(s, "write", "save")
  /\ image' = [image EXCEPT ![cmd[s].batch] = pic[s].pic]
  /\ UNCHANGED <<display, view, timeline, lock, command, context, counts, knowledge,
                 order, tears>>

\* Slip: the coordinates of a batch refer to the view it began with.
SaveViewOnly(s) ==
  /\ Go(s, "save", "run") /\ NextRequest(s)
  /\ view' = pic[s] /\ UNCHANGED ctx
  /\ meant' = [meant EXCEPT ![s] = pic[s]] /\ got' = [got EXCEPT ![s] = pic[s]]
  /\ crossed' = [t \in Shell |-> t # s]
  /\ torn' = beside[s]
  /\ beside' = [beside EXCEPT ![s] = FALSE]
  /\ UNCHANGED <<display, image, timeline, lock, cmd, conn, marked, pic, counts, saw, order>>

\* By rename; and the view is that of the rest of a batch, too.
SaveView(s) ==
  /\ Go(s, "save", "run") /\ NextRequest(s)
  /\ view' = pic[s] /\ ctx' = [ctx EXCEPT ![s] = pic[s]]
  /\ meant' = [meant EXCEPT ![s] = pic[s]] /\ got' = [got EXCEPT ![s] = pic[s]]
  /\ crossed' = [t \in Shell |-> t # s]
  /\ torn' = beside[s]
  /\ beside' = [beside EXCEPT ![s] = FALSE]
  /\ UNCHANGED <<display, image, timeline, lock, cmd, conn, marked, pic, counts, saw, order>>

\* The first event, and the last.
Act(s) ==
  /\ At(s, {"aim", "press"}) /\ Alive(s) /\ ~marked[s]
  /\ Go(s, "run", "acting")
  /\ events' = events + 1
  /\ mine' = [mine EXCEPT ![s] = events + 1]
  /\ UNCHANGED <<display, files, lock, command, context, counts, knowledge, tears>>

\* Slip: the turn is over with the last event.
DoneUnlocks(s) ==
  /\ Alive(s) /\ Go(s, "acting", "stamp")
  /\ lock' = None
  /\ UNCHANGED <<display, files, command, context, counts, knowledge, order, tears>>

Done(s) ==
  /\ Alive(s) /\ Go(s, "acting", "stamp")
  /\ UNCHANGED <<display, files, lock, command, context, counts, knowledge, order, tears>>

\* The stamp of a verb, while its turn lasts.
Stamp(s) ==
  /\ Go(s, "stamp", "run") /\ NextRequest(s)
  /\ timeline' = Append(timeline, mine[s])
  /\ mine' = [mine EXCEPT ![s] = 0]
  /\ UNCHANGED <<display, view, image, lock, cmd, context, counts, knowledge, events, tears>>

\* The server is gone, or the restart is told; a batch stops.
Fails(s) ==
  /\ pc[s] \in {"load", "run", "acting"}
  /\ ~Alive(s) \/ (marked[s] /\ At(s, {"aim", "press"}))
  /\ Ends(s)

\* The image or the view cannot be written.
WriteFails(s) ==
  /\ pc[s] \in {"write", "save"} /\ faults < MaxFaults
  /\ faults' = faults + 1
  /\ Exit(s) /\ Told(s)
  /\ UNCHANGED crossed

Answer(s) == pc[s] = "run" /\ todo[s] = <<>> /\ Ends(s)

\* Nobody reads what it would have printed.
Kill(s) ==
  /\ pc[s] # "idle" /\ faults < MaxFaults
  /\ faults' = faults + 1
  /\ Exit(s)
  /\ crossed' = [crossed EXCEPT ![s] = @ \/ got[s] # None]
  /\ UNCHANGED saw

-----------------------------------------------------------------------------
(* The server: see Xvfb *)

ServerStarts ==
  /\ ~up /\ Len(server) < MaxServers
  /\ \E screen \in Screen : server' = Append(server, screen)
  /\ up' = TRUE
  /\ UNCHANGED <<files, lock, pc, command, context, counts, knowledge, order, tears>>

ServerEnds ==
  /\ up /\ up' = FALSE
  /\ UNCHANGED <<server, files, lock, pc, command, context, counts, knowledge, order, tears>>

Step(s) ==
  \/ \E c \in Command : Run(s, c)
  \/ TakeLock(s) \/ LockTimesOut(s) \/ Open(s) \/ OpenFails(s) \/ Load(s)
  \/ Read(s) \/ Grab(s) \/ WriteImage(s) \/ SaveView(s) \/ Act(s) \/ Done(s) \/ Stamp(s)
  \/ Fails(s) \/ WriteFails(s) \/ Answer(s) \/ Kill(s)

Idle == \A s \in Shell : pc[s] = "idle"

Finished == Idle /\ runs = MaxRuns /\ UNCHANGED vars

Next == (\E s \in Shell : Step(s)) \/ ServerStarts \/ ServerEnds \/ Finished

Spec == Init /\ [][Next]_vars

-----------------------------------------------------------------------------
(* Properties *)

\* A command that has begun its requests.
Opened(s) == pc[s] \in {"load", "run", "acting", "stamp", "write", "save"}
Loaded(s) == Opened(s) /\ pc[s] # "load"
Writing(s) == pc[s] \in {"write", "save"}

Acting == {s \in Shell : pc[s] \in {"acting", "stamp"}}

\* A command is at the request that its next step is of, on a server that was.
StepInv ==
  \A s \in Shell :
    /\ pc[s] # "idle" => cmd[s] \in Command
    /\ Opened(s) => conn[s] \in DOMAIN server
    /\ Writing(s) => todo[s] # <<>>
    /\ s \in Acting => todo[s] # <<>> /\ Head(todo[s]) \in {"aim", "press"}

\* Who has yet to send events has the lock, from its first step to its end.
LockInv ==
  \A s \in Shell :
    /\ lock = s => pc[s] \notin {"idle", "lock"}
    /\ pc[s] \notin {"idle", "lock"} /\ Sends(todo[s]) => lock = s

\* What is stamped is older than the events under way, the last there were.
StampInv ==
  /\ \A i \in DOMAIN timeline : timeline[i] <= events
  /\ \A s \in Acting : mine[s] = events /\ \A i \in DOMAIN timeline : timeline[i] < events

\* cli.rs:541-543: verbs of two shells take turns, they do not interleave
\* their events, and the timeline has them in the order in which they came.
InTurn ==
  /\ \A s, t \in Acting : s = t
  /\ \A i, j \in DOMAIN timeline : i < j => timeline[i] < timeline[j]

\* A shell's view is view.json, unless that was crossed: what it was told of, or
\* what its command will tell of.
SeenInv ==
  /\ view.pic = 0 => view = Identity
  /\ \A s \in Shell :
       /\ ~Loaded(s) => got[s] = None
       /\ ~crossed[s] => view = IF got[s] = None THEN saw[s] ELSE got[s]

\* What a command has loaded or saved is of the screen it is connected to, until it
\* finds another.
ScreenInv ==
  \A s \in Shell :
    /\ Loaded(s) /\ ctx[s].pic # 0 /\ ~marked[s] => server[conn[s]] = ctx[s].screen
    /\ Loaded(s) /\ meant[s] # None =>
         \/ ctx[s] = meant[s]
         \/ ctx[s].pic = 0 /\ (marked[s] \/ server[conn[s]] # meant[s].screen)
    /\ pc[s] = "acting" => ~marked[s]
    /\ Writing(s) => pic[s].pic # 0 /\ pic[s].screen = server[conn[s]]

\* view.rs:8-12: an input that is aimed by a picture is carried out on a screen
\* like the picture's, whatever server came between them.
AimsAtScreen ==
  \A s \in Shell :
    pc[s] = "acting" /\ Head(todo[s]) = "aim" /\ ctx[s].pic # 0 /\ Alive(s) =>
      server[conn[s]] = ctx[s].screen

\* view.rs:1-3, cli.rs:400-403: coordinates refer to the last screenshot the
\* shell was told of, or to the batch's own last one, unless another view was
\* saved since; and they are screen pixels only if the screen has changed.
AimsAtSeen ==
  \A s \in Shell :
    meant[s] # None /\ (At(s, {"zoom"}) \/ (pc[s] = "acting" /\ Head(todo[s]) = "aim")) =>
      \/ ctx[s] = meant[s]
      \/ ctx[s].pic = 0 /\ (marked[s] \/ server[conn[s]] # meant[s].screen)

\* The view is of the picture in the image that was written last.
Agree ==
  /\ \E b \in BOOLEAN : image[b] = view.pic
  /\ \A b \in BOOLEAN : image[b] <= view.pic

\* Who writes with nobody beside it writes the last picture there is.
ImageInv ==
  /\ \A b \in BOOLEAN : image[b] <= pictures
  /\ \A s \in Shell : Writing(s) /\ ~beside[s] =>
       /\ pic[s].pic = pictures
       /\ pc[s] = "save" => image[cmd[s].batch] = pictures
       /\ \A t \in Shell \ {s} : ~Writing(t)
  /\ \A s \in Shell : Writing(s) => pic[s].pic <= pictures
  /\ ~torn /\ (\A s \in Shell : ~Writing(s)) => Agree

\* cli.rs:88-97: the view is of the picture in the image that was written last,
\* when nobody is at work, unless two screenshots were written at once or the
\* writing of one was not finished.
ImageIsView == Idle /\ ~torn => Agree

\* The lock is held by who sends events, and they come in turns: inductive.
TurnInv == TypeOK /\ StepInv /\ LockInv /\ StampInv /\ InTurn

\* view.json, the image beside it and the coordinates used are of one picture,
\* and of a screen like the one there is; inductive with TurnInv.
ViewInv == SeenInv /\ ScreenInv /\ AimsAtScreen /\ AimsAtSeen /\ ImageInv /\ ImageIsView
=============================================================================
