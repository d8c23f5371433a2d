------------------------------- MODULE Input --------------------------------
(***************************************************************************)
(* Requests of several clients to cuad's virtual pointer and keyboard      *)
(* (input.rs, and serve and handle of server.rs).  The daemon takes one    *)
(* connection at a time, reads its request, and emits the events of the    *)
(* request one by one; any of them may fail.  A client waits for its       *)
(* answer only so long, and its connection then stays in the backlog.      *)
(*                                                                         *)
(* A request becomes a script of steps: which key an emission presses or   *)
(* lets go of, what happens when it fails, and where time passes.  Time    *)
(* counts in units of 10 s, and the pauses between events take none.       *)
(* Where the pointer is and what answers contain is left out.              *)
(***************************************************************************)
EXTENDS Naturals, FiniteSets, SequencesExt

CONSTANTS
  Client,
  Key, Button,   \* of the keyboard and of the pointer
  Shift,
  Request,       \* bound: the requests clients make
  None,
  MaxCalls,      \* bound: connections
  MaxFaults,     \* bound: emissions that fail, ends of a client or of the daemon
  MaxMoves       \* bound: changes of the desktop

Codes == Key \cup Button

ASSUME InputAssumption ==
  /\ Key \cap Button = {} /\ Shift \in Key
  /\ None \notin Codes \cup Request /\ IsFiniteSet(Button)
  /\ \A r \in Request :
       /\ r.op \in {"press", "let", "click", "drag", "scroll", "move", "hold", "combo",
                    "type", "wake", "read", "status", "layout", "bad"}
       /\ r.mods \in Seq(Key) /\ r.key \in Codes \cup {None}
       /\ r.op \in {"press", "let", "click", "drag"} => r.key # None
       /\ r.n \in Nat
       /\ r.text \in Seq([key : Key \cup {None}, shift : BOOLEAN])
  /\ MaxCalls \in Nat /\ MaxFaults \in Nat /\ MaxMoves \in Nat

VARIABLES
  queue,     \* the connections, the one the daemon is at first
  phase,     \* of the daemon
  todo,      \* the steps that are left of the request
  failed,    \* the error that its answer will tell of
  mine,      \* the keys it has pressed and not yet tried to let go of
  slept,     \* the time the daemon has waited for a request to arrive
  down,      \* what is down on the two devices
  pending,   \* the capture thread has left a new desktop for the pointer
  age,       \* the time each client has waited for its answer
  answer,    \* the last answer of each client
  calls, faults, moves,  \* bounds: how many of these there were
  stuck,     \* history: what is down because its release failed
  before,    \* history: what was held when the request began
  since      \* history: how long its client had waited then

request == <<todo, failed, mine, before, since>>
devices == <<down, stuck>>
clients == <<age, answer, calls>>
vars == <<queue, phase, request, slept, devices, pending, clients, faults, moves>>

Conns == [by : Client, req : Request \cup {None}, sent : BOOLEAN, live : BOOLEAN]

Steps ==
  {s \in [key : Codes \cup {None}, due : BOOLEAN, tells : BOOLEAN,
          does : {"press", "release", "move", "wait", "refuse", "answer", "sync", "replace"}] :
     s.key # None <=> s.does \in {"press", "release"}}

Live(c) == {i \in DOMAIN queue : queue[i].by = c /\ queue[i].live}

Waits(c) == \E i \in Live(c) : queue[i].sent

TypeOK ==
  /\ queue \in Seq(Conns)
  /\ \A i \in DOMAIN queue : queue[i].sent <=> queue[i].req # None
  /\ phase \in {"idle", "reading", "running", "dead"}
  /\ phase \in {"reading", "running"} => queue # <<>>
  /\ phase = "running" => Head(queue).sent
  /\ todo \in Seq(Steps)
  /\ phase # "running" => todo = <<>> /\ mine = {}
  /\ failed \in BOOLEAN
  /\ mine \subseteq Codes
  /\ slept \in 0 .. 1
  /\ down \subseteq Codes /\ stuck \subseteq down /\ before \subseteq Codes
  /\ pending \in BOOLEAN
  /\ age \in [Client -> Nat] /\ since \in Nat
  /\ answer \in [Client -> {"none", "ok", "error"}]
  /\ calls \in 0 .. MaxCalls /\ faults \in 0 .. MaxFaults
  /\ moves \in 0 .. MaxMoves
  /\ \A c \in Client : Cardinality(Live(c)) <= 1

Init ==
  /\ queue = <<>> /\ phase = "idle"
  /\ todo = <<>> /\ failed = FALSE /\ mine = {} /\ slept = 0
  /\ down = {} /\ stuck = {} /\ before = {} /\ since = 0
  /\ pending = FALSE
  /\ age = [c \in Client |-> 0] /\ answer = [c \in Client |-> "none"]
  /\ calls = 0 /\ faults = 0 /\ moves = 0

-----------------------------------------------------------------------------
(* The script of a request.  After a step that "tells" fails, the only     *)
(* steps left are those that are due: releases of what was pressed.        *)

Step(key, does, due, tells) == [key |-> key, does |-> does, due |-> due, tells |-> tells]

Press(k) == Step(k, "press", FALSE, TRUE)
Release(k) == Step(k, "release", FALSE, TRUE)
Motion == Step(None, "move", FALSE, TRUE)
Wait == Step(None, "wait", FALSE, TRUE)
Refusal == Step(None, "refuse", FALSE, TRUE)
Answer == Step(None, "answer", FALSE, TRUE)
Sync == Step(None, "sync", FALSE, TRUE)

\* A release that is tried whatever failed before, told of or not.
DueRelease(k) == Step(k, "release", TRUE, TRUE)
QuietRelease(k) == Step(k, "release", TRUE, FALSE)

Times(n, s) == FlattenSeq([i \in 1 .. n |-> s])

\* In order down, in reverse up.
WithModifiers(mods, body) ==
  [i \in DOMAIN mods |-> Press(mods[i])] \o body
    \o Reverse([i \in DOMAIN mods |-> QuietRelease(mods[i])])

\* The count has no cap: of those within 10 s one stands for all.
Click(b, n) == <<Motion, Press(b), Release(b)>> \o Times(n, <<Wait, Press(b), Release(b)>>)

Drag(b) == <<Motion, Press(b), Motion, DueRelease(b)>>

Scroll(n) == <<Motion>> \o Times(n, <<Motion>>)

Combo(keys) ==
  [i \in DOMAIN keys |-> Press(keys[i])]
    \o Reverse([i \in DOMAIN keys |-> DueRelease(keys[i])])

\* A character that is None is on no key, and ends the typing.
TypeChar(char) ==
  IF char.key = None THEN <<Refusal>>
  ELSE IF char.shift
  THEN <<Press(Shift), Press(char.key), Release(char.key), QuietRelease(Shift)>>
  ELSE <<Press(char.key), Release(char.key)>>

TypeText(text, n) ==
  FlattenSeq([i \in DOMAIN text |-> TypeChar(text[i])]) \o Times(n, <<Wait>>)

\* The old pointer lets go of its buttons, the new one takes its place.
SetDesktop ==
  [i \in 1 .. Cardinality(Button) |-> Step(SetToSeq(Button)[i], "release", FALSE, FALSE)]
    \o <<Step(None, "replace", FALSE, TRUE)>>

\* The capture thread is asked.  An error is an answer, and 30 s without one are
\* a failure as well.
Ask(n) == Times(n, <<Wait>>) \o <<Answer>>

\* For the displays, which may have changed, and for the rest.
Status(n) == Ask(n) \o <<Sync>> \o Ask(n)

Wake == <<Step(None, "move", FALSE, FALSE), Motion, Motion>>

\* dispatch
Script(r) ==
  CASE r.op = "press" -> <<Press(r.key)>>
    [] r.op = "let" -> <<Release(r.key)>>
    [] r.op = "click" -> WithModifiers(r.mods, Click(r.key, r.n))
    [] r.op = "drag" -> WithModifiers(r.mods, Drag(r.key))
    [] r.op = "scroll" -> WithModifiers(r.mods, Scroll(r.n))
    [] r.op = "move" -> <<Motion>>
    [] r.op = "hold" -> WithModifiers(r.mods, Times(r.n, <<Wait>>))
    [] r.op = "combo" -> Combo(r.mods)
    [] r.op = "type" -> TypeText(r.text, r.n)
    [] r.op = "wake" -> Wake
    [] r.op = "read" -> Ask(r.n)
    [] r.op = "status" -> Status(r.n)
    [] r.op = "layout" -> Ask(r.n) \o SetDesktop \o Status(r.n)
    [] r.op = "bad" -> <<Refusal>>

\* Its pauses, or the capture thread, take 10 s or longer.
Slow(r) == \E i \in DOMAIN Script(r) : Script(r)[i].does = "wait"

\* The keys a request only uses.
Used(r) ==
  IF r.op \in {"press", "let"} THEN {}
  ELSE LET steps == Script(r) IN {k \in Codes : \E i \in DOMAIN steps : steps[i].key = k}

-----------------------------------------------------------------------------
(* Clients: Client::call *)

\* Slip: the last to come is served first.
JumpsQueue(conn) ==
  IF phase = "idle" THEN <<conn>> \o queue ELSE <<Head(queue), conn>> \o Tail(queue)

\* The backlog of the socket.
Enqueue(conn) == Append(queue, conn)

Connect(c) ==
  /\ phase # "dead" /\ Live(c) = {} /\ calls < MaxCalls
  /\ calls' = calls + 1
  /\ answer' = [answer EXCEPT ![c] = "none"]
  /\ queue' = Enqueue([by |-> c, req |-> None, sent |-> FALSE, live |-> TRUE])
  /\ UNCHANGED <<phase, request, slept, devices, pending, age, faults, moves>>

Write(c, r) ==
  \E i \in Live(c) :
    /\ ~queue[i].sent
    /\ queue' = [queue EXCEPT ![i].sent = TRUE, ![i].req = r]
    /\ age' = [age EXCEPT ![c] = 0]
    /\ UNCHANGED <<phase, request, slept, devices, pending, answer, calls, faults, moves>>

\* 20 s, and for a hold that much more than it takes.
Patience(r) == IF r.op = "hold" THEN r.n + 2 ELSE 2

\* Its connection is closed, and what it wrote stays in it.
Leaves(c) ==
  \E i \in Live(c) :
    /\ queue' = [queue EXCEPT ![i].live = FALSE]
    /\ answer' = [answer EXCEPT ![c] = "error"]
    /\ age' = [age EXCEPT ![c] = 0]
    /\ UNCHANGED <<phase, request, slept, devices, pending, calls, moves>>

TimesOut(c) ==
  /\ \E i \in Live(c) : queue[i].sent /\ age[c] = Patience(queue[i].req)
  /\ Leaves(c)
  /\ UNCHANGED faults

Killed(c) ==
  /\ faults < MaxFaults /\ faults' = faults + 1
  /\ Leaves(c)

-----------------------------------------------------------------------------
(* The daemon: serve, handle *)

Accept ==
  /\ phase = "idle" /\ queue # <<>>
  /\ phase' = "reading"
  /\ slept' = 0
  /\ UNCHANGED <<queue, request, devices, pending, clients, faults, moves>>

\* sync_pointer, before any request.
SyncPointer == IF pending THEN SetDesktop ELSE <<>>

ReadRequest ==
  LET conn == Head(queue) IN
  /\ phase = "reading" /\ conn.sent
  /\ phase' = "running"
  /\ todo' = IF conn.req.op = "bad" THEN <<Refusal>> ELSE SyncPointer \o Script(conn.req)
  /\ pending' = (pending /\ conn.req.op = "bad")
  /\ failed' = FALSE /\ mine' = {}
  /\ before' = down \ stuck
  /\ since' = IF conn.live THEN age[conn.by] ELSE 0
  /\ slept' = 0
  /\ UNCHANGED <<queue, devices, clients, faults, moves>>

Close(told) ==
  /\ phase' = "idle"
  /\ queue' = Tail(queue)
  /\ LET conn == Head(queue) IN
       IF conn.live
       THEN /\ answer' = [answer EXCEPT ![conn.by] = told]
            /\ age' = [age EXCEPT ![conn.by] = 0]
       ELSE UNCHANGED <<answer, age>>

HangsUp ==
  /\ phase = "reading" /\ ~Head(queue).sent /\ ~Head(queue).live
  /\ Close("error")
  /\ slept' = 0
  /\ UNCHANGED <<request, devices, pending, calls, faults, moves>>

\* Slip: the daemon waits for a silent client as long as it takes.
WaitsForEver == FALSE

\* 10 s, set_read_timeout.
TooSilent == slept = 1

ReadTimesOut ==
  /\ phase = "reading" /\ ~Head(queue).sent /\ TooSilent
  /\ Close("error")
  /\ slept' = 0
  /\ UNCHANGED <<request, devices, pending, calls, faults, moves>>

Emit ==
  LET s == Head(todo) IN
  /\ phase = "running" /\ todo # <<>> /\ s.does \notin {"wait", "refuse", "sync"}
  /\ todo' = Tail(todo)
  /\ down' = CASE s.does = "press" -> down \cup {s.key}
               [] s.does = "release" -> down \ {s.key}
               [] s.does = "replace" -> down \ Button
               [] s.does \in {"move", "answer"} -> down
  /\ stuck' = (stuck \ {s.key}) \cap down'
  /\ mine' = IF s.does = "press" THEN mine \cup {s.key} ELSE mine \ {s.key}
  /\ before' = IF s.does = "replace" THEN before \ Button ELSE before
  /\ UNCHANGED <<queue, phase, failed, since, slept, pending, clients, faults, moves>>

\* Slip: an error ends the request, whatever is down.
LeaveDue(steps) == <<>>

\* What is still to be tried once a step has failed.
OnlyDue(steps) ==
  FlattenSeq([i \in DOMAIN steps |->
    IF steps[i].due /\ steps[i].key \in mine THEN <<steps[i]>> ELSE <<>>])

EmitFails ==
  LET s == Head(todo) IN
  /\ phase = "running" /\ todo # <<>> /\ s.does \notin {"wait", "sync"}
  /\ IF s.does = "refuse" THEN UNCHANGED faults
     ELSE faults < MaxFaults /\ faults' = faults + 1
  /\ todo' = IF s.tells THEN OnlyDue(Tail(todo)) ELSE Tail(todo)
  /\ failed' = (failed \/ s.tells)
  /\ mine' = IF s.does = "release" THEN mine \ {s.key} ELSE mine
  /\ stuck' = IF s.does = "release" THEN stuck \cup ((down \cap {s.key}) \ before) ELSE stuck
  /\ before' = IF s.does = "replace" THEN before \ (Button \ down) ELSE before
  /\ UNCHANGED <<queue, phase, since, slept, down, pending, clients, moves>>

\* status: the pointer follows what the capture thread has found meanwhile.
Follows ==
  /\ phase = "running" /\ todo # <<>> /\ Head(todo).does = "sync"
  /\ todo' = SyncPointer \o Tail(todo)
  /\ pending' = FALSE
  /\ UNCHANGED <<queue, phase, failed, mine, before, since, slept, devices, clients, faults,
                 moves>>

Ended == todo = <<>>

Reply ==
  /\ phase = "running" /\ Ended
  /\ Close(IF failed THEN "error" ELSE "ok")
  /\ mine' = {} /\ failed' = FALSE /\ before' = {} /\ since' = 0
  /\ UNCHANGED <<todo, slept, devices, pending, calls, faults, moves>>

-----------------------------------------------------------------------------
(* Time, and what comes from outside *)

Due(c) == \E i \in Live(c) : queue[i].sent /\ age[c] = Patience(queue[i].req)

\* 10 s, in which the daemon waits for a request, sleeps or asks the capture thread.
Pass ==
  /\ \A c \in Client : ~Due(c)
  /\ \/ /\ phase = "reading" /\ ~Head(queue).sent /\ slept < 1
        /\ slept' = slept + 1 /\ UNCHANGED todo
     \/ /\ phase = "running" /\ todo # <<>> /\ Head(todo).does = "wait"
        /\ todo' = Tail(todo) /\ UNCHANGED slept
  /\ age' = [c \in Client |-> IF Waits(c) THEN age[c] + 1 ELSE age[c]]
  /\ UNCHANGED <<queue, phase, failed, mine, before, since, devices, pending, answer, calls,
                 faults, moves>>

DesktopChanges ==
  /\ phase # "dead" /\ moves < MaxMoves
  /\ moves' = moves + 1
  /\ pending' = TRUE
  /\ UNCHANGED <<queue, phase, request, slept, devices, clients, faults>>

\* The devices go with the process, and the kernel lets go of their keys.
Crash ==
  /\ phase # "dead" /\ faults < MaxFaults
  /\ faults' = faults + 1
  /\ phase' = "dead"
  /\ queue' = <<>>
  /\ todo' = <<>> /\ failed' = FALSE /\ mine' = {} /\ before' = {} /\ since' = 0
  /\ slept' = 0
  /\ down' = {} /\ stuck' = {}
  /\ pending' = FALSE
  /\ answer' = [c \in Client |-> IF Live(c) # {} THEN "error" ELSE answer[c]]
  /\ age' = [c \in Client |-> 0]
  /\ UNCHANGED <<calls, moves>>

Restart ==
  /\ phase = "dead"
  /\ phase' = "idle"
  /\ UNCHANGED <<queue, request, slept, devices, pending, clients, faults, moves>>

-----------------------------------------------------------------------------

Daemon ==
  \/ Accept \/ ReadRequest \/ HangsUp \/ ReadTimesOut \/ Emit \/ EmitFails \/ Follows \/ Reply
    \/ Restart

Finished == queue = <<>> /\ calls = MaxCalls /\ UNCHANGED vars

Next ==
  \/ \E c \in Client :
       Connect(c) \/ TimesOut(c) \/ Killed(c) \/ \E r \in Request : Write(c, r)
  \/ Daemon \/ Pass \/ DesktopChanges \/ Crash
  \/ Finished

Fairness ==
  /\ WF_vars(Daemon) /\ WF_vars(Pass)
  /\ \A c \in Client : WF_vars(TimesOut(c))

Spec == Init /\ [][Next]_vars /\ Fairness

-----------------------------------------------------------------------------
(* Properties *)

\* Between requests, what counts is what is down.
HeldNow == IF phase = "running" THEN before ELSE down \ stuck

AllUses == {Used(r) : r \in Request}

Kind(r) ==
  CASE r.op = "press" -> "hold"
    [] r.op = "let" -> "let"
    [] OTHER -> "use"

Held == INSTANCE HeldKeys WITH
  Key <- Codes, Uses <- AllUses, Button <- Button,
  held <- HeldNow,
  doing <- IF phase = "running" THEN Kind(Head(queue).req) ELSE "nothing"

\* input.rs:14-16: whatever a request presses it has released when it is
\* answered, failed or not, so that only what clients asked to hold is down;
\* but for keys whose own release failed.
HeldSpec == Held!Spec

\* mcp.rs:585-593: a client whose request is begun within 10 s is told how it
\* ended, however long a hold lasts.  That is not so of any other request that
\* takes 10 s or more: a long text, many clicks, or a picture, a state or a
\* layout that the capture thread is slow to answer.
InTime ==
  LET conn == Head(queue) IN
  /\ phase = "running" /\ conn.live /\ since <= 1
  /\ conn.req.op = "hold" \/ ~Slow(conn.req)
  => age[conn.by] < Patience(conn.req)

\* lib.rs:386-388, server.rs:476-485: requests are served in the order of their
\* connections, so that once a client is told "ok" nothing of it is pending,
\* not even a request it had given up on.
OkIsLast ==
  \A c \in Client : answer[c] = "ok" => \A i \in DOMAIN queue : queue[i].by # c

\* server.rs:490-491: neither a silent client nor a request keeps the daemon
\* from the others for ever.
Drains == []<>(queue = <<>>)

\* A client whose turn came is told in time, and what it is told is the end.
ClientsTold == TypeOK /\ InTime /\ OkIsLast

-----------------------------------------------------------------------------
(* The inductive invariant *)

\* Of a client's connections only the last may be live.
QueueInv ==
  \A i, j \in DOMAIN queue : i < j /\ queue[i].by = queue[j].by => ~queue[i].live

\* The request that is carried out, and what it lets go of.
asked == Head(queue).req

LetsGo(s, k) == s.does = "release" /\ s.key = k
Frees(r) == Used(r) \cup (IF r.op = "let" THEN {r.key} ELSE {})

\* What is pressed is let go of in the next step, or in one that is due.
Closes(steps) ==
  \A i \in DOMAIN steps : steps[i].does = "press" =>
    \E j \in DOMAIN steps :
      j > i /\ LetsGo(steps[j], steps[i].key) /\ (j = i + 1 \/ steps[j].due)

\* A request that is not to hold a key has a step left for each it presses.
ScriptInv ==
  /\ \A i \in DOMAIN todo : todo[i].due => todo[i].does = "release"
  /\ phase = "running" =>
       IF asked.op = "press"
       THEN /\ mine \subseteq {asked.key}
            /\ \A i \in DOMAIN todo :
                 todo[i].does = "press" => todo[i].key = asked.key
       ELSE /\ Closes(todo)
            /\ \A k \in mine : \E j \in DOMAIN todo :
                 LetsGo(todo[j], k) /\ (j = 1 \/ todo[j].due)

\* From step i on the old pointer lets go of its buttons and is replaced, and no
\* failure is in the way.
Replacing(steps, i) ==
  \E j \in DOMAIN steps :
    /\ i <= j /\ steps[j].does = "replace"
    /\ \A k \in DOMAIN steps : i <= k /\ k < j =>
         /\ steps[k].does = "release" /\ steps[k].key \in Button
         /\ ~steps[k].tells /\ ~steps[k].due

\* Whatever else is let go of is what the request frees.
PointerOwn(steps, frees) ==
  \A i \in DOMAIN steps :
    steps[i].does = "release" => steps[i].key \in frees \/ Replacing(steps, i)

PointerInv == PointerOwn(todo, Frees(asked))

\* What is down was held before or is the request's own, and of what was held
\* only that is up again which the request frees.
DownInv ==
  phase = "running" =>
    /\ down \ stuck \subseteq before \cup mine
    /\ stuck \cap (before \cup mine) = {}
    /\ before \ down \subseteq Frees(asked) \cup (IF Replacing(todo, 1) THEN Button ELSE {})

\* Of the others only a hold waits, and no longer than it was asked to.
TimeInv ==
  LET c == Head(queue).by IN
  phase = "running" /\ Head(queue).live /\ (asked.op = "hold" \/ ~Slow(asked)) =>
    /\ age[c] <= since + (IF asked.op = "hold" THEN asked.n ELSE 0)
    /\ \A i, j \in DOMAIN todo : todo[i].does = "wait" /\ todo[j].does = "wait" =>
         asked.op = "hold" /\ age[c] + j - i + 1 <= since + asked.n

InputInv ==
  ClientsTold /\ QueueInv /\ ScriptInv /\ PointerInv /\ DownInv /\ TimeInv
=============================================================================
