------------------------------ MODULE XBackend ------------------------------
(***************************************************************************)
(* Requests of one `xcua mcp` to an X server (backend.rs, input.rs).  Any  *)
(* number of requests run at once; each input request has the input        *)
(* connection to itself, under a lock, and has to leave no key, button or  *)
(* borrowed keycode down but those it was asked to hold.  The server may   *)
(* end at any moment and a new one come in its place, on which nothing may *)
(* be done that was meant for the old one; a connection may also be cut    *)
(* while the server lives.  At the end the input is cancelled, waited for  *)
(* with a deadline, and released.                                          *)
(*                                                                         *)
(* What a request presses is a chord, down in this order and up in         *)
(* reverse: modifiers and a button, the keys of a combo, a spare keycode   *)
(* bound to a symbol and the key that types it.  Motion and pictures are   *)
(* left out, and the recorder thread, which only reads.                    *)
(***************************************************************************)
EXTENDS Naturals, FiniteSets, SequencesExt

CONSTANTS
  Call,      \* requests that may be under way at once
  Server,    \* X servers; bound: how many there ever are
  Input,     \* keys, buttons and spare keycodes
  Binding,   \* the spare keycodes, "down" while bound
  Chord,     \* what requests press and let go of
  None,
  MaxCuts    \* bound: how many connections are cut while their server lives

ASSUME XBackendAssumption ==
  /\ Binding \subseteq Input
  /\ Chord \subseteq Seq(Input)
  /\ None \notin Server \cup Call
  /\ MaxCuts \in Nat

VARIABLES
  live,       \* the server on the display now
  started,    \* the servers there have been so far
  down,       \* down[s]: what server s has down or bound
  inp, cap,   \* the input and the capture connection: which server, cut or not
  tracked,    \* down_keys, down_buttons and borrowed of the input
  lock,       \* who has the input lock
  op, todo, made, before,
              \* its request: what it is, what it has yet to press, what it has
              \* pressed, and what was down before
  identity,   \* the server the backend believes to be connected to
  restarted,  \* "no input request has been told yet"
  pc, kind,   \* each request: what it does next, and its Kind
  new, same,  \* its new connections, and whether they are to the same server
  main,       \* the main thread
  cuts,       \* bound: connections cut
  asked,      \* history: what requests asked to hold down
  lost,       \* history: what an earlier connection left down on this server
  told,       \* history: the servers the client knows of
  known,      \* history: known[t]: those it knew of when t was let through
  crossed     \* history: crossed[t]: another request found a restart meanwhile

display == <<live, started>>
conns == <<inp, cap>>
held == <<down, tracked, asked, lost>>
request == <<op, todo, made, before>>
opened == <<new, same, identity>>
knowledge == <<restarted, told, known, crossed>>
vars == <<display, conns, held, lock, request, opened, knowledge, pc, kind, main, cuts>>

\* A connection: the server it leads to, and whether it was cut.
Conn == [to : Server, cut : BOOLEAN]
Alive(c) == c.to = live /\ ~c.cut

\* The new ones of a request: the servers they lead to.
NewConns == [cap : Server \cup {None}, inp : Server \cup {None}, id : Server \cup {None}]
NothingNew == [cap |-> None, inp |-> None, id |-> None]

TypeOK ==
  /\ live \in Server \cup {None}
  /\ started \in SUBSET Server
  /\ down \in [Server -> SUBSET Input]
  /\ inp \in Conn /\ cap \in Conn
  /\ tracked \in SUBSET Input
  /\ lock \in Call \cup {None}
  /\ op \in {"none", "chord", "hold", "let"}
  /\ todo \in Seq(Input) /\ made \in Seq(Input)
  /\ before \in SUBSET Input
  /\ identity \in Server \cup {None}
  /\ restarted \in BOOLEAN
  /\ pc \in [Call -> {"idle", "go", "run", "failed", "cap", "inp", "compare",
                      "swapcap", "swapinp", "identity", "answer"}]
  /\ kind \in [Call -> {"none", "input", "read", "record"}]
  /\ new \in [Call -> NewConns]
  /\ same \in [Call -> BOOLEAN]
  /\ main \in {"serving", "waiting", "draining", "exited"}
  /\ cuts \in 0 .. MaxCuts
  /\ asked \in SUBSET Input /\ lost \in SUBSET Input
  /\ told \in SUBSET Server
  /\ known \in [Call -> SUBSET Server]
  /\ crossed \in [Call -> BOOLEAN]
  /\ \A t \in Call : lock = t <=> pc[t] = "run"

Init ==
  \E s \in Server :
    /\ live = s /\ started = {s} /\ told = {s} /\ identity = s
    /\ inp = [to |-> s, cut |-> FALSE] /\ cap = inp
    /\ down = [i \in Server |-> {}]
    /\ tracked = {} /\ asked = {} /\ lost = {}
    /\ lock = None
    /\ op = "none" /\ todo = <<>> /\ made = <<>> /\ before = {}
    /\ restarted = FALSE
    /\ pc = [t \in Call |-> "idle"]
    /\ kind = [t \in Call |-> "none"]
    /\ new = [t \in Call |-> NothingNew]
    /\ same = [t \in Call |-> FALSE]
    /\ main = "serving"
    /\ cuts = 0
    /\ known = [t \in Call |-> {}]
    /\ crossed = [t \in Call |-> FALSE]

\* Nobody has the input lock.
Free == lock = None

Go(t, from, to) == pc[t] = from /\ pc' = [pc EXCEPT ![t] = to]

\* The request is answered, and its new connections, if any, are where they
\* belong or closed.
Answered(t) ==
  /\ pc' = [pc EXCEPT ![t] = "idle"]
  /\ kind' = [kind EXCEPT ![t] = "none"]
  /\ new' = [new EXCEPT ![t] = NothingNew]
  /\ same' = [same EXCEPT ![t] = FALSE]

\* The input lock is given back.
Unlock(t) ==
  /\ lock' = None
  /\ op' = "none" /\ todo' = <<>> /\ made' = <<>> /\ before' = {}
  /\ known' = [known EXCEPT ![t] = {}]
  /\ crossed' = [crossed EXCEPT ![t] = FALSE]

-----------------------------------------------------------------------------
(* The X server *)

ServerEnds ==
  /\ live # None
  /\ live' = None
  /\ down' = [down EXCEPT ![live] = {}]
  /\ UNCHANGED <<started, conns, tracked, asked, lost, lock, request, opened, knowledge,
                 pc, kind, main, cuts>>

\* By the re-up hook, another `xcua mcp` or a shell: see Xvfb.
ServerStarts(s) ==
  /\ live = None /\ s \notin started
  /\ live' = s /\ started' = started \cup {s}
  /\ UNCHANGED <<conns, held, lock, request, opened, knowledge, pc, kind, main, cuts>>

\* What is down stays down on the server.
CutInput ==
  /\ Alive(inp) /\ cuts < MaxCuts
  /\ cuts' = cuts + 1
  /\ inp' = [inp EXCEPT !.cut = TRUE]
  /\ UNCHANGED <<display, cap, held, lock, request, opened, knowledge, pc, kind, main>>

CutCapture ==
  /\ Alive(cap) /\ cuts < MaxCuts
  /\ cuts' = cuts + 1
  /\ cap' = [cap EXCEPT !.cut = TRUE]
  /\ UNCHANGED <<display, inp, held, lock, request, opened, knowledge, pc, kind, main>>

-----------------------------------------------------------------------------
(* A request *)

\* call: the mark of a restart answers an input request, and is taken away.
AnswerRestarted ==
  /\ main = "serving" /\ restarted
  /\ restarted' = FALSE
  /\ told' = started
  /\ UNCHANGED <<display, conns, held, lock, request, opened, known, crossed, pc, kind,
                 main, cuts>>

Enter(t) ==
  /\ main = "serving" /\ ~restarted
  /\ Go(t, "idle", "go")
  /\ kind' = [kind EXCEPT ![t] = "input"]
  /\ known' = [known EXCEPT ![t] = told]
  /\ crossed' = [crossed EXCEPT ![t] = \E u \in Call : pc[u] \in {"identity", "answer"}]
  /\ UNCHANGED <<display, conns, held, lock, request, opened, restarted, told, main, cuts>>

\* A picture, a question or a recording changes nothing here unless it fails.
ReadFails(t, k) ==
  /\ main = "serving" /\ Go(t, "idle", "failed")
  /\ k \in {"read", "record"} /\ kind' = [kind EXCEPT ![t] = k]
  /\ UNCHANGED <<display, conns, held, lock, request, opened, knowledge, main, cuts>>

\* XBackend::input
TakeInput(t) ==
  /\ Free /\ Go(t, "go", "run")
  /\ lock' = t
  /\ before' = tracked
  /\ \/ op' = "chord" /\ todo' \in Chord
     \/ op' \in {"hold", "let"} /\ \E k \in Input \ Binding : todo' = <<k>>
  /\ UNCHANGED <<display, conns, held, made, opened, knowledge, kind, main, cuts>>

\* A press, or a binding.
Press ==
  /\ op \in {"chord", "hold"} /\ todo # <<>>
  /\ Alive(inp)
  /\ down' = [down EXCEPT ![inp.to] = @ \cup {Head(todo)}]
  /\ tracked' = tracked \cup {Head(todo)}
  /\ made' = Append(made, Head(todo))
  /\ todo' = Tail(todo)
  /\ UNCHANGED <<display, conns, asked, lost, lock, op, before, opened, knowledge,
                 pc, kind, main, cuts>>

LetGo(k) ==
  /\ Alive(inp)
  /\ down' = [down EXCEPT ![inp.to] = @ \ {k}]
  /\ tracked' = tracked \ {k}
  /\ asked' = asked \ {k}

\* The keys of a chord come up when all are down, the last one first.
Release ==
  /\ \/ op = "let" /\ todo # <<>> /\ LetGo(Head(todo))
        /\ todo' = Tail(todo) /\ UNCHANGED made
     \/ op = "chord" /\ todo = <<>> /\ made # <<>> /\ LetGo(Last(made))
        /\ made' = Front(made) /\ UNCHANGED todo
  /\ UNCHANGED <<display, conns, lost, lock, op, before, opened, knowledge, pc, kind,
                 main, cuts>>

\* All sent, and the server has seen it (sync).
Done(t) ==
  /\ lock = t /\ Alive(inp)
  /\ todo = <<>> /\ (made = <<>> \/ op = "hold")
  /\ asked' = asked \cup Range(made)
  /\ Unlock(t) /\ Answered(t)
  /\ UNCHANGED <<display, conns, down, tracked, lost, identity, restarted, told, main, cuts>>

\* What with_modifiers, drag and typing let go of themselves.
Unwound == IF op = "chord" THEN Range(made) ELSE {}

\* Slip: a request that fails leaves all as it is.
LeaveAll == {}

\* Slip: what was down before is let go of, too.
SinceEver == Unwound \cup tracked

\* release_since does the rest.
Since == Unwound \cup (tracked \ before)

\* The request fails, by itself (a key nobody has, a hold that is cancelled)
\* or because the connection is dead: then nothing can be released.
Fails(t) ==
  /\ lock = t /\ Go(t, "run", "failed")
  /\ IF Alive(inp)
     THEN /\ down' = [down EXCEPT ![inp.to] = @ \ Since]
          /\ tracked' = tracked \ Since
     ELSE UNCHANGED <<down, tracked>>
  /\ asked' = asked \ Unwound
  /\ Unlock(t)
  /\ UNCHANGED <<display, conns, lost, opened, restarted, told, kind, main, cuts>>

\* Slip: the keys and buttons only, and no binding.
LeaveBindings ==
  IF Alive(inp) THEN [down EXCEPT ![inp.to] = @ \cap Binding] ELSE down

\* Input::release_all: what the server reports down, and what is bound still.
ReleasedAll ==
  IF Alive(inp) THEN [down EXCEPT ![inp.to] = (@ \cap Binding) \ tracked] ELSE down

ReleaseAll ==
  /\ down' = ReleasedAll
  /\ tracked' = {}
  /\ asked' = {}
  /\ lost' = lost \cap Binding

\* A panic: everything is released, within the input lock.
Panics(t) ==
  /\ lock = t /\ Go(t, "run", "failed")
  /\ ReleaseAll
  /\ Unlock(t)
  /\ UNCHANGED <<display, conns, opened, restarted, told, kind, main, cuts>>

ReadPanics(t, k) ==
  /\ main = "serving" /\ Free /\ Go(t, "idle", "failed")
  /\ k \in {"read", "record"} /\ kind' = [kind EXCEPT ![t] = k]
  /\ ReleaseAll
  /\ UNCHANGED <<display, conns, lock, request, opened, knowledge, main, cuts>>

-----------------------------------------------------------------------------
(* A failed request: dead, reconnect *)

\* The connection is alive, or busy, which counts as alive.
FailsAlive(t) ==
  /\ pc[t] = "failed"
  /\ kind[t] = "input" => lock # None \/ Alive(inp)
  /\ Answered(t)
  /\ UNCHANGED <<display, conns, held, lock, request, identity, knowledge, main, cuts>>

FindsDead(t) ==
  /\ IF kind[t] = "input" THEN lock = None /\ ~Alive(inp) ELSE ~Alive(cap)
  /\ Go(t, "failed", "cap")
  /\ UNCHANGED <<display, conns, held, lock, request, opened, knowledge, kind, main, cuts>>

OpenCapture(t) ==
  /\ live # None /\ Go(t, "cap", "inp")
  /\ new' = [new EXCEPT ![t].cap = live]
  /\ UNCHANGED <<display, conns, held, lock, request, same, identity, knowledge, kind,
                 main, cuts>>

OpenInput(t) ==
  /\ live # None /\ Go(t, "inp", "compare")
  /\ new' = [new EXCEPT ![t].inp = live]
  /\ UNCHANGED <<display, conns, held, lock, request, same, identity, knowledge, kind,
                 main, cuts>>

\* No server, or none that answers.
OpenFails(t) ==
  /\ pc[t] \in {"cap", "inp"}
  /\ Answered(t)
  /\ UNCHANGED <<display, conns, held, lock, request, identity, knowledge, main, cuts>>

Compare(t) ==
  /\ Go(t, "compare", "swapcap")
  /\ same' = [same EXCEPT ![t] = new[t].cap = live /\ identity = new[t].cap]
  /\ UNCHANGED <<display, conns, held, lock, request, new, identity, knowledge, kind,
                 main, cuts>>

\* The identity is read once more, or asked for.
SwapCapture(t) ==
  /\ Go(t, "swapcap", "swapinp")
  /\ cap' = [to |-> new[t].cap, cut |-> FALSE]
  /\ new' = [new EXCEPT ![t].id = IF same[t] THEN identity
                                  ELSE IF new[t].cap = live THEN live ELSE None,
                        ![t].cap = None]
  /\ UNCHANGED <<display, inp, held, lock, request, same, identity, knowledge, kind,
                 main, cuts>>

\* Under the input lock; the old connection releases everything as it goes,
\* if it can, and the new one starts with nothing down of its own.
SwapInput(t) ==
  /\ Free /\ Go(t, "swapinp", "identity")
  /\ inp' = [to |-> new[t].inp, cut |-> FALSE]
  /\ new' = [new EXCEPT ![t].inp = None]
  /\ down' = ReleasedAll
  /\ tracked' = {}
  /\ asked' = {}
  /\ lost' = ReleasedAll[new[t].inp]
  /\ crossed' = [u \in Call |-> crossed[u] \/ pc[u] = "go"]
  /\ UNCHANGED <<display, cap, lock, request, same, identity, restarted, told, known,
                 kind, main, cuts>>

SetIdentity(t) ==
  /\ Go(t, "identity", "answer")
  /\ identity' = new[t].id
  /\ UNCHANGED <<display, conns, held, lock, request, new, same, knowledge, kind, main, cuts>>

\* Slip: a read that finds the restart tells nobody.
ReadForgets(t) == restarted

Mark(t) == restarted \/ (kind[t] = "read" /\ ~same[t])

\* A read is tried again and leaves the mark, the others are told.
Reconnected(t) ==
  /\ pc[t] = "answer"
  /\ Answered(t)
  /\ restarted' = Mark(t)
  /\ told' = IF kind[t] # "read" /\ ~same[t] THEN started ELSE told
  /\ UNCHANGED <<display, conns, held, lock, request, identity, known, crossed, main, cuts>>

-----------------------------------------------------------------------------
(* The end *)

Cancel ==
  /\ main = "serving" /\ main' = "waiting"
  /\ UNCHANGED <<display, conns, held, lock, request, opened, knowledge, pc, kind, cuts>>

\* shutdown: the lock is had within the time, or not.
Shutdown ==
  /\ main = "waiting" /\ main' = "draining"
  /\ \/ lock = None /\ ReleaseAll
     \/ lock # None /\ UNCHANGED held
  /\ UNCHANGED <<display, conns, lock, request, opened, knowledge, pc, kind, cuts>>

Idle == \A t \in Call : pc[t] = "idle"

\* The requests under way have ended, and with the backend the input goes; or
\* they have not within the time, and end with the process.
Exit ==
  /\ main = "draining" /\ main' = "exited"
  /\ IF Idle THEN ReleaseAll ELSE UNCHANGED held
  /\ UNCHANGED <<display, conns, lock, request, opened, knowledge, pc, kind, cuts>>

Exited == main = "exited" /\ UNCHANGED vars

-----------------------------------------------------------------------------

Serve(t) ==
  \/ Enter(t) \/ TakeInput(t) \/ Done(t) \/ Fails(t) \/ Panics(t)
  \/ \E k \in {"read", "record"} : ReadFails(t, k) \/ ReadPanics(t, k)

Reconnect(t) ==
  \/ FailsAlive(t) \/ FindsDead(t) \/ OpenCapture(t) \/ OpenInput(t) \/ OpenFails(t)
  \/ Compare(t) \/ SwapCapture(t) \/ SwapInput(t) \/ SetIdentity(t) \/ Reconnected(t)

Next ==
  \/ /\ main # "exited"
     /\ \/ \E t \in Call : Serve(t) \/ Reconnect(t)
        \/ AnswerRestarted \/ Press \/ Release
        \/ ServerEnds \/ (\E s \in Server : ServerStarts(s))
        \/ CutInput \/ CutCapture
        \/ Cancel \/ Shutdown \/ Exit
  \/ Exited

Spec == Init /\ [][Next]_vars

-----------------------------------------------------------------------------
(* Properties *)

\* Nothing is down on a server that is not there, and connections lead to servers
\* there have been; only what was cut could leave something down.
ServerInv ==
  /\ live # None => live \in started
  /\ inp.to \in started /\ identity \in started \cup {None}
  /\ \A s \in Server \ {live} : down[s] = {}
  /\ \A t \in Call :
       /\ new[t].cap \in started \cup {None} /\ new[t].inp \in started \cup {None}
       /\ new[t].id \in started \cup {None}
       /\ pc[t] \in {"inp", "compare", "swapcap"} => new[t].cap # None
       /\ pc[t] \in {"compare", "swapcap", "swapinp"} => new[t].inp # None
  /\ inp.cut => cuts > 0
  /\ cuts = 0 /\ live # None => IF inp.to = live THEN lost = {} ELSE down[live] = {}

\* The input tracks what is down on its server, but for what was lost.
TrackInv ==
  Alive(inp) => tracked \subseteq down[inp.to] /\ down[inp.to] \subseteq tracked \cup lost

\* What a request has yet to press and has pressed, and what it has let go of.
Touched == Range(todo) \cup Range(made) \cup (before \ tracked)

\* A request has pressed what it has made and nothing else, and let go of nothing
\* but what it presses or is asked to let go of.
RequestInv ==
  /\ lock = None => op = "none" /\ todo = <<>> /\ made = <<>>
  /\ lock # None => op # "none" /\ (op = "let" => made = <<>>)
  /\ Alive(inp) /\ lock = None => asked = tracked
  /\ Alive(inp) /\ lock # None =>
       /\ asked \subseteq before \cap tracked
       /\ tracked \subseteq asked \cup Range(made)
       /\ op = "hold" => Range(made) \subseteq tracked /\ before = asked
       /\ op = "chord" => \E c \in Chord : Touched \subseteq Range(c)
       /\ op # "chord" => \E k \in Input : Touched \subseteq {k}

\* The client knows a server, or the next input request tells it, or one is about to.
Known(s) == s \in told \/ restarted \/ \E t \in Call : pc[t] = "answer" /\ ~same[t]

\* A server that the backend takes for the one before is one that the client knows;
\* one that has come is told of before a request is let through to it.
ClientInv ==
  /\ told \subseteq started
  /\ live # None =>
       /\ identity = live => Known(live)
       /\ \A t \in Call : same[t] =>
            /\ pc[t] \in {"swapcap", "swapinp"} /\ new[t].inp = live => Known(live)
            /\ pc[t] \in {"swapinp", "identity"} /\ new[t].id = live => Known(live)
  /\ Alive(inp) =>
       /\ Known(live) \/ \E t \in Call : pc[t] = "identity" /\ ~same[t]
       /\ \A t \in Call : pc[t] \in {"go", "run"} => live \in known[t] \/ crossed[t]

\* input.rs:4-9: between requests exactly what the requests asked to hold is
\* down, whatever failed, panicked, was cancelled or reconnected, but for
\* what a connection left when it was cut from a server that lives.
DownIsAsked ==
  lock = None /\ Alive(inp) =>
    /\ asked \subseteq down[inp.to]
    /\ down[inp.to] \subseteq asked \cup lost
    /\ lost # {} => cuts > 0

\* What holds between any two steps, and with it what a request may rely on when
\* it takes the input lock.
BackendInv == TypeOK /\ ServerInv /\ TrackInv /\ RequestInv /\ ClientInv /\ DownIsAsked

\* While a request is carried out what counts is what was down before, and
\* nothing is held on a server that is not there, or not ours to see.
HeldNow ==
  IF ~Alive(inp) THEN {}
  ELSE (IF lock = None THEN down[inp.to] ELSE before) \ lost

Doing == [none |-> "nothing", chord |-> "use", hold |-> "hold", let |-> "let"]

Held == INSTANCE HeldKeys WITH
  Key <- Input, Uses <- {Range(c) : c \in Chord}, Button <- {},
  held <- HeldNow, doing <- Doing[op]

\* backend.rs:18-25, "the contract is cuad's": what is down on the server is
\* what requests asked to hold, whatever ends, is cut or reconnected.
HeldSpec == Held!Spec

\* backend.rs:18-25: a request is carried out only on a server the client knew
\* when it was let through, unless another request reconnected meanwhile or was
\* about to answer that it had.
InputKnows ==
  \A t \in Call : lock = t /\ Alive(inp) => inp.to \in known[t] \/ crossed[t]

\* input.rs:11-12, backend.rs:143-160: an exit that did not run out of time
\* leaves nothing down, held or not, and nothing bound but what was lost.
ExitClean ==
  main = "exited" /\ Alive(inp) /\ Idle => down[inp.to] \subseteq lost \cap Binding
=============================================================================
