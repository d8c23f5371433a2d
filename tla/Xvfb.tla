-------------------------------- MODULE Xvfb --------------------------------
(***************************************************************************)
(* The X server's lifecycle (xvfb.rs: up_with, reuse, down, release, stop, *)
(* check; main.rs, mcp; backend.rs, reconnect): the commands of one state  *)
(* directory find xcua's Xvfb or start one and leave notes about it, and   *)
(* every long-lived `xcua mcp` is its user until it leaves.                *)
(*                                                                         *)
(* The state directory is flock'ed (LockExcl is about its stand-in) and    *)
(* the kernel lets the lock of a dead process go.  Under it every change   *)
(* of a file is a step: a process may be killed, and a write may fail,     *)
(* between any two.  clear() is two steps, env and the rest.  A display    *)
(* number is free again once its server is gone; a pid is never reused.    *)
(* The window manager is left out.                                         *)
(***************************************************************************)
EXTENDS Naturals, FiniteSets

CONSTANTS
  Mcp,        \* processes running `xcua mcp`
  Cli,        \* shells that run up, up --restart, up --display and down
  Display,    \* display numbers
  Server,     \* Xvfbs that xcua may start; bound: how many
  Foreign,    \* X servers of others
  None,
  ProcFs,     \* whether there may be a /proc: some of TRUE, FALSE
  Moods,      \* Moods[b]: what may happen to an Xvfb, "stopped" or "full", if
              \* b, with /proc
  MaxFaults   \* MaxFaults[b]: bound: killed processes and failed writes

Proc == Mcp \cup Cli
X == Server \cup Foreign

ASSUME XvfbAssumption ==
  /\ Mcp \cap Cli = {} /\ Server \cap Foreign = {}
  /\ None \notin Proc \cup Display \cup X
  /\ {"up", "none"} \cap Mcp = {}
  /\ ProcFs \subseteq BOOLEAN
  /\ Moods \in [BOOLEAN -> SUBSET {"stopped", "full"}]
  /\ MaxFaults \in [BOOLEAN -> Nat]

VARIABLES
  haveProc,  \* have_proc(): /proc is there
  on,        \* on[d]: the X server that listens on d
  mood,      \* mood[s]: well, stopped by a signal, or at its client limit
  spare,     \* the servers nobody has started yet
  lock,      \* who holds the state directory
  env, pid, nonce, owner, users,   \* the files of that name
  pc, op,    \* op[p]: what p runs; pc[p]: the next thing it does
  dsp,       \* dsp[p]: the display p was given or found
  child,     \* child[p]: the Xvfb p has started
  session,   \* session[m]: the server m's connections lead to
  leaked,    \* history: Xvfbs whose starter ended before their pid was written
  excused,   \* history: an mcp ended without release(), or a write failed
  faults     \* how many faults happened

xs == <<on, mood, spare>>
files == <<env, pid, nonce, owner, users>>
vars == <<haveProc, xs, lock, files, pc, op, dsp, child, session, leaked, excused, faults>>

CliOp == {"up", "restart", "attach", "down"}
McpOp == {"start", "reup", "release"}

\* Where a process is while it holds the lock ...
Locked == {"check", "reuse", "adopt", "stop", "clear", "clearRest", "attached",
           "spawn", "env", "pid", "nonce", "owner", "user", "down", "leave", "last"}
\* ... and where it is not.
Where == Locked \cup {"idle", "off", "gone", "lock", "open", "running"}

TypeOK ==
  /\ haveProc \in BOOLEAN
  /\ on \in [Display -> X \cup {None}]
  /\ mood \in [Server -> {"well", "stopped", "full"}]
  /\ spare \subseteq X
  /\ lock \in Proc \cup {None}
  /\ env \in Display \cup {None}
  /\ pid \in Server \cup {None}
  /\ nonce \in Server \cup {None}
  /\ owner \in Mcp \cup {"up", "none"}
  /\ users \subseteq Mcp
  /\ pc \in [Proc -> Where]
  /\ op \in [Proc -> CliOp \cup McpOp \cup {"none"}]
  /\ dsp \in [Proc -> Display \cup {None}]
  /\ child \in [Proc -> Server \cup {None}]
  /\ session \in [Mcp -> X \cup {None}]
  /\ leaked \subseteq Server
  /\ excused \in BOOLEAN
  /\ faults \in 0 .. MaxFaults[haveProc]

Init ==
  /\ haveProc \in ProcFs
  /\ on = [d \in Display |-> None]
  /\ mood = [s \in Server |-> "well"]
  /\ spare = X
  /\ lock = None
  /\ env = None /\ pid = None /\ nonce = None /\ owner = "none" /\ users = {}
  /\ pc = [p \in Proc |-> IF p \in Mcp THEN "off" ELSE "idle"]
  /\ op = [p \in Proc |-> "none"]
  /\ dsp = [p \in Proc |-> None]
  /\ child = [p \in Proc |-> None]
  /\ session = [m \in Mcp |-> None]
  /\ leaked = {}
  /\ excused = FALSE
  /\ faults = 0

-----------------------------------------------------------------------------
(* What a process can find out *)

Alive(s) == \E d \in Display : on[d] = s

\* Proc::is_xvfb of the pidfile's process.
IsXvfb(s) == haveProc /\ Alive(s)

\* One probe of d may be answered, by a server of xcua's or by another; a
\* server that is well may still be too slow for it.
MayAnswer(d) ==
  /\ d # None /\ on[d] # None
  /\ on[d] \in Server => mood[on[d]] = "well"

\* check(): there is somebody to probe.
Noted == env # None /\ pid # None /\ (nonce = None => IsXvfb(pid)) /\ on[env] # None

\* One that has no room for another client answers, without a nonce.
Refuses(s) == s \in Server /\ mood[s] = "full"

\* It may answer, with the nonce if there is one on file.
MayBeLive ==
  /\ Noted /\ nonce \in {None, on[env]}
  /\ MayAnswer(env) \/ (nonce = None /\ Refuses(on[env]))

\* It may keep silent for all of PATIENCE.
MayBeSilent == Noted /\ (on[env] \in Server => mood[on[env]] # "full")

\* Nobody is there, or another server, or one that refuses the connection:
\* that answers, without a nonce.
MayBeGone ==
  \/ ~Noted
  \/ Noted /\ nonce # None /\ (on[env] # nonce \/ mood[nonce] = "full")

\* is_same of a process in users/.
LiveUsers == {m \in users : pc[m] # "gone"}

-----------------------------------------------------------------------------
(* How a step ends *)

Go(p, to) == pc' = [pc EXCEPT ![p] = to] /\ UNCHANGED <<lock, op, dsp, child>>

\* The operation is over and the lock, if p has it, is dropped.
Leave(p, to) ==
  /\ pc' = [pc EXCEPT ![p] = to]
  /\ op' = IF to = "open" THEN op ELSE [op EXCEPT ![p] = "none"]
  /\ child' = [child EXCEPT ![p] = None]
  /\ lock' = IF lock = p THEN None ELSE lock

\* With an error: `xcua mcp` gives up when it starts, and goes on otherwise.
Fail(p) ==
  /\ Leave(p, IF p \in Cli THEN "idle" ELSE IF op[p] = "reup" THEN "running" ELSE "gone")
  /\ dsp' = [dsp EXCEPT ![p] = None]

\* With display d, which an mcp opens next.
Done(p, d) ==
  /\ Leave(p, IF p \in Cli THEN "idle" ELSE IF op[p] = "release" THEN "gone" ELSE "open")
  /\ dsp' = [dsp EXCEPT ![p] = IF p \in Cli \/ op[p] = "release" THEN None ELSE d]

\* Server s ends, and so do the connections to it.
Ends(s) ==
  /\ on' = [d \in Display |-> IF on[d] = s THEN None ELSE on[d]]
  /\ session' = [m \in Mcp |-> IF session[m] = s THEN None ELSE session[m]]

still == <<xs, session, leaked, excused, faults>>

-----------------------------------------------------------------------------
(* Commands *)

Begin(p, o, d) ==
  /\ pc' = [pc EXCEPT ![p] = "lock"]
  /\ op' = [op EXCEPT ![p] = o]
  /\ dsp' = [dsp EXCEPT ![p] = d]
  /\ UNCHANGED <<still, lock, files, child>>

Command(c) ==
  /\ pc[c] = "idle"
  /\ \/ \E o \in {"up", "restart", "down"} : Begin(c, o, None)
     \/ \E d \in Display : Begin(c, "attach", d)

StartMcp(m) == pc[m] = "off" /\ Begin(m, "start", None)

\* A tool call finds its connection dead (reconnect).
Reup(m) == pc[m] = "running" /\ session[m] = None /\ Begin(m, "reup", None)

\* The client hangs up, or a signal ends the server: the connections are
\* closed, and release() is next.
Quit(m) ==
  /\ pc[m] = "running"
  /\ pc' = [pc EXCEPT ![m] = "lock"]
  /\ op' = [op EXCEPT ![m] = "release"]
  /\ session' = [session EXCEPT ![m] = None]
  /\ UNCHANGED <<xs, lock, files, dsp, child, leaked, excused, faults>>

First(p) == IF op[p] = "down" THEN "down" ELSE IF op[p] = "release" THEN "leave" ELSE "check"

\* Slip: the lock is taken whoever has it.
TakeAnyway(p) ==
  /\ pc[p] = "lock"
  /\ lock' = p
  /\ pc' = [pc EXCEPT ![p] = First(p)]
  /\ UNCHANGED <<still, files, op, dsp, child>>

Take(p) ==
  /\ pc[p] = "lock" /\ lock = None
  /\ lock' = p
  /\ pc' = [pc EXCEPT ![p] = First(p)]
  /\ UNCHANGED <<still, files, op, dsp, child>>

\* Another xcua has the state directory for 10 s.
TakeFails(p) ==
  /\ pc[p] = "lock" /\ lock # None
  /\ Fail(p)
  /\ excused' = (excused \/ op[p] = "release")
  /\ UNCHANGED <<xs, session, leaked, faults, files>>

-----------------------------------------------------------------------------
(* up_with *)

FindLive(p) ==
  /\ pc[p] = "check" /\ MayBeLive
  /\ \/ op[p] = "attach" /\ env = dsp[p] /\ Go(p, "reuse")
     \/ op[p] = "attach" /\ env # dsp[p] /\ Fail(p)
     \/ op[p] = "restart" /\ Go(p, "stop")
     \/ op[p] \in {"up", "start", "reup"} /\ Go(p, "reuse")
     \/ op[p] = "up" /\ Fail(p)      \* it runs at another size
  /\ UNCHANGED <<still, files>>

\* Only a server that /proc shows stopped is killed for its silence.
FindSilent(p) ==
  /\ pc[p] = "check" /\ MayBeSilent
  /\ IF op[p] # "attach" /\ IsXvfb(pid) /\ mood[pid] = "stopped"
     THEN Go(p, "stop") ELSE Fail(p)
  /\ UNCHANGED <<still, files>>

FindGone(p) ==
  /\ pc[p] = "check" /\ MayBeGone
  /\ \/ op[p] # "attach" /\ Go(p, "attached")
     \/ op[p] = "attach" /\ MayAnswer(dsp[p]) /\ Go(p, "clear")
     \/ op[p] = "attach" /\ Fail(p)
  /\ UNCHANGED <<still, files>>

\* attached(): a display on file without a pid, and it answers ...
Attached(p) ==
  /\ pc[p] = "attached" /\ pid = None /\ MayAnswer(env)
  /\ IF op[p] = "restart" THEN Fail(p) ELSE Done(p, env)
  /\ UNCHANGED <<still, files>>

\* ... or not, or not in time.
NotAttached(p) ==
  /\ pc[p] = "attached"
  /\ Go(p, "clear")
  /\ UNCHANGED <<still, files>>

\* reuse(): a shell adopts the Xvfb, an mcp becomes its user ...
ReuseByUp(p) ==
  /\ pc[p] = "reuse" /\ p \in Cli
  /\ owner' = "up"
  /\ Done(p, env)
  /\ UNCHANGED <<still, env, pid, nonce, users>>

ReuseByMcp(m) ==
  /\ pc[m] = "reuse" /\ m \in Mcp
  /\ users' = users \cup {m}
  /\ Go(m, "adopt")
  /\ UNCHANGED <<still, env, pid, nonce, owner>>

StarterDead == owner = "none" \/ (owner \in Mcp /\ pc[owner] = "gone")

\* ... and its owner if whoever started it is dead.
Adopt(m) ==
  /\ pc[m] = "adopt"
  /\ owner' = IF StarterDead THEN m ELSE owner
  /\ Done(m, env)
  /\ UNCHANGED <<still, env, pid, nonce, users>>

-----------------------------------------------------------------------------
(* stop, clear and what follows *)

\* Slip: a restart forgets the running Xvfb without stopping it.
StopNothing(p) ==
  /\ pc[p] = "stop"
  /\ Go(p, "clear")
  /\ UNCHANGED <<still, files>>

\* Without /proc, only the nonce says that the pidfile's process is xcua's.
Vouched == env # None /\ MayAnswer(env) /\ nonce # None /\ on[env] = nonce

StopYes(p) ==
  /\ pc[p] = "stop"
  /\ Alive(pid) /\ (haveProc \/ Vouched)
  /\ Ends(pid)
  /\ Go(p, "clear")
  /\ UNCHANGED <<mood, spare, files, leaked, excused, faults>>

\* The process is not provably xcua's; without /proc one slow answer does it.
StopNotOurs(p) ==
  /\ pc[p] = "stop"
  /\ ~IsXvfb(pid)
  /\ Go(p, "clear")
  /\ UNCHANGED <<still, files>>

\* Without /proc: SIGTERM is sent, and the display still answers.
StopStillAnswering(p) ==
  /\ pc[p] = "stop"
  /\ ~haveProc /\ Alive(pid) /\ Vouched
  /\ Fail(p)
  /\ UNCHANGED <<still, files>>

\* clear(), env first.  (A restart clears once more before it spawns.)
ClearEnv(p) ==
  /\ pc[p] = "clear"
  /\ env' = None
  /\ Go(p, "clearRest")
  /\ UNCHANGED <<still, pid, nonce, owner, users>>

ClearRest(p) ==
  /\ pc[p] = "clearRest"
  /\ pid' = None /\ nonce' = None /\ owner' = "none" /\ users' = {}
  /\ CASE op[p] = "attach"              -> Go(p, "env")
       [] op[p] \in {"down", "release"} -> Done(p, None)
       [] OTHER                         -> Go(p, "spawn")
  /\ UNCHANGED <<still, env>>

\* The new Xvfb is up and carries its nonce.
Spawn(p) ==
  /\ pc[p] = "spawn"
  /\ \E s \in spare \cap Server, d \in Display :
       /\ on[d] = None
       /\ on' = [on EXCEPT ![d] = s]
       /\ spare' = spare \ {s}
       /\ dsp' = [dsp EXCEPT ![p] = d]
       /\ child' = [child EXCEPT ![p] = s]
  /\ pc' = [pc EXCEPT ![p] = "env"]
  /\ UNCHANGED <<mood, lock, files, op, session, leaked, excused, faults>>

\* There is no Xvfb, or it does not come up and is killed.
SpawnFails(p) ==
  /\ pc[p] = "spawn"
  /\ Fail(p)
  /\ UNCHANGED <<still, files>>

\* write(): env, xvfb.pid, nonce, owner.
WriteEnv(p) ==
  /\ pc[p] = "env"
  /\ env' = dsp[p]
  /\ IF op[p] = "attach" THEN Done(p, dsp[p]) ELSE Go(p, "pid")
  /\ UNCHANGED <<still, pid, nonce, owner, users>>

WritePid(p) ==
  /\ pc[p] = "pid"
  /\ pid' = child[p]
  /\ Go(p, "nonce")
  /\ UNCHANGED <<still, env, nonce, owner, users>>

WriteNonce(p) ==
  /\ pc[p] = "nonce"
  /\ nonce' = child[p]
  /\ Go(p, "owner")
  /\ UNCHANGED <<still, env, pid, owner, users>>

WriteOwner(p) ==
  /\ pc[p] = "owner"
  /\ owner' = IF p \in Mcp THEN p ELSE "up"
  /\ IF p \in Mcp THEN Go(p, "user") ELSE Done(p, dsp[p])
  /\ UNCHANGED <<still, env, pid, nonce, users>>

AddUser(m) ==
  /\ pc[m] = "user"
  /\ users' = users \cup {m}
  /\ Done(m, dsp[m])
  /\ UNCHANGED <<still, env, pid, nonce, owner>>

-----------------------------------------------------------------------------
(* down, release and status *)

\* Whatever the pidfile names is stopped; an attached display is forgotten.
Down(p) ==
  /\ pc[p] = "down"
  /\ Go(p, IF pid # None THEN "stop" ELSE "clear")
  /\ UNCHANGED <<still, files>>

\* Slip: who leaves stays on the list.
StayUser(m) ==
  /\ pc[m] = "leave"
  /\ Go(m, "last")
  /\ UNCHANGED <<still, files>>

RemoveUser(m) ==
  /\ pc[m] = "leave"
  /\ users' = users \ {m}
  /\ Go(m, "last")
  /\ UNCHANGED <<still, env, pid, nonce, owner>>

\* xcua did not start the display, or a shell wants it kept ...
NotMine(m) ==
  /\ pc[m] = "last"
  /\ pid = None \/ owner = "up"
  /\ Done(m, None)
  /\ UNCHANGED <<still, files>>

\* Slip: the first user to leave stops the Xvfb.
FirstStops(m) ==
  /\ pc[m] = "last"
  /\ pid # None /\ owner # "up"
  /\ Go(m, "stop")
  /\ UNCHANGED <<still, files>>

\* ... or it is the last live user's to stop.
Last(m) ==
  /\ pc[m] = "last"
  /\ pid # None /\ owner # "up"
  /\ users' = LiveUsers
  /\ IF LiveUsers = {} THEN Go(m, "stop") ELSE Done(m, None)
  /\ UNCHANGED <<still, env, pid, nonce, owner>>

\* `xcua status` and `doctor` list the users, and so prune the dead, unlocked.
Status ==
  /\ users # LiveUsers
  /\ users' = LiveUsers
  /\ UNCHANGED <<still, env, pid, nonce, owner, lock, pc, op, dsp, child>>

-----------------------------------------------------------------------------
(* The mcp's connections *)

\* XBackend::open and reconnect connect to whatever is on the display by then.
Open(m) ==
  /\ pc[m] = "open" /\ MayAnswer(dsp[m])
  /\ session' = [session EXCEPT ![m] = on[dsp[m]]]
  /\ pc' = [pc EXCEPT ![m] = "running"]
  /\ op' = [op EXCEPT ![m] = "none"]
  /\ dsp' = [dsp EXCEPT ![m] = None]
  /\ UNCHANGED <<xs, lock, files, child, leaked, excused, faults>>

\* A starting mcp then leaves as it would later; a running one answers the
\* call with an error.
OpenFails(m) ==
  /\ pc[m] = "open"
  /\ IF op[m] = "start" THEN Begin(m, "release", None)
     ELSE /\ Fail(m)
          /\ UNCHANGED <<still, files>>

-----------------------------------------------------------------------------
(* What nobody in xcua decides *)

ServerEnds(s) ==
  /\ Alive(s)
  /\ Ends(s)
  /\ UNCHANGED <<mood, spare, lock, files, pc, op, dsp, child, leaked, excused, faults>>

ForeignStarts(f, d) ==
  /\ f \in spare /\ on[d] = None
  /\ on' = [on EXCEPT ![d] = f]
  /\ spare' = spare \ {f}
  /\ UNCHANGED <<mood, lock, files, pc, op, dsp, child, session, leaked, excused, faults>>

\* A signal stops an Xvfb or lets it go on; its last client comes or goes.
MoodChanges(s) ==
  /\ Alive(s)
  /\ \E x \in Moods[haveProc] :
       mood' = [mood EXCEPT ![s] = IF mood[s] = "well" THEN x ELSE "well"]
  /\ UNCHANGED <<on, spare, lock, files, pc, op, dsp, child, session, leaked, excused, faults>>

\* The starter of an Xvfb is gone and the pidfile will not name it.
Leaks(p) == leaked' = leaked \cup (IF pc[p] \in {"env", "pid"} THEN {child[p]} \ {None} ELSE {})

\* SIGKILL, whatever the process is at.
Kill(p) ==
  /\ pc[p] \notin {"idle", "off", "gone"}
  /\ faults < MaxFaults[haveProc]
  /\ faults' = faults + 1
  /\ excused' = TRUE
  /\ Leaks(p)
  /\ Leave(p, IF p \in Cli THEN "idle" ELSE "gone")
  /\ dsp' = [dsp EXCEPT ![p] = None]
  /\ session' = [m \in Mcp |-> IF m = p THEN None ELSE session[m]]
  /\ UNCHANGED <<xs, files>>

Writes == {"env", "pid", "nonce", "owner", "user", "reuse"}

\* A file cannot be written; up() returns the error and leaves the rest.
WriteFails(p) ==
  /\ pc[p] \in Writes \/ (pc[p] = "adopt" /\ StarterDead)
  /\ pc[p] = "reuse" /\ p \in Cli => owner # "up"
  /\ faults < MaxFaults[haveProc]
  /\ faults' = faults + 1
  /\ excused' = TRUE
  /\ Leaks(p)
  /\ Fail(p)
  /\ UNCHANGED <<xs, files, session>>

-----------------------------------------------------------------------------

UpStep(p) ==
  \/ Take(p) \/ TakeFails(p)
  \/ FindLive(p) \/ FindSilent(p) \/ FindGone(p) \/ Attached(p) \/ NotAttached(p)
  \/ ReuseByUp(p) \/ StopYes(p) \/ StopNotOurs(p) \/ StopStillAnswering(p)
  \/ ClearEnv(p) \/ ClearRest(p) \/ Spawn(p) \/ SpawnFails(p)
  \/ WriteEnv(p) \/ WritePid(p) \/ WriteNonce(p) \/ WriteOwner(p) \/ Down(p)

McpStep(m) ==
  \/ StartMcp(m) \/ Reup(m) \/ Quit(m) \/ ReuseByMcp(m) \/ Adopt(m) \/ AddUser(m)
  \/ RemoveUser(m) \/ NotMine(m) \/ Last(m) \/ Open(m) \/ OpenFails(m)

Environment ==
  \/ Status
  \/ \E s \in X : ServerEnds(s)
  \/ \E f \in Foreign, d \in Display : ForeignStarts(f, d)
  \/ \E s \in Server : MoodChanges(s)
  \/ \E p \in Proc : Kill(p) \/ WriteFails(p)

Next ==
  /\ \/ \E c \in Cli : Command(c)
     \/ \E p \in Proc : UpStep(p)
     \/ \E m \in Mcp : McpStep(m)
     \/ Environment
  /\ UNCHANGED haveProc

Spec == Init /\ [][Next]_vars

-----------------------------------------------------------------------------
(* Properties *)

\* The Xvfbs of xcua's that run and whose starter did not end half-way.
Known == {s \in Server \ leaked : Alive(s)}

\* xvfb.rs:16-17: concurrent commands start one Xvfb between them, whatever
\* ends, stops or is restarted meanwhile; with /proc.
OneXvfb == haveProc => \A s, t \in Known : s = t

\* An Xvfb that runs is named by the pidfile, or by the process that is just
\* about to write it: none is forgotten while it lives; with /proc.
NotForgotten ==
  haveProc => \A s \in Known :
    pid = s \/ \E p \in Proc : lock = p /\ child[p] = s /\ pc[p] \in {"env", "pid"}

\* xvfb.rs:70-72: when nobody is at work on the state directory, an Xvfb that
\* no shell owns has a live user, unless a write failed or a user ended without
\* release(): killed, or because it could not take the lock; with /proc.
NoOrphan ==
  haveProc /\ ~excused /\ lock = None /\ pid # None /\ owner # "up" /\ Alive(pid) => LiveUsers # {}

\* xvfb.rs:69-71: an mcp that leaves stops neither an Xvfb that a shell started
\* or adopted nor one that another live mcp is a user of.
LastUserStops ==
  [][\A m \in Mcp :
       op[m] = "release" /\ pc[m] = "stop" /\ Alive(pid) /\ ~Alive(pid)'
         => owner # "up" /\ LiveUsers = {}]_vars

-----------------------------------------------------------------------------
(* The inductive invariant of the proofs *)

\* Whoever is at work on the state directory holds its lock.
HolderInv == \A p \in Proc : pc[p] \in Locked <=> lock = p

\* Who looks for a display is not about to stop one.
OpInv ==
  \A p \in Proc :
    /\ pc[p] = "check" => op[p] \notin {"down", "release"}
    /\ pc[p] = "down" => op[p] = "down"

\* What the last user saw of the files still holds when it stops the Xvfb.
LastInv ==
  \A m \in Mcp : op[m] = "release" /\ pc[m] = "stop" => owner # "up" /\ LiveUsers = {}

\* An mcp that waits for the lock, has it or opens its display runs something,
\* and one that leaves neither takes an Xvfb up nor starts one.
BusyInv ==
  \A m \in Mcp :
    /\ op[m] \notin McpOp => pc[m] \notin Locked /\ pc[m] \notin {"lock", "open"}
    /\ op[m] = "release" =>
         pc[m] \notin {"reuse", "adopt", "attached", "spawn", "env", "pid", "nonce",
                       "owner", "user"}

\* Whoever has started an Xvfb is at its files, and did not come to attach.
ChildInv ==
  \A p \in Proc :
    /\ pc[p] = "spawn" => op[p] # "attach"
    /\ child[p] # None =>
         pc[p] \in {"env", "pid", "nonce", "owner", "user"} /\ op[p] # "attach"

\* Who is a user has found the Xvfb or started it, and has yet to leave, unless
\* it was killed.
UserInv ==
  ~excused => \A m \in users :
    /\ pc[m] \notin {"off", "gone"}
    /\ op[m] = "start" => pc[m] \in {"adopt", "open"}
    /\ op[m] = "release" => pc[m] \in {"lock", "leave"}

\* What may happen to an Xvfb has happened, and none runs that is yet to start.
ServerInv ==
  /\ \A s \in Server : mood[s] \in {"well"} \cup Moods[haveProc]
  /\ \A s \in spare : ~Alive(s)
  /\ ~excused => leaked = {}

XvfbInv ==
  /\ TypeOK /\ HolderInv /\ OpInv /\ LastInv
  /\ BusyInv /\ ChildInv /\ UserInv /\ ServerInv

\* Where a process is that is at the notes of an Xvfb.
Noting == {"attached", "clear", "clearRest", "spawn", "env", "pid", "nonce"}

\* What the files say of an Xvfb that runs, and what the process that is at work
\* on them has seen or written; with /proc.
FilesInv ==
  haveProc =>
    /\ pid \in Known => env # None /\ on[env] = pid /\ nonce \in {None, pid}
    /\ \A p \in Proc : pc[p] \in Noting =>
         /\ pc[p] \in {"attached", "clear", "clearRest", "spawn"} => Known = {}
         /\ pc[p] \in {"spawn", "env", "pid"} => pid = None /\ nonce = None
         /\ pc[p] \in {"env", "pid"} /\ child[p] \in Known =>
              dsp[p] # None /\ on[dsp[p]] = child[p]
         /\ pc[p] = "pid" => env = dsp[p]
         /\ pc[p] = "nonce" => pid = child[p] /\ nonce = None

\* An Xvfb that no shell owns has a user, or a process at work that will be one,
\* or will stop it.
OwnedInv ==
  haveProc /\ ~excused /\ pid # None /\ owner # "up" /\ Alive(pid) =>
    \/ users # {}
    \/ \E p \in Proc : pc[p] \in {"nonce", "owner", "user", "last", "stop"}

\* One Xvfb at a time, and it is known to all; with /proc.
OneKnownXvfb == OneXvfb /\ NotForgotten /\ FilesInv /\ OwnedInv
=============================================================================
