----------------------------- MODULE XvfbProofs -----------------------------
(***************************************************************************)
(* Theorems about the Xvfb's lifecycle for any number of processes,        *)
(* displays, X servers and faults.  The flock keeps the notes of the state *)
(* directory one process's at a time, and so what the last user of an Xvfb *)
(* saw is still so when it stops it.  With /proc, and while no Xvfb is at  *)
(* its client limit, the notes never lose an Xvfb that runs: whoever is at *)
(* them knows of it, and so there is only one, and it has a user.          *)
(***************************************************************************)
EXTENDS Xvfb, LockExcl, TLAPS

\* An empty state directory is a start.
LEMMA InitXvfb == Init => XvfbInv
<1> SUFFICES ASSUME Init PROVE XvfbInv
  OBVIOUS
<1>1. \A p \in Proc : pc[p] \in {"off", "idle"} /\ op[p] = "none"
  BY DEF Init
<1>2. TypeOK
  <2>1. pc \in [Proc -> Where] /\ op \in [Proc -> CliOp \cup McpOp \cup {"none"}]
    BY DEF Init, Where
  <2>2. haveProc \in BOOLEAN /\ faults \in 0 .. MaxFaults[haveProc]
    BY XvfbAssumption DEF Init
  <2> QED
    BY <2>1, <2>2 DEF Init, TypeOK
<1>3. HolderInv
  BY <1>1, XvfbAssumption DEF Init, HolderInv, Locked
<1>4. OpInv /\ LastInv
  BY <1>1 DEF OpInv, LastInv, Proc
<1>5. BusyInv /\ ChildInv /\ UserInv
  BY <1>1, XvfbAssumption DEF Init, BusyInv, ChildInv, UserInv, Locked, Proc
<1>6. ServerInv
  BY XvfbAssumption DEF Init, ServerInv, Alive, X
<1> QED
  BY <1>2, <1>3, <1>4, <1>5, <1>6 DEF XvfbInv

-----------------------------------------------------------------------------
(* Type correctness *)

\* How an operation ends keeps the types of the processes' variables.
LEMMA EndTypes ==
  ASSUME TypeOK, NEW p \in Proc, NEW d \in Display \cup {None},
         Fail(p) \/ Done(p, d) \/ (\E to \in Where : Go(p, to))
  PROVE  /\ pc' \in [Proc -> Where]
         /\ op' \in [Proc -> CliOp \cup McpOp \cup {"none"}]
         /\ dsp' \in [Proc -> Display \cup {None}]
         /\ child' \in [Proc -> Server \cup {None}]
         /\ lock' \in Proc \cup {None}
<1>1. CASE \E to \in Where : Go(p, to)
  BY <1>1 DEF Go, TypeOK
<1>2. CASE Fail(p)
  <2>1. \E to \in Where : Leave(p, to)
    BY <1>2 DEF Fail, Where
  <2> QED
    BY <2>1, <1>2 DEF Fail, Leave, TypeOK
<1>3. CASE Done(p, d)
  <2>1. \E to \in Where : Leave(p, to)
    BY <1>3 DEF Done, Where
  <2>2. dsp' \in [Proc -> Display \cup {None}]
    BY <1>3 DEF Done, TypeOK
  <2> QED
    BY <2>1, <2>2 DEF Leave, TypeOK
<1> QED
  BY <1>1, <1>2, <1>3

\* A new command has a display or none.
LEMMA BeginTypes ==
  ASSUME TypeOK, NEW p \in Proc, NEW o \in CliOp \cup McpOp,
         NEW d \in Display \cup {None}, Begin(p, o, d), UNCHANGED haveProc
  PROVE  TypeOK'
<1>1. pc' \in [Proc -> Where]
  BY DEF Begin, TypeOK, Where
<1>2. op' \in [Proc -> CliOp \cup McpOp \cup {"none"}]
  BY DEF Begin, TypeOK
<1>3. dsp' \in [Proc -> Display \cup {None}]
  BY DEF Begin, TypeOK
<1> QED
  BY <1>1, <1>2, <1>3 DEF Begin, TypeOK, still, xs, files

\* A server that ends is taken out of the maps.
LEMMA EndsTypes ==
  ASSUME TypeOK, NEW s \in X \cup {None}, Ends(s)
  PROVE  on' \in [Display -> X \cup {None}] /\ session' \in [Mcp -> X \cup {None}]
BY DEF TypeOK, Ends

\* Steps that change no file, no server and no connection.
LEMMA AsideTypes ==
  ASSUME TypeOK, NEW p \in Proc, UNCHANGED haveProc,
         \/ FindLive(p) \/ FindSilent(p) \/ FindGone(p) \/ Attached(p) \/ NotAttached(p)
         \/ StopNotOurs(p) \/ StopStillAnswering(p) \/ SpawnFails(p) \/ Down(p) \/ NotMine(p)
  PROVE  TypeOK'
<1>1. UNCHANGED <<still, files>>
  BY DEF FindLive, FindSilent, FindGone, Attached, NotAttached, StopNotOurs,
         StopStillAnswering, SpawnFails, Down, NotMine
<1>2. \E d \in Display \cup {None} :
        Fail(p) \/ Done(p, d) \/ (\E to \in Where : Go(p, to))
  <2>1. {"reuse", "stop", "attached", "clear"} \subseteq Where
    BY DEF Where, Locked
  <2>2. env \in Display \cup {None}
    BY DEF TypeOK
  <2> QED
    BY <2>1, <2>2 DEF FindLive, FindSilent, FindGone, Attached, NotAttached,
       StopNotOurs, StopStillAnswering, SpawnFails, Down, NotMine
<1> QED
  BY <1>1, <1>2, EndTypes DEF TypeOK, still, xs, files

\* Steps that write a file.
LEMMA FileTypes ==
  ASSUME TypeOK, NEW p \in Proc, UNCHANGED haveProc,
         \/ ReuseByUp(p) \/ ClearEnv(p) \/ ClearRest(p) \/ WriteEnv(p) \/ WritePid(p)
         \/ WriteNonce(p) \/ WriteOwner(p)
         \/ p \in Mcp /\ (ReuseByMcp(p) \/ Adopt(p) \/ AddUser(p) \/ RemoveUser(p) \/ Last(p))
  PROVE  TypeOK'
<1>1. UNCHANGED still
  BY DEF ReuseByUp, ClearEnv, ClearRest, WriteEnv, WritePid, WriteNonce, WriteOwner,
         ReuseByMcp, Adopt, AddUser, RemoveUser, Last
<1>2. \E d \in Display \cup {None} :
        Fail(p) \/ Done(p, d) \/ (\E to \in Where : Go(p, to))
  <2>1. {"adopt", "clearRest", "env", "spawn", "pid", "nonce", "owner", "user",
         "last", "stop"} \subseteq Where
    BY DEF Where, Locked
  <2>2. env \in Display \cup {None} /\ dsp[p] \in Display \cup {None}
    BY DEF TypeOK
  <2> QED
    BY <2>1, <2>2 DEF ReuseByUp, ClearEnv, ClearRest, WriteEnv, WritePid, WriteNonce,
       WriteOwner, ReuseByMcp, Adopt, AddUser, RemoveUser, Last
<1>3. /\ env' \in Display \cup {None}
      /\ pid' \in Server \cup {None} /\ nonce' \in Server \cup {None}
  BY DEF TypeOK, files, ReuseByUp, ClearEnv, ClearRest, WriteEnv, WritePid, WriteNonce,
         WriteOwner, ReuseByMcp, Adopt, AddUser, RemoveUser, Last
<1>4. owner' \in Mcp \cup {"up", "none"}
  BY DEF TypeOK, files, ReuseByUp, ClearEnv, ClearRest, WriteEnv, WritePid, WriteNonce,
         WriteOwner, ReuseByMcp, Adopt, AddUser, RemoveUser, Last
<1>5. users' \subseteq Mcp
  BY DEF TypeOK, files, ReuseByUp, ClearEnv, ClearRest, WriteEnv, WritePid, WriteNonce,
         WriteOwner, ReuseByMcp, Adopt, AddUser, RemoveUser, Last, LiveUsers
<1> QED
  BY <1>1, <1>2, <1>3, <1>4, <1>5, EndTypes DEF TypeOK, still, xs

\* The other steps of a process.
LEMMA ProcTypes ==
  ASSUME TypeOK, NEW p \in Proc, UNCHANGED haveProc,
         \/ Take(p) \/ TakeFails(p) \/ StopYes(p) \/ Spawn(p) \/ Kill(p) \/ WriteFails(p)
         \/ p \in Mcp /\ (Quit(p) \/ Open(p) \/ OpenFails(p))
  PROVE  TypeOK'
<1>1. CASE Take(p)
  <2>1. {"down", "leave", "check"} \subseteq Where
    BY DEF Where, Locked
  <2>2. pc' \in [Proc -> Where]
    BY <1>1, <2>1 DEF Take, First, TypeOK
  <2> QED
    BY <1>1, <2>2 DEF Take, TypeOK, still, xs, files
<1>2. CASE TakeFails(p)
  <2>1. excused' \in BOOLEAN
    BY <1>2 DEF TakeFails
  <2> QED
    BY <1>2, <2>1, EndTypes DEF TakeFails, TypeOK, xs, files
<1>3. CASE StopYes(p)
  <2>1. pid \in X \cup {None} /\ "clear" \in Where
    BY DEF TypeOK, X, Where, Locked
  <2> QED
    BY <1>3, <2>1, EndsTypes, EndTypes DEF StopYes, TypeOK, files
<1>4. CASE Spawn(p)
  <2>1. PICK s \in spare \cap Server, d \in Display :
          /\ on' = [on EXCEPT ![d] = s]
          /\ spare' = spare \ {s}
          /\ dsp' = [dsp EXCEPT ![p] = d]
          /\ child' = [child EXCEPT ![p] = s]
    BY <1>4 DEF Spawn
  <2>2. "env" \in Where
    BY DEF Where, Locked
  <2>3. /\ on' \in [Display -> X \cup {None}] /\ spare' \subseteq X
        /\ dsp' \in [Proc -> Display \cup {None}]
        /\ child' \in [Proc -> Server \cup {None}]
    BY <2>1 DEF TypeOK, X
  <2>4. pc' \in [Proc -> Where]
    BY <1>4, <2>2 DEF Spawn, TypeOK
  <2> QED
    BY <1>4, <2>3, <2>4 DEF Spawn, TypeOK, files
<1>5. CASE Kill(p)
  <2>1. faults' \in 0 .. MaxFaults[haveProc'] /\ excused' \in BOOLEAN
    <3>1. MaxFaults[haveProc] \in Nat
      BY XvfbAssumption DEF TypeOK
    <3> QED
      BY <1>5, <3>1 DEF Kill, TypeOK
  <2>2. leaked' \subseteq Server
    BY <1>5 DEF Kill, Leaks, TypeOK
  <2>3. {"idle", "gone"} \subseteq Where
    BY DEF Where
  <2>4. /\ pc' \in [Proc -> Where]
        /\ op' \in [Proc -> CliOp \cup McpOp \cup {"none"}]
        /\ child' \in [Proc -> Server \cup {None}]
        /\ lock' \in Proc \cup {None}
    BY <1>5, <2>3 DEF Kill, Leave, TypeOK
  <2>5. dsp' \in [Proc -> Display \cup {None}] /\ session' \in [Mcp -> X \cup {None}]
    BY <1>5 DEF Kill, TypeOK
  <2> QED
    BY <1>5, <2>1, <2>2, <2>4, <2>5 DEF Kill, TypeOK, xs, files
<1>6. CASE WriteFails(p)
  <2>1. faults' \in 0 .. MaxFaults[haveProc'] /\ excused' \in BOOLEAN
    <3>1. MaxFaults[haveProc] \in Nat
      BY XvfbAssumption DEF TypeOK
    <3> QED
      BY <1>6, <3>1 DEF WriteFails, TypeOK
  <2>2. leaked' \subseteq Server
    BY <1>6 DEF WriteFails, Leaks, TypeOK
  <2>3. Fail(p) /\ UNCHANGED <<xs, files, session>>
    BY <1>6 DEF WriteFails
  <2> QED
    BY <2>1, <2>2, <2>3, EndTypes DEF TypeOK, xs, files
<1>7. CASE p \in Mcp /\ Quit(p)
  <2>1. pc' \in [Proc -> Where] /\ op' \in [Proc -> CliOp \cup McpOp \cup {"none"}]
    BY <1>7 DEF Quit, TypeOK, Where, McpOp
  <2>2. session' \in [Mcp -> X \cup {None}]
    BY <1>7 DEF Quit, TypeOK
  <2> QED
    BY <1>7, <2>1, <2>2 DEF Quit, TypeOK, xs, files
<1>8. CASE p \in Mcp /\ Open(p)
  <2>1. pc' \in [Proc -> Where] /\ op' \in [Proc -> CliOp \cup McpOp \cup {"none"}]
    BY <1>8 DEF Open, TypeOK, Where
  <2>2. dsp' \in [Proc -> Display \cup {None}]
    BY <1>8 DEF Open, TypeOK
  <2>3. on[dsp[p]] \in X \cup {None}
    BY <1>8 DEF Open, MayAnswer, TypeOK
  <2>4. session' \in [Mcp -> X \cup {None}]
    BY <1>8, <2>3 DEF Open, TypeOK
  <2> QED
    BY <1>8, <2>1, <2>2, <2>4 DEF Open, TypeOK, xs, files
<1>9. CASE p \in Mcp /\ OpenFails(p)
  <2>1. CASE Begin(p, "release", None)
    BY <2>1, BeginTypes DEF McpOp
  <2>2. CASE Fail(p) /\ UNCHANGED <<still, files>>
    BY <2>2, EndTypes DEF TypeOK, still, xs, files
  <2> QED
    BY <1>9, <2>1, <2>2 DEF OpenFails
<1> QED
  BY <1>1, <1>2, <1>3, <1>4, <1>5, <1>6, <1>7, <1>8, <1>9

\* Every step keeps the types.
LEMMA NextTypes == TypeOK /\ [Next]_vars => TypeOK'
<1> SUFFICES ASSUME TypeOK, [Next]_vars PROVE TypeOK'
  OBVIOUS
<1> UNCHANGED haveProc
  BY DEF Next, vars
<1>1. CASE \E c \in Cli : Command(c)
  <2>1. PICK c \in Cli, o \in CliOp, d \in Display \cup {None} : Begin(c, o, d)
    BY <1>1 DEF Command, CliOp
  <2> QED
    BY <2>1, BeginTypes DEF Proc
<1>2. CASE \E p \in Proc : UpStep(p)
  BY <1>2, AsideTypes, FileTypes, ProcTypes DEF UpStep
<1>3. CASE \E m \in Mcp : McpStep(m)
  <2>1. PICK m \in Mcp : McpStep(m)
    BY <1>3
  <2>2. CASE StartMcp(m) \/ Reup(m)
    <3>1. \E o \in McpOp : Begin(m, o, None)
      BY <2>2 DEF StartMcp, Reup, McpOp
    <3> QED
      BY <3>1, BeginTypes DEF Proc
  <2>3. CASE NotMine(m)
    BY <2>3, AsideTypes DEF Proc
  <2>4. CASE ReuseByMcp(m) \/ Adopt(m) \/ AddUser(m) \/ RemoveUser(m) \/ Last(m)
    BY <2>4, FileTypes DEF Proc
  <2>5. CASE Quit(m) \/ Open(m) \/ OpenFails(m)
    BY <2>5, ProcTypes DEF Proc
  <2> QED
    BY <2>1, <2>2, <2>3, <2>4, <2>5 DEF McpStep
<1>4. CASE Environment
  <2>1. CASE Status
    BY <2>1 DEF Status, LiveUsers, TypeOK, still, xs
  <2>2. CASE \E s \in X : ServerEnds(s)
    BY <2>2, EndsTypes DEF ServerEnds, TypeOK, files
  <2>3. CASE \E f \in Foreign, d \in Display : ForeignStarts(f, d)
    BY <2>3 DEF ForeignStarts, TypeOK, X, files
  <2>4. CASE \E s \in Server : MoodChanges(s)
    <3>1. Moods[haveProc] \subseteq {"stopped", "full"}
      BY XvfbAssumption DEF TypeOK
    <3>2. mood' \in [Server -> {"well", "stopped", "full"}]
      BY <2>4, <3>1 DEF MoodChanges, TypeOK
    <3> QED
      BY <2>4, <3>2 DEF MoodChanges, TypeOK, files
  <2>5. CASE \E p \in Proc : Kill(p) \/ WriteFails(p)
    BY <2>5, ProcTypes
  <2> QED
    BY <1>4, <2>1, <2>2, <2>3, <2>4, <2>5 DEF Environment
<1>5. CASE UNCHANGED vars
  BY <1>5 DEF vars, xs, files, TypeOK
<1> QED
  BY <1>1, <1>2, <1>3, <1>4, <1>5 DEF Next

-----------------------------------------------------------------------------
(* The lock *)

\* A step of p takes it to `to` with operation o, and with the lock if it works
\* on the state directory there.
Moves(p, to, o) ==
  /\ pc' = [pc EXCEPT ![p] = to]
  /\ op' = [op EXCEPT ![p] = o]
  /\ IF to \in Locked THEN lock \in {None, p} /\ lock' = p
     ELSE lock' = IF lock = p THEN None ELSE lock

\* Within the locked part, and at its end.
LEMMA GoMoves ==
  ASSUME TypeOK, HolderInv, NEW p \in Proc, pc[p] \in Locked, NEW to \in Locked, Go(p, to)
  PROVE  Moves(p, to, op[p])
BY DEF Go, Moves, HolderInv, TypeOK

LEMMA LeaveMoves ==
  ASSUME TypeOK, NEW p \in Proc, NEW to \in Where \ Locked, Leave(p, to)
  PROVE  \E o \in {op[p], "none"} : Moves(p, to, o)
<1>1. op = [op EXCEPT ![p] = op[p]]
  BY DEF TypeOK
<1> QED
  BY <1>1 DEF Leave, Moves

LEMMA EndMoves ==
  ASSUME TypeOK, NEW p \in Proc, NEW d, Fail(p) \/ Done(p, d)
  PROVE  \E to \in Where \ Locked, o \in {op[p], "none"} : Moves(p, to, o)
<1>1. {"idle", "running", "gone", "open"} \subseteq Where \ Locked
  BY DEF Where, Locked
<1>2. \E to \in {"idle", "running", "gone", "open"} : Leave(p, to)
  BY DEF Fail, Done
<1> QED
  BY <1>1, <1>2, LeaveMoves

LEMMA BeginMoves ==
  ASSUME HolderInv, NEW p \in Proc, pc[p] \notin Locked,
         NEW o, NEW d, Begin(p, o, d)
  PROVE  Moves(p, "lock", o)
BY DEF Begin, Moves, HolderInv, Locked

\* The steps that hold the lock before and after, but for those that choose
\* what the last user does.
LEMMA InnerMoves ==
  ASSUME TypeOK, HolderInv, OpInv, NEW p \in Proc,
         \/ FindLive(p) \/ FindSilent(p) \/ FindGone(p) \/ Attached(p) \/ NotAttached(p)
         \/ ReuseByUp(p) \/ StopYes(p) \/ StopNotOurs(p) \/ StopStillAnswering(p)
         \/ ClearEnv(p) \/ ClearRest(p) \/ SpawnFails(p) \/ WriteEnv(p) \/ WritePid(p)
         \/ WriteNonce(p) \/ WriteOwner(p) \/ Down(p) \/ ReuseByMcp(p) \/ Adopt(p)
         \/ AddUser(p) \/ RemoveUser(p) \/ NotMine(p)
  PROVE  /\ pc[p] \in Locked
         /\ \E to \in Where, o \in {op[p], "none"} :
              /\ Moves(p, to, o)
              /\ to \notin {"check", "down"}
              /\ to = "stop" => op[p] # "release"
<1>1. pc[p] \in Locked
  BY DEF FindLive, FindSilent, FindGone, Attached, NotAttached, ReuseByUp, StopYes,
         StopNotOurs, StopStillAnswering, ClearEnv, ClearRest, SpawnFails, WriteEnv,
         WritePid, WriteNonce, WriteOwner, Down, ReuseByMcp, Adopt, AddUser,
         RemoveUser, NotMine, Locked
<1>2. \/ \E d : Fail(p) \/ Done(p, d)
      \/ \E to \in Locked \ {"check", "down"} :
           Go(p, to) /\ (to = "stop" => op[p] # "release")
  <2>1. {"reuse", "attached", "stop", "clear", "clearRest", "env", "spawn", "pid",
         "nonce", "owner", "user", "adopt", "last"} \subseteq Locked \ {"check", "down"}
    BY DEF Locked
  <2>2. pc[p] \in {"check", "down"} => op[p] # "release"
    BY DEF OpInv
  <2>3. CASE FindLive(p) \/ FindSilent(p) \/ FindGone(p) \/ Down(p)
    BY <2>1, <2>2, <2>3 DEF FindLive, FindSilent, FindGone, Down
  <2>4. CASE \/ Attached(p) \/ NotAttached(p) \/ ReuseByUp(p) \/ StopYes(p)
             \/ StopNotOurs(p) \/ StopStillAnswering(p) \/ ClearEnv(p)
    BY <2>1, <2>4 DEF Attached, NotAttached, ReuseByUp, StopYes, StopNotOurs,
       StopStillAnswering, ClearEnv
  <2>5. CASE \/ ClearRest(p) \/ SpawnFails(p) \/ WriteEnv(p) \/ WritePid(p)
             \/ WriteNonce(p) \/ WriteOwner(p)
    BY <2>1, <2>5 DEF ClearRest, SpawnFails, WriteEnv, WritePid, WriteNonce, WriteOwner
  <2>6. CASE ReuseByMcp(p) \/ Adopt(p) \/ AddUser(p) \/ RemoveUser(p) \/ NotMine(p)
    BY <2>1, <2>6 DEF ReuseByMcp, Adopt, AddUser, RemoveUser, NotMine
  <2> QED
    BY <2>3, <2>4, <2>5, <2>6
<1>3. CASE \E d : Fail(p) \/ Done(p, d)
  <2>1. PICK to \in Where \ Locked, o \in {op[p], "none"} : Moves(p, to, o)
    BY <1>3, EndMoves
  <2>2. to \notin {"check", "down", "stop"}
    BY DEF Locked
  <2> QED
    BY <1>1, <2>1, <2>2
<1>4. CASE \E to \in Locked \ {"check", "down"} :
             Go(p, to) /\ (to = "stop" => op[p] # "release")
  <2>1. Locked \subseteq Where
    BY DEF Where
  <2> QED
    BY <1>1, <1>4, <2>1, GoMoves
<1> QED
  BY <1>2, <1>3, <1>4

\* The same of the steps at either end of the locked part, and outside it.
LEMMA OuterMoves ==
  ASSUME TypeOK, HolderInv, NEW p \in Proc,
         \/ Command(p) \/ StartMcp(p) \/ Reup(p) \/ Quit(p) \/ Take(p) \/ TakeFails(p)
         \/ Spawn(p) \/ Open(p) \/ OpenFails(p) \/ Kill(p) \/ WriteFails(p)
  PROVE  \E to \in Where \ {"stop"} : \E o :
           /\ Moves(p, to, o)
           /\ to = "check" => o \notin {"down", "release"}
           /\ to = "down" => o = "down"
<1>1. CASE Command(p) \/ StartMcp(p) \/ Reup(p) \/ Quit(p) \/ (OpenFails(p) /\ op[p] = "start")
  <2>1. pc[p] \notin Locked
    BY <1>1 DEF Command, StartMcp, Reup, Quit, OpenFails, Locked
  <2>2. CASE Quit(p)
    BY <2>1, <2>2 DEF Quit, Moves, HolderInv, Where, Locked
  <2>3. CASE ~Quit(p)
    <3>1. PICK o, d : Begin(p, o, d)
      BY <1>1, <2>3 DEF Command, StartMcp, Reup, OpenFails
    <3>2. Moves(p, "lock", o)
      BY <2>1, <3>1, BeginMoves
    <3> QED
      BY <3>2 DEF Where
  <2> QED
    BY <2>2, <2>3
<1>2. CASE Take(p)
  <2>1. op = [op EXCEPT ![p] = op[p]]
    BY DEF TypeOK
  <2>2. First(p) \in Locked /\ First(p) \in Where \ {"stop"}
    BY DEF First, Locked, Where
  <2>3. Moves(p, First(p), op[p])
    BY <1>2, <2>1, <2>2 DEF Take, Moves
  <2> QED
    BY <2>2, <2>3 DEF First
<1>3. CASE Spawn(p)
  <2>1. op = [op EXCEPT ![p] = op[p]]
    BY DEF TypeOK
  <2>2. "env" \in Locked /\ "env" \in Where /\ pc[p] \in Locked
    BY <1>3 DEF Spawn, Locked, Where
  <2>3. Moves(p, "env", op[p])
    BY <1>3, <2>1, <2>2 DEF Spawn, Moves, HolderInv
  <2> QED
    BY <2>2, <2>3
<1>4. CASE Open(p)
  <2>1. pc[p] \notin Locked /\ "running" \notin Locked /\ "running" \in Where
    BY <1>4 DEF Open, Locked, Where
  <2>2. Moves(p, "running", "none")
    BY <1>4, <2>1 DEF Open, Moves, HolderInv
  <2> QED
    BY <2>1, <2>2
<1>5. CASE TakeFails(p) \/ WriteFails(p) \/ Kill(p) \/ (OpenFails(p) /\ op[p] # "start")
  <2>1. {"idle", "gone"} \subseteq Where \ Locked
    BY DEF Where, Locked
  <2>2. Fail(p) \/ (\E to \in Where \ Locked : Leave(p, to))
    BY <1>5, <2>1 DEF TakeFails, WriteFails, Kill, OpenFails
  <2>3. \E to \in Where \ Locked, o \in {op[p], "none"} : Moves(p, to, o)
    BY <2>2, EndMoves, LeaveMoves
  <2>4. Locked \cap {"check", "down", "stop"} = {"check", "down", "stop"}
    BY DEF Locked
  <2> QED
    BY <2>3, <2>4
<1> QED
  BY <1>1, <1>2, <1>3, <1>4, <1>5

\* The last user's choice: it goes on to stop the Xvfb only if nobody minds.
LEMMA LastMoves ==
  ASSUME TypeOK, HolderInv, NEW p \in Proc, Last(p)
  PROVE  /\ pc[p] \in Locked
         /\ \E to \in Where, o \in {op[p], "none"} :
              /\ Moves(p, to, o)
              /\ to \notin {"check", "down"}
              /\ to = "stop" => owner' # "up" /\ users' = {}
<1>1. pc[p] \in Locked
  BY DEF Last, Locked
<1>2. CASE LiveUsers = {}
  <2>1. "stop" \in Locked /\ "stop" \in Where
    BY DEF Locked, Where
  <2>2. Go(p, "stop") /\ owner' # "up" /\ users' = {}
    BY <1>2 DEF Last
  <2> QED
    BY <1>1, <2>1, <2>2, GoMoves
<1>3. CASE LiveUsers # {}
  <2>1. PICK to \in Where \ Locked, o \in {op[p], "none"} : Moves(p, to, o)
    BY <1>3, EndMoves DEF Last
  <2>2. to \notin {"check", "down", "stop"}
    BY DEF Locked
  <2> QED
    BY <1>1, <2>1, <2>2
<1> QED
  BY <1>2, <1>3

-----------------------------------------------------------------------------
(* The invariant *)

\* Outside the locked part a process changes no file, and it is not gone.
LEMMA OutsideKeeps ==
  ASSUME NEW p \in Proc, pc[p] \notin Locked,
         \/ Command(p) \/ StartMcp(p) \/ Reup(p) \/ Quit(p) \/ Take(p) \/ TakeFails(p)
         \/ Spawn(p) \/ Open(p) \/ OpenFails(p) \/ Kill(p) \/ WriteFails(p)
  PROVE  UNCHANGED <<owner, users>> /\ pc[p] # "gone"
<1>1. CASE Command(p) \/ StartMcp(p) \/ Reup(p) \/ OpenFails(p)
  BY <1>1 DEF Command, StartMcp, Reup, OpenFails, Begin, files
<1>2. CASE Quit(p) \/ Take(p) \/ TakeFails(p) \/ Open(p) \/ Kill(p)
  BY <1>2 DEF Quit, Take, TakeFails, Open, Kill, files
<1>3. CASE Spawn(p) \/ WriteFails(p)
  BY <1>3 DEF Spawn, WriteFails, Writes, Locked
<1> QED
  BY <1>1, <1>2, <1>3

\* A process that moves takes the lock, keeps it or lets it go.
LEMMA MovesKeepHolder ==
  ASSUME TypeOK, HolderInv, NEW p \in Proc, NEW to \in Where, NEW o, Moves(p, to, o)
  PROVE  HolderInv'
<1> SUFFICES ASSUME NEW q \in Proc PROVE (pc[q] \in Locked <=> lock = q)'
  BY DEF HolderInv
<1>1. None \notin Proc
  BY XvfbAssumption
<1>2. CASE q = p
  BY <1>1, <1>2 DEF Moves, TypeOK
<1>3. CASE q # p
  <2>1. pc'[q] = pc[q] /\ (pc[q] \in Locked <=> lock = q)
    BY <1>3 DEF Moves, TypeOK, HolderInv
  <2> QED
    BY <1>1, <1>3, <2>1 DEF Moves
<1> QED
  BY <1>2, <1>3

\* Where it goes, it goes for what it runs.
LEMMA MovesKeepOp ==
  ASSUME TypeOK, OpInv, NEW p \in Proc, NEW to \in Where, NEW o, Moves(p, to, o),
         to = "check" => o \notin {"down", "release"},
         to = "down" => o = "down"
  PROVE  OpInv'
<1> SUFFICES ASSUME NEW q \in Proc
             PROVE  /\ pc'[q] = "check" => op'[q] \notin {"down", "release"}
                    /\ pc'[q] = "down" => op'[q] = "down"
  BY DEF OpInv
<1>1. CASE q = p
  BY <1>1 DEF Moves, TypeOK
<1>2. CASE q # p
  BY <1>2 DEF Moves, TypeOK, OpInv
<1> QED
  BY <1>1, <1>2

\* What the last user saw stays so: only p itself, or somebody outside the
\* locked part, moves while it stops the Xvfb.
LEMMA MovesKeepLast ==
  ASSUME TypeOK, HolderInv, LastInv, NEW p \in Proc, NEW to \in Where, NEW o,
         Moves(p, to, o),
         to = "stop" /\ o = "release" => owner' # "up" /\ users' = {},
         pc[p] \notin Locked => UNCHANGED <<owner, users>> /\ pc[p] # "gone"
  PROVE  LastInv'
<1> SUFFICES ASSUME NEW m \in Mcp, op'[m] = "release", pc'[m] = "stop"
             PROVE  owner' # "up" /\ LiveUsers' = {}
  BY DEF LastInv
<1>1. CASE m = p
  <2>1. to = "stop" /\ o = "release"
    BY <1>1 DEF Moves, TypeOK, Proc
  <2> QED
    BY <2>1 DEF LiveUsers
<1>2. CASE m # p
  <2>1. m \in Proc /\ pc[m] = "stop" /\ op[m] = "release"
    BY <1>2 DEF Moves, TypeOK, Proc
  <2>2. pc[p] \notin Locked
    BY <1>2, <2>1 DEF HolderInv, Locked
  <2>3. owner' # "up" /\ users' = users /\ LiveUsers = {} /\ pc[p] # "gone"
    BY <2>1, <2>2 DEF LastInv
  <2>4. \A q \in users : q \in Proc /\ pc[q] = "gone" /\ q # p
    BY <2>3 DEF LiveUsers, TypeOK, Proc
  <2>5. \A q \in users : pc'[q] = "gone"
    BY <2>4 DEF Moves, TypeOK
  <2> QED
    BY <2>3, <2>5 DEF LiveUsers
<1> QED
  BY <1>1, <1>2

\* What happens outside of xcua, and a status, which prunes the dead users.
LEMMA EnvironmentKeeps ==
  ASSUME XvfbInv, UNCHANGED <<lock, pc, op, owner>>, users' \subseteq users
  PROVE  HolderInv' /\ OpInv' /\ LastInv'
<1>1. HolderInv' /\ OpInv'
  BY DEF XvfbInv, HolderInv, OpInv
<1>2. LiveUsers' \subseteq LiveUsers
  BY DEF LiveUsers
<1>3. LastInv'
  BY <1>2 DEF XvfbInv, LastInv
<1> QED
  BY <1>1, <1>3

\* Every step of a process keeps the three invariants.
LEMMA ProcStep ==
  ASSUME XvfbInv, NEW p \in Proc,
         \/ Command(p) \/ UpStep(p) \/ McpStep(p) \/ Kill(p) \/ WriteFails(p)
  PROVE  HolderInv' /\ OpInv' /\ LastInv'
<1>1. TypeOK /\ HolderInv /\ OpInv /\ LastInv
  BY DEF XvfbInv
<1>2. CASE \/ FindLive(p) \/ FindSilent(p) \/ FindGone(p) \/ Attached(p) \/ NotAttached(p)
           \/ ReuseByUp(p) \/ StopYes(p) \/ StopNotOurs(p) \/ StopStillAnswering(p)
           \/ ClearEnv(p) \/ ClearRest(p) \/ SpawnFails(p) \/ WriteEnv(p) \/ WritePid(p)
           \/ WriteNonce(p) \/ WriteOwner(p) \/ Down(p) \/ ReuseByMcp(p) \/ Adopt(p)
           \/ AddUser(p) \/ RemoveUser(p) \/ NotMine(p)
  <2>1. PICK to \in Where, o \in {op[p], "none"} :
          /\ Moves(p, to, o)
          /\ to \notin {"check", "down"}
          /\ to = "stop" => op[p] # "release"
    BY <1>1, <1>2, InnerMoves
  <2>2. pc[p] \in Locked
    BY <1>1, <1>2, InnerMoves
  <2>3. ~(to = "stop" /\ o = "release")
    BY <2>1
  <2> QED
    BY <1>1, <2>1, <2>2, <2>3, MovesKeepHolder, MovesKeepOp, MovesKeepLast
<1>3. CASE Last(p)
  <2>1. PICK to \in Where, o \in {op[p], "none"} :
          /\ Moves(p, to, o)
          /\ to \notin {"check", "down"}
          /\ to = "stop" => owner' # "up" /\ users' = {}
    BY <1>1, <1>3, LastMoves
  <2>2. pc[p] \in Locked
    BY <1>1, <1>3, LastMoves
  <2> QED
    BY <1>1, <2>1, <2>2, MovesKeepHolder, MovesKeepOp, MovesKeepLast
<1>4. CASE \/ Command(p) \/ StartMcp(p) \/ Reup(p) \/ Quit(p) \/ Take(p) \/ TakeFails(p)
           \/ Spawn(p) \/ Open(p) \/ OpenFails(p) \/ Kill(p) \/ WriteFails(p)
  <2>1. PICK to \in Where \ {"stop"} :
          \E o :
            /\ Moves(p, to, o)
            /\ to = "check" => o \notin {"down", "release"}
            /\ to = "down" => o = "down"
    BY <1>1, <1>4, OuterMoves
  <2>2. PICK o : /\ Moves(p, to, o)
                 /\ to = "check" => o \notin {"down", "release"}
                 /\ to = "down" => o = "down"
    BY <2>1
  <2>3. pc[p] \notin Locked => UNCHANGED <<owner, users>> /\ pc[p] # "gone"
    BY <1>4, OutsideKeeps
  <2> QED
    BY <1>1, <2>2, <2>3, MovesKeepHolder, MovesKeepOp, MovesKeepLast
<1> QED
  BY <1>2, <1>3, <1>4 DEF UpStep, McpStep

-----------------------------------------------------------------------------
(* Users and servers *)

\* What an mcp runs while it does so.
BusyAt(m) ==
  /\ pc[m] \in Locked \cup {"lock", "open"} => op[m] \in McpOp
  /\ pc[m] \in {"reuse", "adopt", "attached", "spawn", "env", "pid", "nonce",
                "owner", "user"} => op[m] # "release"

LEMMA BusyNext ==
  ASSUME TypeOK, OpInv, BusyInv, [Next]_vars
  PROVE  BusyInv'
<1> SUFFICES ASSUME NEW q \in Mcp PROVE BusyAt(q)'
  BY DEF BusyInv, BusyAt
<1>1. BusyAt(q)
  BY DEF BusyInv, BusyAt
<1> USE DEF still, xs, files
<1>2. ASSUME NEW c \in Cli, Command(c) PROVE BusyAt(q)'
  BY <1>2, <1>1, XvfbAssumption
     DEF Command, Begin, BusyAt, OpInv, Locked, McpOp, TypeOK, Proc
<1>3. ASSUME NEW p \in Proc, Take(p) PROVE BusyAt(q)'
  BY <1>3, <1>1
     DEF Take, First, BusyAt, OpInv, Locked, McpOp, TypeOK, Proc
<1>4. ASSUME NEW p \in Proc, TakeFails(p) PROVE BusyAt(q)'
  BY <1>4, <1>1
     DEF TakeFails, Go, Done, Fail, Leave, Begin, BusyAt, OpInv, Locked, McpOp,
       TypeOK, Proc
<1>5. ASSUME NEW p \in Proc, FindLive(p) PROVE BusyAt(q)'
  BY <1>5, <1>1
     DEF FindLive, Go, Done, Fail, Leave, Begin, BusyAt, OpInv, Locked, McpOp,
       TypeOK, Proc
<1>6. ASSUME NEW p \in Proc, FindSilent(p) PROVE BusyAt(q)'
  BY <1>6, <1>1
     DEF FindSilent, Go, Done, Fail, Leave, Begin, BusyAt, OpInv, Locked, McpOp,
       TypeOK, Proc
<1>7. ASSUME NEW p \in Proc, FindGone(p) PROVE BusyAt(q)'
  BY <1>7, <1>1
     DEF FindGone, Go, Done, Fail, Leave, Begin, BusyAt, OpInv, Locked, McpOp,
       TypeOK, Proc
<1>8. ASSUME NEW p \in Proc, Attached(p) PROVE BusyAt(q)'
  BY <1>8, <1>1
     DEF Attached, Go, Done, Fail, Leave, Begin, BusyAt, OpInv, Locked, McpOp,
       TypeOK, Proc
<1>9. ASSUME NEW p \in Proc, NotAttached(p) PROVE BusyAt(q)'
  BY <1>9, <1>1
     DEF NotAttached, Go, Done, Fail, Leave, Begin, BusyAt, OpInv, Locked, McpOp,
       TypeOK, Proc
<1>10. ASSUME NEW p \in Proc, ReuseByUp(p) PROVE BusyAt(q)'
  BY <1>10, <1>1
     DEF ReuseByUp, Go, Done, Fail, Leave, Begin, BusyAt, OpInv, Locked, McpOp,
       TypeOK, Proc
<1>11. ASSUME NEW p \in Proc, StopYes(p) PROVE BusyAt(q)'
  BY <1>11, <1>1
     DEF StopYes, Go, Done, Fail, Leave, Begin, BusyAt, OpInv, Locked, McpOp,
       TypeOK, Proc
<1>12. ASSUME NEW p \in Proc, StopNotOurs(p) PROVE BusyAt(q)'
  BY <1>12, <1>1
     DEF StopNotOurs, Go, Done, Fail, Leave, Begin, BusyAt, OpInv, Locked, McpOp,
       TypeOK, Proc
<1>13. ASSUME NEW p \in Proc, StopStillAnswering(p) PROVE BusyAt(q)'
  BY <1>13, <1>1
     DEF StopStillAnswering, Go, Done, Fail, Leave, Begin, BusyAt, OpInv, Locked,
       McpOp, TypeOK, Proc
<1>14. ASSUME NEW p \in Proc, ClearEnv(p) PROVE BusyAt(q)'
  BY <1>14, <1>1
     DEF ClearEnv, Go, Done, Fail, Leave, Begin, BusyAt, OpInv, Locked, McpOp,
       TypeOK, Proc
<1>15. ASSUME NEW p \in Proc, ClearRest(p) PROVE BusyAt(q)'
  BY <1>15, <1>1
     DEF ClearRest, Go, Done, Fail, Leave, Begin, BusyAt, OpInv, Locked, McpOp,
       TypeOK, Proc
<1>16. ASSUME NEW p \in Proc, Spawn(p) PROVE BusyAt(q)'
  BY <1>16, <1>1
     DEF Spawn, Go, Done, Fail, Leave, Begin, BusyAt, OpInv, Locked, McpOp, TypeOK,
       Proc
<1>17. ASSUME NEW p \in Proc, SpawnFails(p) PROVE BusyAt(q)'
  BY <1>17, <1>1
     DEF SpawnFails, Go, Done, Fail, Leave, Begin, BusyAt, OpInv, Locked, McpOp,
       TypeOK, Proc
<1>18. ASSUME NEW p \in Proc, WriteEnv(p) PROVE BusyAt(q)'
  BY <1>18, <1>1
     DEF WriteEnv, Go, Done, Fail, Leave, Begin, BusyAt, OpInv, Locked, McpOp,
       TypeOK, Proc
<1>19. ASSUME NEW p \in Proc, WritePid(p) PROVE BusyAt(q)'
  BY <1>19, <1>1
     DEF WritePid, Go, Done, Fail, Leave, Begin, BusyAt, OpInv, Locked, McpOp,
       TypeOK, Proc
<1>20. ASSUME NEW p \in Proc, WriteNonce(p) PROVE BusyAt(q)'
  BY <1>20, <1>1
     DEF WriteNonce, Go, Done, Fail, Leave, Begin, BusyAt, OpInv, Locked, McpOp,
       TypeOK, Proc
<1>21. ASSUME NEW p \in Proc, WriteOwner(p) PROVE BusyAt(q)'
  BY <1>21, <1>1
     DEF WriteOwner, Go, Done, Fail, Leave, Begin, BusyAt, OpInv, Locked, McpOp,
       TypeOK, Proc
<1>22. ASSUME NEW p \in Proc, Down(p) PROVE BusyAt(q)'
  BY <1>22, <1>1
     DEF Down, Go, Done, Fail, Leave, Begin, BusyAt, OpInv, Locked, McpOp, TypeOK,
       Proc
<1>23. ASSUME NEW m \in Mcp, StartMcp(m) PROVE BusyAt(q)'
  BY <1>23, <1>1
     DEF StartMcp, Go, Done, Fail, Leave, Begin, BusyAt, OpInv, Locked, McpOp,
       TypeOK, Proc
<1>24. ASSUME NEW m \in Mcp, Reup(m) PROVE BusyAt(q)'
  BY <1>24, <1>1
     DEF Reup, Go, Done, Fail, Leave, Begin, BusyAt, OpInv, Locked, McpOp, TypeOK,
       Proc
<1>25. ASSUME NEW m \in Mcp, Quit(m) PROVE BusyAt(q)'
  BY <1>25, <1>1
     DEF Quit, Go, Done, Fail, Leave, Begin, BusyAt, OpInv, Locked, McpOp, TypeOK,
       Proc
<1>26. ASSUME NEW m \in Mcp, ReuseByMcp(m) PROVE BusyAt(q)'
  BY <1>26, <1>1
     DEF ReuseByMcp, Go, Done, Fail, Leave, Begin, BusyAt, OpInv, Locked, McpOp,
       TypeOK, Proc
<1>27. ASSUME NEW m \in Mcp, Adopt(m) PROVE BusyAt(q)'
  BY <1>27, <1>1
     DEF Adopt, Go, Done, Fail, Leave, Begin, BusyAt, OpInv, Locked, McpOp, TypeOK,
       Proc
<1>28. ASSUME NEW m \in Mcp, AddUser(m) PROVE BusyAt(q)'
  BY <1>28, <1>1
     DEF AddUser, Go, Done, Fail, Leave, Begin, BusyAt, OpInv, Locked, McpOp,
       TypeOK, Proc
<1>29. ASSUME NEW m \in Mcp, RemoveUser(m) PROVE BusyAt(q)'
  BY <1>29, <1>1
     DEF RemoveUser, Go, Done, Fail, Leave, Begin, BusyAt, OpInv, Locked, McpOp,
       TypeOK, Proc
<1>30. ASSUME NEW m \in Mcp, NotMine(m) PROVE BusyAt(q)'
  BY <1>30, <1>1
     DEF NotMine, Go, Done, Fail, Leave, Begin, BusyAt, OpInv, Locked, McpOp,
       TypeOK, Proc
<1>31. ASSUME NEW m \in Mcp, Last(m) PROVE BusyAt(q)'
  BY <1>31, <1>1
     DEF Last, Go, Done, Fail, Leave, Begin, BusyAt, OpInv, Locked, McpOp, TypeOK,
       Proc
<1>32. ASSUME NEW m \in Mcp, Open(m) PROVE BusyAt(q)'
  BY <1>32, <1>1
     DEF Open, Go, Done, Fail, Leave, Begin, BusyAt, OpInv, Locked, McpOp, TypeOK,
       Proc
<1>33. ASSUME NEW m \in Mcp, OpenFails(m) PROVE BusyAt(q)'
  BY <1>33, <1>1
     DEF OpenFails, Go, Done, Fail, Leave, Begin, BusyAt, OpInv, Locked, McpOp,
       TypeOK, Proc
<1>34. ASSUME NEW p \in Proc, Kill(p) PROVE BusyAt(q)'
  BY <1>34, <1>1
     DEF Kill, Go, Done, Fail, Leave, Begin, BusyAt, OpInv, Locked, McpOp, TypeOK,
       Proc
<1>35. ASSUME NEW p \in Proc, WriteFails(p) PROVE BusyAt(q)'
  BY <1>35, <1>1
     DEF WriteFails, Writes, Go, Done, Fail, Leave, Begin, BusyAt, OpInv, Locked,
       McpOp, TypeOK, Proc
<1>36. CASE Status
  BY <1>36, <1>1
     DEF Status, BusyAt
<1>37. CASE \E s \in X : ServerEnds(s)
  BY <1>37, <1>1
     DEF ServerEnds, BusyAt
<1>38. CASE \E f \in Foreign, d \in Display : ForeignStarts(f, d)
  BY <1>38, <1>1
     DEF ForeignStarts, BusyAt
<1>39. CASE \E s \in Server : MoodChanges(s)
  BY <1>39, <1>1
     DEF MoodChanges, BusyAt
<1>40. CASE UNCHANGED vars
  BY <1>40, <1>1
     DEF vars, BusyAt
<1> QED
  BY <1>2, <1>3, <1>4, <1>5, <1>6, <1>7, <1>8, <1>9, <1>10, <1>11, <1>12, <1>13,
    <1>14, <1>15, <1>16, <1>17, <1>18, <1>19, <1>20, <1>21, <1>22, <1>23, <1>24,
    <1>25, <1>26, <1>27, <1>28, <1>29, <1>30, <1>31, <1>32, <1>33, <1>34, <1>35,
    <1>36, <1>37, <1>38, <1>39, <1>40
     DEF Next, UpStep, McpStep, Environment, vars

\* Where a user is that was not killed.
UserAt(m) ==
  /\ pc[m] \notin {"off", "gone"}
  /\ op[m] = "start" => pc[m] \in {"adopt", "open"}
  /\ op[m] = "release" => pc[m] \in {"lock", "leave"}

LEMMA UserNext ==
  ASSUME TypeOK, OpInv, BusyInv, UserInv, [Next]_vars
  PROVE  UserInv'
<1> SUFFICES ASSUME ~excused', NEW q \in users' PROVE UserAt(q)'
  BY DEF UserInv, UserAt
<1>1. ~excused => (q \in users => UserAt(q)) /\ \A m \in users : m \in Mcp
  BY DEF UserInv, UserAt, TypeOK
<1> USE DEF still, xs, files
<1>2. ASSUME NEW c \in Cli, Command(c) PROVE UserAt(q)'
  BY <1>2, <1>1, XvfbAssumption
     DEF Command, Begin, CliOp, UserAt, TypeOK, Proc, OpInv, BusyInv, Locked, McpOp
<1>3. ASSUME NEW p \in Proc, Take(p) PROVE UserAt(q)'
  BY <1>3, <1>1
     DEF Take, First, UserAt, TypeOK, Proc, OpInv, BusyInv, Locked, McpOp
<1>4. ASSUME NEW p \in Proc, TakeFails(p) PROVE UserAt(q)'
  BY <1>4, <1>1
     DEF TakeFails, Fail, Leave, UserAt, TypeOK, Proc, OpInv, BusyInv, Locked, McpOp
<1>5. ASSUME NEW p \in Proc, FindLive(p) PROVE UserAt(q)'
  BY <1>5, <1>1
     DEF FindLive, Go, Fail, Leave, UserAt, TypeOK, Proc, OpInv, BusyInv, Locked,
       McpOp
<1>6. ASSUME NEW p \in Proc, FindSilent(p) PROVE UserAt(q)'
  BY <1>6, <1>1
     DEF FindSilent, Go, Fail, Leave, UserAt, TypeOK, Proc, OpInv, BusyInv, Locked,
       McpOp
<1>7. ASSUME NEW p \in Proc, FindGone(p) PROVE UserAt(q)'
  BY <1>7, <1>1
     DEF FindGone, Go, Fail, Leave, UserAt, TypeOK, Proc, OpInv, BusyInv, Locked,
       McpOp
<1>8. ASSUME NEW p \in Proc, Attached(p) PROVE UserAt(q)'
  BY <1>8, <1>1
     DEF Attached, Done, Fail, Leave, UserAt, TypeOK, Proc, OpInv, BusyInv, Locked,
       McpOp
<1>9. ASSUME NEW p \in Proc, NotAttached(p) PROVE UserAt(q)'
  BY <1>9, <1>1
     DEF NotAttached, Go, Done, Fail, Leave, Begin, Leaks, LiveUsers, UserAt,
       TypeOK, Proc, OpInv, BusyInv, Locked, McpOp
<1>10. ASSUME NEW p \in Proc, ReuseByUp(p) PROVE UserAt(q)'
  BY <1>10, <1>1
     DEF ReuseByUp, Go, Done, Fail, Leave, Begin, Leaks, LiveUsers, UserAt, TypeOK,
       Proc, OpInv, BusyInv, Locked, McpOp
<1>11. ASSUME NEW p \in Proc, StopYes(p) PROVE UserAt(q)'
  BY <1>11, <1>1
     DEF StopYes, Go, Done, Fail, Leave, Begin, Leaks, LiveUsers, UserAt, TypeOK,
       Proc, OpInv, BusyInv, Locked, McpOp
<1>12. ASSUME NEW p \in Proc, StopNotOurs(p) PROVE UserAt(q)'
  BY <1>12, <1>1
     DEF StopNotOurs, Go, Done, Fail, Leave, Begin, Leaks, LiveUsers, UserAt,
       TypeOK, Proc, OpInv, BusyInv, Locked, McpOp
<1>13. ASSUME NEW p \in Proc, StopStillAnswering(p) PROVE UserAt(q)'
  BY <1>13, <1>1
     DEF StopStillAnswering, Go, Done, Fail, Leave, Begin, Leaks, LiveUsers, UserAt,
       TypeOK, Proc, OpInv, BusyInv, Locked, McpOp
<1>14. ASSUME NEW p \in Proc, ClearEnv(p) PROVE UserAt(q)'
  BY <1>14, <1>1
     DEF ClearEnv, Go, Done, Fail, Leave, Begin, Leaks, LiveUsers, UserAt, TypeOK,
       Proc, OpInv, BusyInv, Locked, McpOp
<1>15. ASSUME NEW p \in Proc, ClearRest(p) PROVE UserAt(q)'
  BY <1>15, <1>1
     DEF ClearRest, Go, Done, Fail, Leave, Begin, Leaks, LiveUsers, UserAt, TypeOK,
       Proc, OpInv, BusyInv, Locked, McpOp
<1>16. ASSUME NEW p \in Proc, Spawn(p) PROVE UserAt(q)'
  BY <1>16, <1>1
     DEF Spawn, Go, Done, Fail, Leave, Begin, Leaks, LiveUsers, UserAt, TypeOK,
       Proc, OpInv, BusyInv, Locked, McpOp
<1>17. ASSUME NEW p \in Proc, SpawnFails(p) PROVE UserAt(q)'
  BY <1>17, <1>1
     DEF SpawnFails, Go, Done, Fail, Leave, Begin, Leaks, LiveUsers, UserAt, TypeOK,
       Proc, OpInv, BusyInv, Locked, McpOp
<1>18. ASSUME NEW p \in Proc, WriteEnv(p) PROVE UserAt(q)'
  BY <1>18, <1>1
     DEF WriteEnv, Go, Done, Fail, Leave, Begin, Leaks, LiveUsers, UserAt, TypeOK,
       Proc, OpInv, BusyInv, Locked, McpOp
<1>19. ASSUME NEW p \in Proc, WritePid(p) PROVE UserAt(q)'
  BY <1>19, <1>1
     DEF WritePid, Go, Done, Fail, Leave, Begin, Leaks, LiveUsers, UserAt, TypeOK,
       Proc, OpInv, BusyInv, Locked, McpOp
<1>20. ASSUME NEW p \in Proc, WriteNonce(p) PROVE UserAt(q)'
  BY <1>20, <1>1
     DEF WriteNonce, Go, Done, Fail, Leave, Begin, Leaks, LiveUsers, UserAt, TypeOK,
       Proc, OpInv, BusyInv, Locked, McpOp
<1>21. ASSUME NEW p \in Proc, WriteOwner(p) PROVE UserAt(q)'
  BY <1>21, <1>1
     DEF WriteOwner, Go, Done, Fail, Leave, Begin, Leaks, LiveUsers, UserAt, TypeOK,
       Proc, OpInv, BusyInv, Locked, McpOp
<1>22. ASSUME NEW p \in Proc, Down(p) PROVE UserAt(q)'
  BY <1>22, <1>1
     DEF Down, Go, Done, Fail, Leave, Begin, Leaks, LiveUsers, UserAt, TypeOK, Proc,
       OpInv, BusyInv, Locked, McpOp
<1>23. ASSUME NEW m \in Mcp, StartMcp(m) PROVE UserAt(q)'
  BY <1>23, <1>1
     DEF StartMcp, Go, Done, Fail, Leave, Begin, Leaks, LiveUsers, UserAt, TypeOK,
       Proc, OpInv, BusyInv, Locked, McpOp
<1>24. ASSUME NEW m \in Mcp, Reup(m) PROVE UserAt(q)'
  BY <1>24, <1>1
     DEF Reup, Go, Done, Fail, Leave, Begin, Leaks, LiveUsers, UserAt, TypeOK, Proc,
       OpInv, BusyInv, Locked, McpOp
<1>25. ASSUME NEW m \in Mcp, Quit(m) PROVE UserAt(q)'
  BY <1>25, <1>1
     DEF Quit, Go, Done, Fail, Leave, Begin, Leaks, LiveUsers, UserAt, TypeOK, Proc,
       OpInv, BusyInv, Locked, McpOp
<1>26. ASSUME NEW m \in Mcp, ReuseByMcp(m) PROVE UserAt(q)'
  BY <1>26, <1>1
     DEF ReuseByMcp, Go, Done, Fail, Leave, Begin, Leaks, LiveUsers, UserAt, TypeOK,
       Proc, OpInv, BusyInv, Locked, McpOp
<1>27. ASSUME NEW m \in Mcp, Adopt(m) PROVE UserAt(q)'
  BY <1>27, <1>1
     DEF Adopt, Go, Done, Fail, Leave, Begin, Leaks, LiveUsers, UserAt, TypeOK,
       Proc, OpInv, BusyInv, Locked, McpOp
<1>28. ASSUME NEW m \in Mcp, AddUser(m) PROVE UserAt(q)'
  BY <1>28, <1>1
     DEF AddUser, Go, Done, Fail, Leave, Begin, Leaks, LiveUsers, UserAt, TypeOK,
       Proc, OpInv, BusyInv, Locked, McpOp
<1>29. ASSUME NEW m \in Mcp, RemoveUser(m) PROVE UserAt(q)'
  BY <1>29, <1>1
     DEF RemoveUser, Go, Done, Fail, Leave, Begin, Leaks, LiveUsers, UserAt, TypeOK,
       Proc, OpInv, BusyInv, Locked, McpOp
<1>30. ASSUME NEW m \in Mcp, NotMine(m) PROVE UserAt(q)'
  BY <1>30, <1>1
     DEF NotMine, Go, Done, Fail, Leave, Begin, Leaks, LiveUsers, UserAt, TypeOK,
       Proc, OpInv, BusyInv, Locked, McpOp
<1>31. ASSUME NEW m \in Mcp, Last(m) PROVE UserAt(q)'
  BY <1>31, <1>1
     DEF Last, Go, Done, Fail, Leave, Begin, Leaks, LiveUsers, UserAt, TypeOK, Proc,
       OpInv, BusyInv, Locked, McpOp
<1>32. ASSUME NEW m \in Mcp, Open(m) PROVE UserAt(q)'
  BY <1>32, <1>1
     DEF Open, Go, Done, Fail, Leave, Begin, Leaks, LiveUsers, UserAt, TypeOK, Proc,
       OpInv, BusyInv, Locked, McpOp
<1>33. ASSUME NEW m \in Mcp, OpenFails(m) PROVE UserAt(q)'
  BY <1>33, <1>1
     DEF OpenFails, Go, Done, Fail, Leave, Begin, Leaks, LiveUsers, UserAt, TypeOK,
       Proc, OpInv, BusyInv, Locked, McpOp
<1>34. ASSUME NEW p \in Proc, Kill(p) PROVE UserAt(q)'
  BY <1>34, <1>1
     DEF Kill, Go, Done, Fail, Leave, Begin, Leaks, LiveUsers, UserAt, TypeOK, Proc,
       OpInv, BusyInv, Locked, McpOp
<1>35. ASSUME NEW p \in Proc, WriteFails(p) PROVE UserAt(q)'
  BY <1>35, <1>1
     DEF WriteFails, Go, Done, Fail, Leave, Begin, Leaks, LiveUsers, UserAt, TypeOK,
       Proc, OpInv, BusyInv, Locked, McpOp
<1>36. CASE Status
  BY <1>36, <1>1
     DEF Status, LiveUsers, UserAt
<1>37. CASE \E s \in X : ServerEnds(s)
  BY <1>37, <1>1
     DEF ServerEnds, UserAt
<1>38. CASE \E f \in Foreign, d \in Display : ForeignStarts(f, d)
  BY <1>38, <1>1
     DEF ForeignStarts, UserAt
<1>39. CASE \E s \in Server : MoodChanges(s)
  BY <1>39, <1>1
     DEF MoodChanges, UserAt
<1>40. CASE UNCHANGED vars
  BY <1>40, <1>1
     DEF vars, UserAt
<1> QED
  BY <1>2, <1>3, <1>4, <1>5, <1>6, <1>7, <1>8, <1>9, <1>10, <1>11, <1>12, <1>13,
    <1>14, <1>15, <1>16, <1>17, <1>18, <1>19, <1>20, <1>21, <1>22, <1>23, <1>24,
    <1>25, <1>26, <1>27, <1>28, <1>29, <1>30, <1>31, <1>32, <1>33, <1>34, <1>35,
    <1>36, <1>37, <1>38, <1>39, <1>40
     DEF Next, UpStep, McpStep, Environment, vars

\* What a process that has started an Xvfb is at.
ChildAt(p) ==
  /\ pc[p] = "spawn" => op[p] # "attach"
  /\ child[p] # None =>
       pc[p] \in {"env", "pid", "nonce", "owner", "user"} /\ op[p] # "attach"

LEMMA ChildNext ==
  ASSUME TypeOK, ChildInv, [Next]_vars
  PROVE  ChildInv'
<1> SUFFICES ASSUME NEW q \in Proc PROVE ChildAt(q)'
  BY DEF ChildInv, ChildAt
<1>1. ChildAt(q)
  BY DEF ChildInv, ChildAt
<1> USE DEF still, xs, files
<1>2. ASSUME NEW c \in Cli, Command(c) PROVE ChildAt(q)'
  BY <1>2, <1>1
     DEF Command, Go, Done, Fail, Leave, Begin, ChildAt, TypeOK, Proc
<1>3. ASSUME NEW p \in Proc, Take(p) PROVE ChildAt(q)'
  BY <1>3, <1>1
     DEF Take, First, ChildAt, TypeOK, Proc
<1>4. ASSUME NEW p \in Proc, TakeFails(p) PROVE ChildAt(q)'
  BY <1>4, <1>1
     DEF TakeFails, Go, Done, Fail, Leave, Begin, ChildAt, TypeOK, Proc
<1>5. ASSUME NEW p \in Proc, FindLive(p) PROVE ChildAt(q)'
  BY <1>5, <1>1
     DEF FindLive, Go, Done, Fail, Leave, Begin, ChildAt, TypeOK, Proc
<1>6. ASSUME NEW p \in Proc, FindSilent(p) PROVE ChildAt(q)'
  BY <1>6, <1>1
     DEF FindSilent, Go, Done, Fail, Leave, Begin, ChildAt, TypeOK, Proc
<1>7. ASSUME NEW p \in Proc, FindGone(p) PROVE ChildAt(q)'
  BY <1>7, <1>1
     DEF FindGone, Go, Done, Fail, Leave, Begin, ChildAt, TypeOK, Proc
<1>8. ASSUME NEW p \in Proc, Attached(p) PROVE ChildAt(q)'
  BY <1>8, <1>1
     DEF Attached, Go, Done, Fail, Leave, Begin, ChildAt, TypeOK, Proc
<1>9. ASSUME NEW p \in Proc, NotAttached(p) PROVE ChildAt(q)'
  BY <1>9, <1>1
     DEF NotAttached, Go, Done, Fail, Leave, Begin, ChildAt, TypeOK, Proc
<1>10. ASSUME NEW p \in Proc, ReuseByUp(p) PROVE ChildAt(q)'
  BY <1>10, <1>1
     DEF ReuseByUp, Go, Done, Fail, Leave, Begin, ChildAt, TypeOK, Proc
<1>11. ASSUME NEW p \in Proc, StopYes(p) PROVE ChildAt(q)'
  BY <1>11, <1>1
     DEF StopYes, Go, Done, Fail, Leave, Begin, ChildAt, TypeOK, Proc
<1>12. ASSUME NEW p \in Proc, StopNotOurs(p) PROVE ChildAt(q)'
  BY <1>12, <1>1
     DEF StopNotOurs, Go, Done, Fail, Leave, Begin, ChildAt, TypeOK, Proc
<1>13. ASSUME NEW p \in Proc, StopStillAnswering(p) PROVE ChildAt(q)'
  BY <1>13, <1>1
     DEF StopStillAnswering, Go, Done, Fail, Leave, Begin, ChildAt, TypeOK, Proc
<1>14. ASSUME NEW p \in Proc, ClearEnv(p) PROVE ChildAt(q)'
  BY <1>14, <1>1
     DEF ClearEnv, Go, Done, Fail, Leave, Begin, ChildAt, TypeOK, Proc
<1>15. ASSUME NEW p \in Proc, ClearRest(p) PROVE ChildAt(q)'
  BY <1>15, <1>1
     DEF ClearRest, Go, Done, Fail, Leave, Begin, ChildAt, TypeOK, Proc
<1>16. ASSUME NEW p \in Proc, Spawn(p) PROVE ChildAt(q)'
  BY <1>16, <1>1
     DEF Spawn, ChildAt, TypeOK, Proc
<1>17. ASSUME NEW p \in Proc, SpawnFails(p) PROVE ChildAt(q)'
  BY <1>17, <1>1
     DEF SpawnFails, Go, Done, Fail, Leave, Begin, ChildAt, TypeOK, Proc
<1>18. ASSUME NEW p \in Proc, WriteEnv(p) PROVE ChildAt(q)'
  BY <1>18, <1>1
     DEF WriteEnv, Go, Done, Fail, Leave, Begin, ChildAt, TypeOK, Proc
<1>19. ASSUME NEW p \in Proc, WritePid(p) PROVE ChildAt(q)'
  BY <1>19, <1>1
     DEF WritePid, Go, Done, Fail, Leave, Begin, ChildAt, TypeOK, Proc
<1>20. ASSUME NEW p \in Proc, WriteNonce(p) PROVE ChildAt(q)'
  BY <1>20, <1>1
     DEF WriteNonce, Go, Done, Fail, Leave, Begin, ChildAt, TypeOK, Proc
<1>21. ASSUME NEW p \in Proc, WriteOwner(p) PROVE ChildAt(q)'
  BY <1>21, <1>1
     DEF WriteOwner, Go, Done, Fail, Leave, Begin, ChildAt, TypeOK, Proc
<1>22. ASSUME NEW p \in Proc, Down(p) PROVE ChildAt(q)'
  BY <1>22, <1>1
     DEF Down, Go, Done, Fail, Leave, Begin, ChildAt, TypeOK, Proc
<1>23. ASSUME NEW m \in Mcp, StartMcp(m) PROVE ChildAt(q)'
  BY <1>23, <1>1
     DEF StartMcp, Go, Done, Fail, Leave, Begin, ChildAt, TypeOK, Proc
<1>24. ASSUME NEW m \in Mcp, Reup(m) PROVE ChildAt(q)'
  BY <1>24, <1>1
     DEF Reup, Go, Done, Fail, Leave, Begin, ChildAt, TypeOK, Proc
<1>25. ASSUME NEW m \in Mcp, Quit(m) PROVE ChildAt(q)'
  BY <1>25, <1>1
     DEF Quit, Go, Done, Fail, Leave, Begin, ChildAt, TypeOK, Proc
<1>26. ASSUME NEW m \in Mcp, ReuseByMcp(m) PROVE ChildAt(q)'
  BY <1>26, <1>1
     DEF ReuseByMcp, Go, Done, Fail, Leave, Begin, ChildAt, TypeOK, Proc
<1>27. ASSUME NEW m \in Mcp, Adopt(m) PROVE ChildAt(q)'
  BY <1>27, <1>1
     DEF Adopt, Go, Done, Fail, Leave, Begin, ChildAt, TypeOK, Proc
<1>28. ASSUME NEW m \in Mcp, AddUser(m) PROVE ChildAt(q)'
  BY <1>28, <1>1
     DEF AddUser, Go, Done, Fail, Leave, Begin, ChildAt, TypeOK, Proc
<1>29. ASSUME NEW m \in Mcp, RemoveUser(m) PROVE ChildAt(q)'
  BY <1>29, <1>1
     DEF RemoveUser, Go, Done, Fail, Leave, Begin, ChildAt, TypeOK, Proc
<1>30. ASSUME NEW m \in Mcp, NotMine(m) PROVE ChildAt(q)'
  BY <1>30, <1>1
     DEF NotMine, Go, Done, Fail, Leave, Begin, ChildAt, TypeOK, Proc
<1>31. ASSUME NEW m \in Mcp, Last(m) PROVE ChildAt(q)'
  BY <1>31, <1>1
     DEF Last, Go, Done, Fail, Leave, Begin, ChildAt, TypeOK, Proc
<1>32. ASSUME NEW m \in Mcp, Open(m) PROVE ChildAt(q)'
  BY <1>32, <1>1
     DEF Open, Go, Done, Fail, Leave, Begin, ChildAt, TypeOK, Proc
<1>33. ASSUME NEW m \in Mcp, OpenFails(m) PROVE ChildAt(q)'
  BY <1>33, <1>1
     DEF OpenFails, Go, Done, Fail, Leave, Begin, ChildAt, TypeOK, Proc
<1>34. ASSUME NEW p \in Proc, Kill(p) PROVE ChildAt(q)'
  BY <1>34, <1>1
     DEF Kill, Go, Done, Fail, Leave, Begin, ChildAt, TypeOK, Proc
<1>35. ASSUME NEW p \in Proc, WriteFails(p) PROVE ChildAt(q)'
  BY <1>35, <1>1
     DEF WriteFails, Writes, Fail, Leave, ChildAt, TypeOK, Proc
<1>36. CASE Status
  BY <1>36, <1>1
     DEF Status, ChildAt
<1>37. CASE \E s \in X : ServerEnds(s)
  BY <1>37, <1>1
     DEF ServerEnds, ChildAt
<1>38. CASE \E f \in Foreign, d \in Display : ForeignStarts(f, d)
  BY <1>38, <1>1
     DEF ForeignStarts, ChildAt
<1>39. CASE \E s \in Server : MoodChanges(s)
  BY <1>39, <1>1
     DEF MoodChanges, ChildAt
<1>40. CASE UNCHANGED vars
  BY <1>40, <1>1
     DEF vars, ChildAt
<1> QED
  BY <1>2, <1>3, <1>4, <1>5, <1>6, <1>7, <1>8, <1>9, <1>10, <1>11, <1>12, <1>13,
    <1>14, <1>15, <1>16, <1>17, <1>18, <1>19, <1>20, <1>21, <1>22, <1>23, <1>24,
    <1>25, <1>26, <1>27, <1>28, <1>29, <1>30, <1>31, <1>32, <1>33, <1>34, <1>35,
    <1>36, <1>37, <1>38, <1>39, <1>40
     DEF Next, UpStep, McpStep, Environment, vars

LEMMA ServerNext ==
  ASSUME TypeOK, ServerInv, [Next]_vars
  PROVE  ServerInv'
<1>1. haveProc' = haveProc
  BY DEF Next, vars
<1> USE DEF still, xs, files
<1>2. ASSUME UNCHANGED <<on, mood, spare, leaked, excused>> PROVE ServerInv'
  BY <1>2, <1>1
     DEF ServerInv, Alive
<1>3. ASSUME NEW p \in Proc, TakeFails(p) PROVE ServerInv'
  BY <1>3, <1>1
     DEF TakeFails, ServerInv, Alive, TypeOK
<1>4. ASSUME NEW p \in Proc, StopYes(p) PROVE ServerInv'
  BY <1>4, <1>1, XvfbAssumption
     DEF StopYes, Ends, X, ServerInv, Alive, TypeOK
<1>5. ASSUME NEW p \in Proc, Spawn(p) PROVE ServerInv'
  BY <1>5, <1>1
     DEF Spawn, X, ServerInv, Alive, TypeOK
<1>6. ASSUME NEW p \in Proc, Kill(p) PROVE ServerInv'
  BY <1>6, <1>1
     DEF Kill, ServerInv, Alive, TypeOK
<1>7. ASSUME NEW p \in Proc, WriteFails(p) PROVE ServerInv'
  BY <1>7, <1>1
     DEF WriteFails, ServerInv, Alive, TypeOK
<1>8. ASSUME NEW p \in Proc, \/ Take(p) \/ FindLive(p) \/ FindSilent(p)
      \/ FindGone(p) \/ Attached(p) \/ NotAttached(p) \/ ReuseByUp(p)
      \/ StopNotOurs(p) \/ StopStillAnswering(p) \/ ClearEnv(p) \/ ClearRest(p)
      \/ SpawnFails(p) \/ WriteEnv(p) \/ WritePid(p) \/ WriteNonce(p)
      \/ WriteOwner(p) \/ Down(p)
      PROVE  ServerInv'
  BY <1>8, <1>2
     DEF Take, FindLive, FindSilent, FindGone, Attached, NotAttached, ReuseByUp,
       StopNotOurs, StopStillAnswering, ClearEnv, ClearRest, SpawnFails, WriteEnv,
       WritePid, WriteNonce, WriteOwner, Down
<1>9. ASSUME NEW m \in Mcp, \/ StartMcp(m) \/ Reup(m) \/ Quit(m)
      \/ ReuseByMcp(m) \/ Adopt(m) \/ AddUser(m) \/ RemoveUser(m) \/ NotMine(m)
      \/ Last(m) \/ Open(m) \/ OpenFails(m)
      PROVE  ServerInv'
  BY <1>9, <1>2
     DEF StartMcp, Reup, Quit, ReuseByMcp, Adopt, AddUser, RemoveUser, NotMine,
       Last, Open, OpenFails, Begin
<1>10. ASSUME NEW c \in Cli, Command(c)
      PROVE  ServerInv'
  BY <1>10, <1>2
     DEF Command, Begin
<1>11. CASE \E s \in X : ServerEnds(s)
  BY <1>11, <1>1, XvfbAssumption
     DEF ServerEnds, Ends, X, ServerInv, Alive, TypeOK
<1>12. CASE \E f \in Foreign, d \in Display : ForeignStarts(f, d)
  BY <1>12, <1>1, XvfbAssumption
     DEF ForeignStarts, X, ServerInv, Alive, TypeOK
<1>13. CASE \E s \in Server : MoodChanges(s)
  BY <1>13, <1>1
     DEF MoodChanges, ServerInv, Alive, TypeOK
<1>14. CASE Status
  BY <1>14, <1>2
     DEF Status
<1> QED
  BY <1>2, <1>3, <1>4, <1>5, <1>6, <1>7, <1>8, <1>9, <1>10, <1>11, <1>12, <1>13,
    <1>14
     DEF Next, UpStep, McpStep, Environment, vars

-----------------------------------------------------------------------------
(* One Xvfb, and its notes, with /proc *)

\* What the notes say of an Xvfb that is known to run ...
PidFits == pid \in Known => env # None /\ on[env] = pid /\ nonce \in {None, pid}

\* ... what a process at work on them has seen or written ...
WorkFits(p) ==
  /\ pc[p] \in {"attached", "clear", "clearRest", "spawn"} => Known = {}
  /\ pc[p] \in {"spawn", "env", "pid"} => pid = None /\ nonce = None
  /\ pc[p] \in {"env", "pid"} /\ child[p] \in Known => dsp[p] # None /\ on[dsp[p]] = child[p]
  /\ pc[p] = "pid" => env = dsp[p]
  /\ pc[p] = "nonce" => pid = child[p] /\ nonce = None

\* ... and who knows of it.
Noticed(s) ==
  pid = s \/ \E p \in Proc : lock = p /\ child[p] = s /\ pc[p] \in {"env", "pid"}

\* Beside the two steps of a new Xvfb a process that holds the lock finds none
\* but the one in the pidfile.
LEMMA HolderKnows ==
  ASSUME HolderInv, NEW p \in Proc, pc[p] \in Locked \ {"env", "pid"},
         \A s \in Known : Noticed(s)
  PROVE  Known \subseteq {pid}
BY DEF HolderInv, Noticed

\* With /proc and below the client limit an Xvfb that runs is not taken for gone.
LEMMA GoneIsGone ==
  ASSUME TypeOK, ServerInv, haveProc, "full" \notin Moods[TRUE], PidFits, MayBeGone,
         Known \subseteq {pid}
  PROVE  Known = {}
<1> SUFFICES ASSUME pid \in Known PROVE FALSE
  OBVIOUS
<1>1. /\ pid \in Server /\ Alive(pid)
      /\ env \in Display /\ on[env] = pid /\ nonce \in {None, pid}
  BY DEF PidFits, Known, TypeOK
<1>2. pid # None /\ None \notin Display /\ haveProc = TRUE
  BY <1>1, XvfbAssumption DEF X, TypeOK
<1>3. mood[pid] # "full"
  BY <1>1, <1>2 DEF ServerInv
<1>4. Noted
  BY <1>1, <1>2 DEF Noted, IsXvfb
<1> QED
  BY <1>1, <1>3, <1>4 DEF MayBeGone

\* No step but a start brings forth an Xvfb, and none moves one.
Stays(s) == s \in Known' => s \in Known /\ \A d \in Display : on[d] = s => on'[d] = s

LEMMA NoneMoves ==
  ASSUME TypeOK, [Next]_vars, NEW q \in Server
  PROVE  Stays(q) \/ \E p \in Proc : Spawn(p)
<1> DEFINE Stay == Stays(q) \/ \E p \in Proc : Spawn(p)
<1> USE DEF Stays, Known
<1> USE DEF still, xs, files
<1>1. ASSUME UNCHANGED <<on, leaked>> PROVE Stay
  BY <1>1
     DEF Alive
<1>2. ASSUME NEW p \in Proc, StopYes(p) PROVE Stay
  BY <1>2, XvfbAssumption
     DEF StopYes, Ends, X, Alive, TypeOK
<1>3. ASSUME NEW p \in Proc, Spawn(p) PROVE Stay
  BY <1>3
     DEF Spawn
<1>4. ASSUME NEW p \in Proc, Kill(p) PROVE Stay
  BY <1>4
     DEF Kill, Leaks, Alive
<1>5. ASSUME NEW p \in Proc, WriteFails(p) PROVE Stay
  BY <1>5
     DEF WriteFails, Leaks, Alive
<1>6. ASSUME NEW p \in Proc, \/ Take(p) \/ TakeFails(p) \/ FindLive(p)
      \/ FindSilent(p) \/ FindGone(p) \/ Attached(p) \/ NotAttached(p)
      \/ ReuseByUp(p) \/ StopNotOurs(p) \/ StopStillAnswering(p) \/ ClearEnv(p)
      \/ ClearRest(p) \/ SpawnFails(p) \/ WriteEnv(p) \/ WritePid(p)
      \/ WriteNonce(p) \/ WriteOwner(p) \/ Down(p)
      PROVE  Stay
  BY <1>6, <1>1
     DEF Take, TakeFails, FindLive, FindSilent, FindGone, Attached, NotAttached,
       ReuseByUp, StopNotOurs, StopStillAnswering, ClearEnv, ClearRest, SpawnFails,
       WriteEnv, WritePid, WriteNonce, WriteOwner, Down
<1>7. ASSUME NEW m \in Mcp, \/ StartMcp(m) \/ Reup(m) \/ Quit(m)
      \/ ReuseByMcp(m) \/ Adopt(m) \/ AddUser(m) \/ RemoveUser(m) \/ NotMine(m)
      \/ Last(m) \/ Open(m) \/ OpenFails(m)
      PROVE  Stay
  BY <1>7, <1>1
     DEF StartMcp, Reup, Quit, ReuseByMcp, Adopt, AddUser, RemoveUser, NotMine,
       Last, Open, OpenFails, Begin
<1>8. ASSUME NEW c \in Cli, Command(c)
      PROVE  Stay
  BY <1>8, <1>1
     DEF Command, Begin
<1>9. CASE \E s \in X : ServerEnds(s)
  BY <1>9, XvfbAssumption
     DEF ServerEnds, Ends, X, Alive, TypeOK
<1>10. CASE \E f \in Foreign, d \in Display : ForeignStarts(f, d)
  BY <1>10, XvfbAssumption
     DEF ForeignStarts, X, Alive, TypeOK
<1>11. CASE Status
           \/ (\E s \in Server : MoodChanges(s))
  BY <1>11, <1>1
     DEF Status, MoodChanges
<1> QED
  BY <1>1, <1>2, <1>3, <1>4, <1>5, <1>6, <1>7, <1>8, <1>9, <1>10, <1>11
     DEF Next, UpStep, McpStep, Environment, vars

LEMMA PidNext ==
  ASSUME TypeOK, HolderInv, ServerInv, [Next]_vars, PidFits,
         \A p \in Proc : WorkFits(p),
         \A s \in Known : Noticed(s)
  PROVE  PidFits'
<1> SUFFICES ASSUME pid' \in Known'
             PROVE  env' # None /\ on'[env'] = pid' /\ nonce' \in {None, pid'}
  BY DEF PidFits
<1> DEFINE Fits == env' # None /\ on'[env'] = pid' /\ nonce' \in {None, pid'}
<1>1. pid' \in Server /\ (Stays(pid') \/ \E p \in Proc : Spawn(p))
  BY NoneMoves DEF Known
<1>2. None \notin Server /\ None \notin Display
  BY XvfbAssumption DEF X
<1>3. CASE \E p \in Proc : Spawn(p)
  BY <1>1, <1>2, <1>3 DEF Spawn, WorkFits, files
<1>4. CASE Stays(pid')
  <2>1. pid' \in Known /\ \A d \in Display : on[d] = pid' => on'[d] = pid'
    BY <1>4 DEF Stays
  <2>2. ASSUME pid' = pid PROVE env \in Display /\ on'[env] = pid /\ nonce \in {None, pid}
    BY <2>1, <2>2 DEF PidFits, TypeOK
  <2> USE DEF still, xs, files
  <2>3. ASSUME UNCHANGED <<env, pid, nonce>> PROVE Fits
    BY <2>3, <2>2, <1>2
  <2>4. ASSUME NEW p \in Proc, ClearEnv(p) PROVE Fits
    BY <2>4, <2>1, <2>2, <1>2
       DEF ClearEnv, WorkFits, TypeOK
  <2>5. ASSUME NEW p \in Proc, ClearRest(p) PROVE Fits
    BY <2>5, <1>1, <1>2
       DEF ClearRest
  <2>6. ASSUME NEW p \in Proc, WriteEnv(p) PROVE Fits
    BY <2>6, <2>1, <2>2, <1>1, <1>2
       DEF WriteEnv, WorkFits
  <2>7. ASSUME NEW p \in Proc, WritePid(p) PROVE Fits
    BY <2>7, <2>1, <2>2, <1>2
       DEF WritePid, WorkFits, TypeOK
  <2>8. ASSUME NEW p \in Proc, WriteNonce(p) PROVE Fits
    BY <2>8, <2>1, <2>2, <1>2
       DEF WriteNonce, WorkFits, TypeOK
  <2>9. ASSUME NEW p \in Proc, \/ Take(p) \/ TakeFails(p) \/ FindLive(p)
        \/ FindSilent(p) \/ FindGone(p) \/ Attached(p) \/ NotAttached(p)
        \/ ReuseByUp(p) \/ StopYes(p) \/ StopNotOurs(p) \/ StopStillAnswering(p)
        \/ Spawn(p) \/ SpawnFails(p) \/ WriteOwner(p) \/ Down(p) \/ Kill(p)
        \/ WriteFails(p)
        PROVE  Fits
    BY <2>9, <2>3
       DEF Take, TakeFails, FindLive, FindSilent, FindGone, Attached, NotAttached,
         ReuseByUp, StopYes, StopNotOurs, StopStillAnswering, Spawn, SpawnFails,
         WriteOwner, Down, Kill, WriteFails
  <2>10. ASSUME NEW m \in Mcp, \/ StartMcp(m) \/ Reup(m) \/ Quit(m)
        \/ ReuseByMcp(m) \/ Adopt(m) \/ AddUser(m) \/ RemoveUser(m) \/ NotMine(m)
        \/ Last(m) \/ Open(m) \/ OpenFails(m)
        PROVE  Fits
    BY <2>10, <2>3
       DEF StartMcp, Reup, Quit, ReuseByMcp, Adopt, AddUser, RemoveUser, NotMine,
         Last, Open, OpenFails, Begin
  <2>11. ASSUME NEW c \in Cli, Command(c)
        PROVE  Fits
    BY <2>11, <2>3
       DEF Command, Begin
  <2>12. CASE Status
             \/ (\E s \in X : ServerEnds(s))
             \/ (\E f \in Foreign, d \in Display : ForeignStarts(f, d))
             \/ (\E s \in Server : MoodChanges(s))
    BY <2>12, <2>3
       DEF Status, ServerEnds, ForeignStarts, MoodChanges
  <2> QED
    BY <2>3, <2>4, <2>5, <2>6, <2>7, <2>8, <2>9, <2>10, <2>11, <2>12
       DEF Next, UpStep, McpStep, Environment, vars
<1> QED
  BY <1>1, <1>3, <1>4

LEMMA WorkNext ==
  ASSUME TypeOK, HolderInv, ChildInv, ServerInv, [Next]_vars, PidFits,
         haveProc, "full" \notin Moods[TRUE],
         \A p \in Proc : WorkFits(p),
         \A s \in Known : Noticed(s),
         NEW q \in Proc
  PROVE  WorkFits(q)'
<1>1. WorkFits(q) /\ (pc[q] \in Noting => lock = q)
  BY DEF HolderInv, Noting, Locked
<1>2. ASSUME pc'[q] \notin Noting PROVE WorkFits(q)'
  BY <1>2 DEF WorkFits, Noting
<1>3. ASSUME ~\E p \in Proc : Spawn(p) PROVE Known' \subseteq Known /\ \A s \in Server : Stays(s)
  BY <1>3, NoneMoves DEF Stays, Known
<1>4. ASSUME ~\E p \in Proc : Spawn(p), UNCHANGED <<env, pid, nonce>>,
             UNCHANGED <<pc[q], child[q], dsp[q]>>
      PROVE  WorkFits(q)'
  <2>1. Known' \subseteq Known /\ \A s \in Known' : \A d \in Display : on[d] = s => on'[d] = s
    BY <1>3, <1>4 DEF Stays, Known
  <2> QED
    BY <1>1, <1>4, <2>1 DEF WorkFits, TypeOK
<1>5. ASSUME NEW p \in Proc, pc[p] \in Locked, p # q, UNCHANGED <<pc[q]>> PROVE WorkFits(q)'
  BY <1>1, <1>2, <1>5 DEF HolderInv
<1>6. ASSUME NEW p \in Proc, pc[p] \in Locked \ {"env", "pid"} PROVE Known \subseteq {pid}
  BY <1>6, HolderKnows
<1>7. CASE \E p \in Proc : Spawn(p)
  <2>1. PICK p \in Proc : Spawn(p)
    BY <1>7
  <2>2. pc[p] = "spawn" /\ pc[p] \in Locked /\ UNCHANGED <<env, pid, nonce>>
    BY <2>1 DEF Spawn, Locked, files
  <2>3. CASE q = p
    BY <2>1, <2>2, <2>3, <1>1, XvfbAssumption DEF Spawn, WorkFits, TypeOK
  <2>4. CASE q # p
    BY <1>5, <2>1, <2>2, <2>4 DEF Spawn, TypeOK
  <2> QED
    BY <2>3, <2>4
<1>8. CASE ~\E p \in Proc : Spawn(p)
  <2>1. Known' \subseteq Known /\ \A s \in Server : Stays(s)
    BY <1>3, <1>8
  <2> USE DEF still, xs, files
  <2>2. ASSUME NEW c \in Cli, Command(c) PROVE WorkFits(q)'
    BY <2>2, <1>4, <1>5, <1>2, <1>8
       DEF Command, Go, Done, Fail, Leave, Begin, Locked, Noting, TypeOK, Proc
  <2>3. ASSUME NEW p \in Proc, Take(p) PROVE WorkFits(q)'
    BY <2>3, <1>4, <1>2, <1>8
       DEF Take, First, Noting, TypeOK, Proc
  <2>4. ASSUME NEW p \in Proc, TakeFails(p) PROVE WorkFits(q)'
    BY <2>4, <1>4, <1>5, <1>2, <1>8
       DEF TakeFails, Go, Done, Fail, Leave, Begin, Locked, Noting, TypeOK, Proc
  <2>5. ASSUME NEW p \in Proc, FindLive(p) PROVE WorkFits(q)'
    BY <2>5, <1>4, <1>5, <1>2, <1>8
       DEF FindLive, Go, Done, Fail, Leave, Begin, Locked, Noting, TypeOK, Proc
  <2>6. ASSUME NEW p \in Proc, FindSilent(p) PROVE WorkFits(q)'
    BY <2>6, <1>4, <1>5, <1>2, <1>8
       DEF FindSilent, Go, Done, Fail, Leave, Begin, Locked, Noting, TypeOK, Proc
  <2>7. ASSUME NEW p \in Proc, FindGone(p) PROVE WorkFits(q)'
    BY <2>7, <1>2, <1>5, <1>6, <2>1, GoneIsGone
       DEF FindGone, Go, Done, Fail, Leave, Locked, Noting, WorkFits, TypeOK, Proc
  <2>8. ASSUME NEW p \in Proc, Attached(p) PROVE WorkFits(q)'
    BY <2>8, <1>4, <1>5, <1>2, <1>8
       DEF Attached, Go, Done, Fail, Leave, Begin, Locked, Noting, TypeOK, Proc
  <2>9. ASSUME NEW p \in Proc, NotAttached(p) PROVE WorkFits(q)'
    BY <2>9, <1>1, <1>2, <1>5, <2>1
       DEF NotAttached, Go, Done, Leave, Locked, Noting, WorkFits, ChildInv, TypeOK,
         Proc
  <2>10. ASSUME NEW p \in Proc, ReuseByUp(p) PROVE WorkFits(q)'
    BY <2>10, <1>4, <1>5, <1>2, <1>8
       DEF ReuseByUp, Go, Done, Fail, Leave, Begin, Locked, Noting, TypeOK, Proc
  <2>11. ASSUME NEW p \in Proc, StopYes(p) PROVE WorkFits(q)'
    BY <2>11, <1>1, <1>2, <1>5, <1>6, <2>1, XvfbAssumption
       DEF StopYes, Go, Locked, Noting, WorkFits, Known, Ends, Alive, IsXvfb, X,
         TypeOK, Proc
  <2>12. ASSUME NEW p \in Proc, StopNotOurs(p) PROVE WorkFits(q)'
    BY <2>12, <1>1, <1>2, <1>5, <1>6, <2>1, XvfbAssumption
       DEF StopNotOurs, Go, Locked, Noting, WorkFits, Known, Ends, Alive, IsXvfb, X,
         TypeOK, Proc
  <2>13. ASSUME NEW p \in Proc, StopStillAnswering(p) PROVE WorkFits(q)'
    BY <2>13, <1>4, <1>5, <1>2, <1>8
       DEF StopStillAnswering, Go, Done, Fail, Leave, Begin, Locked, Noting, TypeOK,
         Proc
  <2>14. ASSUME NEW p \in Proc, ClearEnv(p) PROVE WorkFits(q)'
    BY <2>14, <1>1, <1>2, <1>5, <2>1
       DEF ClearEnv, Go, Done, Leave, Locked, Noting, WorkFits, ChildInv, TypeOK, Proc
  <2>15. ASSUME NEW p \in Proc, ClearRest(p) PROVE WorkFits(q)'
    BY <2>15, <1>1, <1>2, <1>5, <2>1
       DEF ClearRest, Go, Done, Leave, Locked, Noting, WorkFits, ChildInv, TypeOK,
         Proc
  <2>16. ASSUME NEW p \in Proc, SpawnFails(p) PROVE WorkFits(q)'
    BY <2>16, <1>4, <1>5, <1>2, <1>8
       DEF SpawnFails, Go, Done, Fail, Leave, Begin, Locked, Noting, TypeOK, Proc
  <2>17. ASSUME NEW p \in Proc, WriteEnv(p) PROVE WorkFits(q)'
    BY <2>17, <1>1, <1>2, <1>5, <2>1
       DEF WriteEnv, Go, Done, Leave, Locked, Noting, WorkFits, ChildInv, TypeOK, Proc
  <2>18. ASSUME NEW p \in Proc, WritePid(p) PROVE WorkFits(q)'
    BY <2>18, <1>1, <1>2, <1>5, <2>1
       DEF WritePid, Go, Done, Leave, Locked, Noting, WorkFits, ChildInv, TypeOK, Proc
  <2>19. ASSUME NEW p \in Proc, WriteNonce(p) PROVE WorkFits(q)'
    BY <2>19, <1>1, <1>2, <1>5, <2>1
       DEF WriteNonce, Go, Done, Leave, Locked, Noting, WorkFits, ChildInv, TypeOK,
         Proc
  <2>20. ASSUME NEW p \in Proc, WriteOwner(p) PROVE WorkFits(q)'
    BY <2>20, <1>4, <1>5, <1>2, <1>8
       DEF WriteOwner, Go, Done, Fail, Leave, Begin, Locked, Noting, TypeOK, Proc
  <2>21. ASSUME NEW p \in Proc, Down(p) PROVE WorkFits(q)'
    BY <2>21, <1>1, <1>2, <1>5, <1>6, <2>1, XvfbAssumption
       DEF Down, Go, Locked, Noting, WorkFits, Known, Ends, Alive, IsXvfb, X, TypeOK,
         Proc
  <2>22. ASSUME NEW m \in Mcp, StartMcp(m) PROVE WorkFits(q)'
    BY <2>22, <1>4, <1>5, <1>2, <1>8
       DEF StartMcp, Go, Done, Fail, Leave, Begin, Locked, Noting, TypeOK, Proc
  <2>23. ASSUME NEW m \in Mcp, Reup(m) PROVE WorkFits(q)'
    BY <2>23, <1>4, <1>5, <1>2, <1>8
       DEF Reup, Go, Done, Fail, Leave, Begin, Locked, Noting, TypeOK, Proc
  <2>24. ASSUME NEW m \in Mcp, Quit(m) PROVE WorkFits(q)'
    BY <2>24, <1>4, <1>5, <1>2, <1>8
       DEF Quit, Go, Done, Fail, Leave, Begin, Locked, Noting, TypeOK, Proc
  <2>25. ASSUME NEW m \in Mcp, ReuseByMcp(m) PROVE WorkFits(q)'
    BY <2>25, <1>4, <1>5, <1>2, <1>8
       DEF ReuseByMcp, Go, Done, Fail, Leave, Begin, Locked, Noting, TypeOK, Proc
  <2>26. ASSUME NEW m \in Mcp, Adopt(m) PROVE WorkFits(q)'
    BY <2>26, <1>4, <1>5, <1>2, <1>8
       DEF Adopt, Go, Done, Fail, Leave, Begin, Locked, Noting, TypeOK, Proc
  <2>27. ASSUME NEW m \in Mcp, AddUser(m) PROVE WorkFits(q)'
    BY <2>27, <1>4, <1>5, <1>2, <1>8
       DEF AddUser, Go, Done, Fail, Leave, Begin, Locked, Noting, TypeOK, Proc
  <2>28. ASSUME NEW m \in Mcp, RemoveUser(m) PROVE WorkFits(q)'
    BY <2>28, <1>4, <1>5, <1>2, <1>8
       DEF RemoveUser, Go, Done, Fail, Leave, Begin, Locked, Noting, TypeOK, Proc
  <2>29. ASSUME NEW m \in Mcp, NotMine(m) PROVE WorkFits(q)'
    BY <2>29, <1>4, <1>5, <1>2, <1>8
       DEF NotMine, Go, Done, Fail, Leave, Begin, Locked, Noting, TypeOK, Proc
  <2>30. ASSUME NEW m \in Mcp, Last(m) PROVE WorkFits(q)'
    BY <2>30, <1>4, <1>5, <1>2, <1>8
       DEF Last, Go, Done, Fail, Leave, Begin, Locked, Noting, TypeOK, Proc
  <2>31. ASSUME NEW m \in Mcp, Open(m) PROVE WorkFits(q)'
    BY <2>31, <1>4, <1>5, <1>2, <1>8
       DEF Open, Go, Done, Fail, Leave, Begin, Locked, Noting, TypeOK, Proc
  <2>32. ASSUME NEW m \in Mcp, OpenFails(m) PROVE WorkFits(q)'
    BY <2>32, <1>4, <1>5, <1>2, <1>8
       DEF OpenFails, Go, Done, Fail, Leave, Begin, Locked, Noting, TypeOK, Proc
  <2>33. ASSUME NEW p \in Proc, Kill(p) PROVE WorkFits(q)'
    BY <2>33, <1>4, <1>5, <1>2, <1>8
       DEF Kill, Go, Done, Fail, Leave, Begin, Locked, Noting, TypeOK, Proc
  <2>34. ASSUME NEW p \in Proc, WriteFails(p) PROVE WorkFits(q)'
    BY <2>34, <1>4, <1>5, <1>2, <1>8
       DEF WriteFails, Go, Done, Fail, Leave, Begin, Locked, Noting, TypeOK, Proc
  <2>35. CASE Status
    BY <2>35, <1>4, <1>8
       DEF Status
  <2>36. CASE \E s \in X : ServerEnds(s)
    BY <2>36, <1>4, <1>8
       DEF ServerEnds
  <2>37. CASE \E f \in Foreign, d \in Display : ForeignStarts(f, d)
    BY <2>37, <1>4, <1>8
       DEF ForeignStarts
  <2>38. CASE \E s \in Server : MoodChanges(s)
    BY <2>38, <1>4, <1>8
       DEF MoodChanges
  <2>39. CASE UNCHANGED vars
    BY <2>39, <1>4, <1>8
       DEF vars
  <2> QED
    BY <2>2, <2>3, <2>4, <2>5, <2>6, <2>7, <2>8, <2>9, <2>10, <2>11, <2>12, <2>13,
      <2>14, <2>15, <2>16, <2>17, <2>18, <2>19, <2>20, <2>21, <2>22, <2>23, <2>24,
      <2>25, <2>26, <2>27, <2>28, <2>29, <2>30, <2>31, <2>32, <2>33, <2>34, <2>35,
      <2>36, <2>37, <2>38, <2>39, <1>8
       DEF Next, UpStep, McpStep, Environment
<1> QED
  BY <1>7, <1>8

\* Two steps write the pidfile.
LEMMA PidStays ==
  ASSUME [Next]_vars, \A p \in Proc : ~ClearRest(p) /\ ~WritePid(p)
  PROVE  pid' = pid
<1> USE DEF still, xs, files
<1>1. ASSUME UNCHANGED <<pid>> PROVE pid' = pid
  BY <1>1
<1>2. ASSUME NEW p \in Proc, ClearRest(p) PROVE pid' = pid
  BY <1>2
     DEF ClearRest
<1>3. ASSUME NEW p \in Proc, WritePid(p) PROVE pid' = pid
  BY <1>3
     DEF WritePid
<1>4. ASSUME NEW p \in Proc, \/ Take(p) \/ TakeFails(p) \/ FindLive(p)
      \/ FindSilent(p) \/ FindGone(p) \/ Attached(p) \/ NotAttached(p)
      \/ ReuseByUp(p) \/ StopYes(p) \/ StopNotOurs(p) \/ StopStillAnswering(p)
      \/ ClearEnv(p) \/ Spawn(p) \/ SpawnFails(p) \/ WriteEnv(p)
      \/ WriteNonce(p) \/ WriteOwner(p) \/ Down(p) \/ Kill(p) \/ WriteFails(p)
      PROVE  pid' = pid
  BY <1>4, <1>1
     DEF Take, TakeFails, FindLive, FindSilent, FindGone, Attached, NotAttached,
       ReuseByUp, StopYes, StopNotOurs, StopStillAnswering, ClearEnv, Spawn,
       SpawnFails, WriteEnv, WriteNonce, WriteOwner, Down, Kill, WriteFails
<1>5. ASSUME NEW m \in Mcp, \/ StartMcp(m) \/ Reup(m) \/ Quit(m)
      \/ ReuseByMcp(m) \/ Adopt(m) \/ AddUser(m) \/ RemoveUser(m) \/ NotMine(m)
      \/ Last(m) \/ Open(m) \/ OpenFails(m)
      PROVE  pid' = pid
  BY <1>5, <1>1
     DEF StartMcp, Reup, Quit, ReuseByMcp, Adopt, AddUser, RemoveUser, NotMine,
       Last, Open, OpenFails, Begin
<1>6. ASSUME NEW c \in Cli, Command(c)
      PROVE  pid' = pid
  BY <1>6, <1>1
     DEF Command, Begin
<1>7. CASE Status
           \/ (\E s \in X : ServerEnds(s))
           \/ (\E f \in Foreign, d \in Display : ForeignStarts(f, d))
           \/ (\E s \in Server : MoodChanges(s))
  BY <1>7, <1>1
     DEF Status, ServerEnds, ForeignStarts, MoodChanges
<1> QED
  BY <1>1, <1>2, <1>3, <1>4, <1>5, <1>6, <1>7
     DEF Next, UpStep, McpStep, Environment, vars

\* While a process is about to write down its new Xvfb, only it can go on from
\* there, write, be killed or fail.
LEMMA NewcomerMoves ==
  ASSUME TypeOK, HolderInv, [Next]_vars, NEW q \in Proc, lock = q, pc[q] \in {"env", "pid"}
  PROVE  \/ UNCHANGED <<lock, child[q], pc[q]>>
         \/ WriteEnv(q) \/ WritePid(q) \/ Kill(q) \/ WriteFails(q)
<1> DEFINE Same == \/ UNCHANGED <<lock, child[q], pc[q]>>
                     \/ WriteEnv(q) \/ WritePid(q) \/ Kill(q) \/ WriteFails(q)
<1>1. \A p \in Proc : pc[p] \in Locked => p = q
  BY DEF HolderInv
<1>2. lock # None
  BY XvfbAssumption
<1>3. ASSUME NEW c \in Cli, Command(c) PROVE Same
  BY <1>3, <1>1, <1>2
     DEF Command, Go, Done, Fail, Leave, Begin, Locked, Writes, TypeOK, Proc
<1>4. ASSUME NEW p \in Proc, Take(p) PROVE Same
  BY <1>4, <1>1, <1>2
     DEF Take, Go, Done, Fail, Leave, Begin, Locked, Writes, TypeOK, Proc
<1>5. ASSUME NEW p \in Proc, TakeFails(p) PROVE Same
  BY <1>5, <1>1, <1>2
     DEF TakeFails, Go, Done, Fail, Leave, Begin, Locked, Writes, TypeOK, Proc
<1>6. ASSUME NEW p \in Proc, FindLive(p) PROVE Same
  BY <1>6, <1>1, <1>2
     DEF FindLive, Go, Done, Fail, Leave, Begin, Locked, Writes, TypeOK, Proc
<1>7. ASSUME NEW p \in Proc, FindSilent(p) PROVE Same
  BY <1>7, <1>1, <1>2
     DEF FindSilent, Go, Done, Fail, Leave, Begin, Locked, Writes, TypeOK, Proc
<1>8. ASSUME NEW p \in Proc, FindGone(p) PROVE Same
  BY <1>8, <1>1, <1>2
     DEF FindGone, Go, Done, Fail, Leave, Begin, Locked, Writes, TypeOK, Proc
<1>9. ASSUME NEW p \in Proc, Attached(p) PROVE Same
  BY <1>9, <1>1, <1>2
     DEF Attached, Go, Done, Fail, Leave, Begin, Locked, Writes, TypeOK, Proc
<1>10. ASSUME NEW p \in Proc, NotAttached(p) PROVE Same
  BY <1>10, <1>1, <1>2
     DEF NotAttached, Go, Done, Fail, Leave, Begin, Locked, Writes, TypeOK, Proc
<1>11. ASSUME NEW p \in Proc, ReuseByUp(p) PROVE Same
  BY <1>11, <1>1, <1>2
     DEF ReuseByUp, Go, Done, Fail, Leave, Begin, Locked, Writes, TypeOK, Proc
<1>12. ASSUME NEW p \in Proc, StopYes(p) PROVE Same
  BY <1>12, <1>1, <1>2
     DEF StopYes, Go, Done, Fail, Leave, Begin, Locked, Writes, TypeOK, Proc
<1>13. ASSUME NEW p \in Proc, StopNotOurs(p) PROVE Same
  BY <1>13, <1>1, <1>2
     DEF StopNotOurs, Go, Done, Fail, Leave, Begin, Locked, Writes, TypeOK, Proc
<1>14. ASSUME NEW p \in Proc, StopStillAnswering(p) PROVE Same
  BY <1>14, <1>1, <1>2
     DEF StopStillAnswering, Go, Done, Fail, Leave, Begin, Locked, Writes, TypeOK,
       Proc
<1>15. ASSUME NEW p \in Proc, ClearEnv(p) PROVE Same
  BY <1>15, <1>1, <1>2
     DEF ClearEnv, Go, Done, Fail, Leave, Begin, Locked, Writes, TypeOK, Proc
<1>16. ASSUME NEW p \in Proc, ClearRest(p) PROVE Same
  BY <1>16, <1>1, <1>2
     DEF ClearRest, Go, Done, Fail, Leave, Begin, Locked, Writes, TypeOK, Proc
<1>17. ASSUME NEW p \in Proc, Spawn(p) PROVE Same
  BY <1>17, <1>1, <1>2
     DEF Spawn, Go, Done, Fail, Leave, Begin, Locked, Writes, TypeOK, Proc
<1>18. ASSUME NEW p \in Proc, SpawnFails(p) PROVE Same
  BY <1>18, <1>1, <1>2
     DEF SpawnFails, Go, Done, Fail, Leave, Begin, Locked, Writes, TypeOK, Proc
<1>19. ASSUME NEW p \in Proc, WriteEnv(p) PROVE Same
  BY <1>19, <1>1, <1>2
     DEF WriteEnv, Go, Done, Fail, Leave, Begin, Locked, Writes, TypeOK, Proc
<1>20. ASSUME NEW p \in Proc, WritePid(p) PROVE Same
  BY <1>20, <1>1, <1>2
     DEF WritePid, Go, Done, Fail, Leave, Begin, Locked, Writes, TypeOK, Proc
<1>21. ASSUME NEW p \in Proc, WriteNonce(p) PROVE Same
  BY <1>21, <1>1, <1>2
     DEF WriteNonce, Go, Done, Fail, Leave, Begin, Locked, Writes, TypeOK, Proc
<1>22. ASSUME NEW p \in Proc, WriteOwner(p) PROVE Same
  BY <1>22, <1>1, <1>2
     DEF WriteOwner, Go, Done, Fail, Leave, Begin, Locked, Writes, TypeOK, Proc
<1>23. ASSUME NEW p \in Proc, Down(p) PROVE Same
  BY <1>23, <1>1, <1>2
     DEF Down, Go, Done, Fail, Leave, Begin, Locked, Writes, TypeOK, Proc
<1>24. ASSUME NEW m \in Mcp, StartMcp(m) PROVE Same
  BY <1>24, <1>1, <1>2
     DEF StartMcp, Go, Done, Fail, Leave, Begin, Locked, Writes, TypeOK, Proc
<1>25. ASSUME NEW m \in Mcp, Reup(m) PROVE Same
  BY <1>25, <1>1, <1>2
     DEF Reup, Go, Done, Fail, Leave, Begin, Locked, Writes, TypeOK, Proc
<1>26. ASSUME NEW m \in Mcp, Quit(m) PROVE Same
  BY <1>26, <1>1, <1>2
     DEF Quit, Go, Done, Fail, Leave, Begin, Locked, Writes, TypeOK, Proc
<1>27. ASSUME NEW m \in Mcp, ReuseByMcp(m) PROVE Same
  BY <1>27, <1>1, <1>2
     DEF ReuseByMcp, Go, Done, Fail, Leave, Begin, Locked, Writes, TypeOK, Proc
<1>28. ASSUME NEW m \in Mcp, Adopt(m) PROVE Same
  BY <1>28, <1>1, <1>2
     DEF Adopt, Go, Done, Fail, Leave, Begin, Locked, Writes, TypeOK, Proc
<1>29. ASSUME NEW m \in Mcp, AddUser(m) PROVE Same
  BY <1>29, <1>1, <1>2
     DEF AddUser, Go, Done, Fail, Leave, Begin, Locked, Writes, TypeOK, Proc
<1>30. ASSUME NEW m \in Mcp, RemoveUser(m) PROVE Same
  BY <1>30, <1>1, <1>2
     DEF RemoveUser, Go, Done, Fail, Leave, Begin, Locked, Writes, TypeOK, Proc
<1>31. ASSUME NEW m \in Mcp, NotMine(m) PROVE Same
  BY <1>31, <1>1, <1>2
     DEF NotMine, Go, Done, Fail, Leave, Begin, Locked, Writes, TypeOK, Proc
<1>32. ASSUME NEW m \in Mcp, Last(m) PROVE Same
  BY <1>32, <1>1, <1>2
     DEF Last, Go, Done, Fail, Leave, Begin, Locked, Writes, TypeOK, Proc
<1>33. ASSUME NEW m \in Mcp, Open(m) PROVE Same
  BY <1>33, <1>1, <1>2
     DEF Open, Go, Done, Fail, Leave, Begin, Locked, Writes, TypeOK, Proc
<1>34. ASSUME NEW m \in Mcp, OpenFails(m) PROVE Same
  BY <1>34, <1>1, <1>2
     DEF OpenFails, Go, Done, Fail, Leave, Begin, Locked, Writes, TypeOK, Proc
<1>35. ASSUME NEW p \in Proc, Kill(p) PROVE Same
  BY <1>35, <1>1, <1>2
     DEF Kill, Go, Done, Fail, Leave, Begin, Locked, Writes, TypeOK, Proc
<1>36. ASSUME NEW p \in Proc, WriteFails(p) PROVE Same
  BY <1>36, <1>1, <1>2
     DEF WriteFails, Go, Done, Fail, Leave, Begin, Locked, Writes, TypeOK, Proc
<1>37. CASE Status
  BY <1>37
     DEF Status
<1>38. CASE \E s \in X : ServerEnds(s)
  BY <1>38
     DEF ServerEnds
<1>39. CASE \E f \in Foreign, d \in Display : ForeignStarts(f, d)
  BY <1>39
     DEF ForeignStarts
<1>40. CASE \E s \in Server : MoodChanges(s)
  BY <1>40
     DEF MoodChanges
<1>41. CASE UNCHANGED vars
  BY <1>41
     DEF vars, TypeOK
<1> QED
  BY <1>3, <1>4, <1>5, <1>6, <1>7, <1>8, <1>9, <1>10, <1>11, <1>12, <1>13, <1>14,
    <1>15, <1>16, <1>17, <1>18, <1>19, <1>20, <1>21, <1>22, <1>23, <1>24, <1>25,
    <1>26, <1>27, <1>28, <1>29, <1>30, <1>31, <1>32, <1>33, <1>34, <1>35, <1>36,
    <1>37, <1>38, <1>39, <1>40, <1>41
     DEF Next, UpStep, McpStep, Environment, vars

\* An Xvfb that runs stays in the pidfile, or with the process about to write it.
LEMMA NoticedNext ==
  ASSUME TypeOK, HolderInv, ChildInv, [Next]_vars,
         \A p \in Proc : WorkFits(p),
         \A s \in Known : Noticed(s),
         NEW s \in Known'
  PROVE  Noticed(s)'
<1>1. s \in Server /\ None \notin Server /\ None \notin Proc
  BY XvfbAssumption DEF Known, X
<1>2. CASE \E p \in Proc : Spawn(p)
  <2>1. PICK p \in Proc : Spawn(p)
    BY <1>2
  <2>2. pc[p] = "spawn" /\ lock = p /\ Known = {}
    BY <2>1 DEF Spawn, HolderInv, Locked, WorkFits
  <2>3. lock' = p /\ pc'[p] = "env" /\ child'[p] = s
    BY <1>1, <2>1, <2>2 DEF Spawn, Known, Alive, TypeOK
  <2> QED
    BY <2>3 DEF Noticed
<1>3. CASE ~\E p \in Proc : Spawn(p)
  <2>1. s \in Known
    BY <1>1, <1>3, NoneMoves DEF Stays
  <2>2. CASE pid = s
    <3>1. \A p \in Proc : ~ClearRest(p) /\ ~WritePid(p)
      BY <1>1, <2>1, <2>2 DEF ClearRest, WritePid, WorkFits
    <3>2. pid' = pid
      BY <1>3, <3>1, PidStays
    <3> QED
      BY <2>2, <3>2 DEF Noticed
  <2>3. CASE pid # s
    <3>1. PICK p \in Proc : lock = p /\ child[p] = s /\ pc[p] \in {"env", "pid"}
      BY <2>1, <2>3 DEF Noticed
    <3>2. CASE UNCHANGED <<lock, child[p], pc[p]>>
      BY <3>1, <3>2 DEF Noticed
    <3>3. CASE WriteEnv(p)
      BY <1>1, <3>1, <3>3 DEF WriteEnv, Go, ChildInv, Noticed, TypeOK
    <3>4. CASE WritePid(p)
      BY <3>1, <3>4 DEF WritePid, Noticed
    <3>5. ~(Kill(p) \/ WriteFails(p))
      BY <1>1, <3>1 DEF Kill, WriteFails, Leaks, Known
    <3> QED
      BY <1>1, <1>3, <3>1, <3>2, <3>3, <3>4, <3>5, NewcomerMoves
  <2> QED
    BY <2>2, <2>3
<1> QED
  BY <1>2, <1>3

\* What excuses an Xvfb without a user is not undone.
LEMMA ExcusedStays ==
  ASSUME [Next]_vars, ~excused'
  PROVE  ~excused
<1> USE DEF still, xs, files
<1>1. ASSUME UNCHANGED <<excused>> PROVE ~excused
  BY <1>1
<1>2. ASSUME NEW p \in Proc, TakeFails(p) PROVE ~excused
  BY <1>2
     DEF TakeFails
<1>3. ASSUME NEW p \in Proc, Kill(p) PROVE ~excused
  BY <1>3
     DEF Kill
<1>4. ASSUME NEW p \in Proc, WriteFails(p) PROVE ~excused
  BY <1>4
     DEF WriteFails
<1>5. ASSUME NEW p \in Proc, \/ Take(p) \/ FindLive(p) \/ FindSilent(p)
      \/ FindGone(p) \/ Attached(p) \/ NotAttached(p) \/ ReuseByUp(p)
      \/ StopYes(p) \/ StopNotOurs(p) \/ StopStillAnswering(p) \/ ClearEnv(p)
      \/ ClearRest(p) \/ Spawn(p) \/ SpawnFails(p) \/ WriteEnv(p)
      \/ WritePid(p) \/ WriteNonce(p) \/ WriteOwner(p) \/ Down(p)
      PROVE  ~excused
  BY <1>5, <1>1
     DEF Take, FindLive, FindSilent, FindGone, Attached, NotAttached, ReuseByUp,
       StopYes, StopNotOurs, StopStillAnswering, ClearEnv, ClearRest, Spawn,
       SpawnFails, WriteEnv, WritePid, WriteNonce, WriteOwner, Down
<1>6. ASSUME NEW m \in Mcp, \/ StartMcp(m) \/ Reup(m) \/ Quit(m)
      \/ ReuseByMcp(m) \/ Adopt(m) \/ AddUser(m) \/ RemoveUser(m) \/ NotMine(m)
      \/ Last(m) \/ Open(m) \/ OpenFails(m)
      PROVE  ~excused
  BY <1>6, <1>1
     DEF StartMcp, Reup, Quit, ReuseByMcp, Adopt, AddUser, RemoveUser, NotMine,
       Last, Open, OpenFails, Begin
<1>7. ASSUME NEW c \in Cli, Command(c)
      PROVE  ~excused
  BY <1>7, <1>1
     DEF Command, Begin
<1>8. CASE Status
           \/ (\E s \in X : ServerEnds(s))
           \/ (\E f \in Foreign, d \in Display : ForeignStarts(f, d))
           \/ (\E s \in Server : MoodChanges(s))
  BY <1>8, <1>1
     DEF Status, ServerEnds, ForeignStarts, MoodChanges
<1> QED
  BY <1>1, <1>2, <1>3, <1>4, <1>5, <1>6, <1>7, <1>8
     DEF Next, UpStep, McpStep, Environment, vars

LEMMA PidType == ASSUME TypeOK, [Next]_vars, pid' # None PROVE pid' \in Server
BY NextTypes DEF TypeOK

\* Where a process will be a user of the Xvfb, stop it, or make it a shell's.
AtIt == {"nonce", "owner", "user", "last", "stop"}

LEMMA OwnedNext ==
  ASSUME TypeOK, HolderInv, UserInv, ServerInv, ServerInv', [Next]_vars,
         haveProc, OwnedInv,
         \A p \in Proc : WorkFits(p),
         \A s \in Known : Noticed(s)
  PROVE  OwnedInv'
<1> DEFINE Owned == users' # {} \/ \E p \in Proc : pc'[p] \in AtIt
<1> SUFFICES ASSUME ~excused', pid' # None, owner' # "up", Alive(pid)' PROVE Owned
  BY DEF OwnedInv, AtIt
<1>1. haveProc' = haveProc /\ ~excused
  <2>1. haveProc' = haveProc
    BY DEF Next, vars
  <2>2. ~excused
    BY ExcusedStays
  <2> QED
    BY <2>1, <2>2
<1>2. leaked = {} /\ leaked' = {}
  BY <1>1 DEF ServerInv
<1>3. None \notin X /\ "up" \notin Mcp
  BY XvfbAssumption
<1>4. pid' \in Known'
  BY <1>2, PidType DEF Known
<1>5. CASE \E p \in Proc : Spawn(p)
  BY <1>5 DEF Spawn, files, WorkFits
<1>6. CASE ~\E p \in Proc : Spawn(p)
  <2>1. pid' \in Known /\ Alive(pid')
    BY <1>4, <1>6, NoneMoves DEF Known, Stays
  <2>2. ASSUME pid' = pid, owner # "up" PROVE users # {} \/ \E p \in Proc : pc[p] \in AtIt
    BY <1>1, <2>1, <2>2 DEF OwnedInv, AtIt
  <2>3. ASSUME UNCHANGED <<pid, owner, users>>, \A p \in Proc : pc[p] \in AtIt => pc'[p] \in AtIt
        PROVE  Owned
    BY <2>2, <2>3
  <2> USE DEF still, xs, files
  <2>4. ASSUME NEW c \in Cli, Command(c) PROVE Owned
    BY <2>4, <2>3
       DEF Command, Go, Done, Fail, Leave, Begin, AtIt, TypeOK, Proc
  <2>5. ASSUME NEW p \in Proc, Take(p) PROVE Owned
    BY <2>5, <2>3
       DEF Take, First, AtIt, TypeOK, Proc
  <2>6. ASSUME NEW p \in Proc, TakeFails(p) PROVE Owned
    BY <2>6, <2>3
       DEF TakeFails, Go, Done, Fail, Leave, Begin, AtIt, TypeOK, Proc
  <2>7. ASSUME NEW p \in Proc, FindLive(p) PROVE Owned
    BY <2>7, <2>3
       DEF FindLive, Go, Done, Fail, Leave, Begin, AtIt, TypeOK, Proc
  <2>8. ASSUME NEW p \in Proc, FindSilent(p) PROVE Owned
    BY <2>8, <2>3
       DEF FindSilent, Go, Done, Fail, Leave, Begin, AtIt, TypeOK, Proc
  <2>9. ASSUME NEW p \in Proc, FindGone(p) PROVE Owned
    BY <2>9, <2>3
       DEF FindGone, Go, Done, Fail, Leave, Begin, AtIt, TypeOK, Proc
  <2>10. ASSUME NEW p \in Proc, Attached(p) PROVE Owned
    BY <2>10, <2>3
       DEF Attached, Go, Done, Fail, Leave, Begin, AtIt, TypeOK, Proc
  <2>11. ASSUME NEW p \in Proc, NotAttached(p) PROVE Owned
    BY <2>11, <2>3
       DEF NotAttached, Go, Done, Fail, Leave, Begin, AtIt, TypeOK, Proc
  <2>12. ASSUME NEW p \in Proc, ReuseByUp(p) PROVE Owned
    BY <2>12
       DEF ReuseByUp
  <2>13. ASSUME NEW p \in Proc, StopYes(p) PROVE Owned
    BY <2>13, <1>1
       DEF StopYes, Ends, Alive, IsXvfb, TypeOK
  <2>14. ASSUME NEW p \in Proc, StopNotOurs(p) PROVE Owned
    BY <2>14, <1>1, <2>1
       DEF StopNotOurs, IsXvfb
  <2>15. ASSUME NEW p \in Proc, StopStillAnswering(p) PROVE Owned
    BY <2>15, <1>1
       DEF StopStillAnswering
  <2>16. ASSUME NEW p \in Proc, ClearEnv(p) PROVE Owned
    BY <2>16, <2>3
       DEF ClearEnv, Go, Done, Fail, Leave, Begin, AtIt, TypeOK, Proc
  <2>17. ASSUME NEW p \in Proc, ClearRest(p) PROVE Owned
    BY <2>17
       DEF ClearRest
  <2>18. ASSUME NEW p \in Proc, SpawnFails(p) PROVE Owned
    BY <2>18, <2>3
       DEF SpawnFails, Go, Done, Fail, Leave, Begin, AtIt, TypeOK, Proc
  <2>19. ASSUME NEW p \in Proc, WriteEnv(p) PROVE Owned
    BY <2>19, <2>3
       DEF WriteEnv, Go, Done, Fail, Leave, Begin, AtIt, TypeOK, Proc
  <2>20. ASSUME NEW p \in Proc, WritePid(p) PROVE Owned
    BY <2>20
       DEF WritePid, Go, AtIt, TypeOK, Proc
  <2>21. ASSUME NEW p \in Proc, WriteNonce(p) PROVE Owned
    BY <2>21
       DEF WriteNonce, Go, AtIt, TypeOK, Proc
  <2>22. ASSUME NEW p \in Proc, WriteOwner(p) PROVE Owned
    BY <2>22
       DEF WriteOwner, Go, AtIt, TypeOK, Proc
  <2>23. ASSUME NEW p \in Proc, Down(p) PROVE Owned
    BY <2>23, <2>3
       DEF Down, Go, Done, Fail, Leave, Begin, AtIt, TypeOK, Proc
  <2>24. ASSUME NEW m \in Mcp, StartMcp(m) PROVE Owned
    BY <2>24, <2>3
       DEF StartMcp, Go, Done, Fail, Leave, Begin, AtIt, TypeOK, Proc
  <2>25. ASSUME NEW m \in Mcp, Reup(m) PROVE Owned
    BY <2>25, <2>3
       DEF Reup, Go, Done, Fail, Leave, Begin, AtIt, TypeOK, Proc
  <2>26. ASSUME NEW m \in Mcp, Quit(m) PROVE Owned
    BY <2>26, <2>3
       DEF Quit, Go, Done, Fail, Leave, Begin, AtIt, TypeOK, Proc
  <2>27. ASSUME NEW m \in Mcp, ReuseByMcp(m) PROVE Owned
    BY <2>27
       DEF ReuseByMcp
  <2>28. ASSUME NEW m \in Mcp, Adopt(m) PROVE Owned
    BY <2>28, <1>3, <2>2
       DEF Adopt, StarterDead, Done, Leave, AtIt, TypeOK, Proc
  <2>29. ASSUME NEW m \in Mcp, AddUser(m) PROVE Owned
    BY <2>29
       DEF AddUser
  <2>30. ASSUME NEW m \in Mcp, RemoveUser(m) PROVE Owned
    BY <2>30
       DEF RemoveUser, Go, AtIt, TypeOK, Proc
  <2>31. ASSUME NEW m \in Mcp, NotMine(m) PROVE Owned
    BY <2>31
       DEF NotMine
  <2>32. ASSUME NEW m \in Mcp, Last(m) PROVE Owned
    BY <2>32
       DEF Last, Go, LiveUsers, AtIt, TypeOK, Proc
  <2>33. ASSUME NEW m \in Mcp, Open(m) PROVE Owned
    BY <2>33, <2>3
       DEF Open, Go, Done, Fail, Leave, Begin, AtIt, TypeOK, Proc
  <2>34. ASSUME NEW m \in Mcp, OpenFails(m) PROVE Owned
    BY <2>34, <2>3
       DEF OpenFails, Go, Done, Fail, Leave, Begin, AtIt, TypeOK, Proc
  <2>35. ASSUME NEW p \in Proc, Kill(p) PROVE Owned
    BY <2>35
       DEF Kill
  <2>36. ASSUME NEW p \in Proc, WriteFails(p) PROVE Owned
    BY <2>36
       DEF WriteFails
  <2>37. CASE Status
    BY <2>37, <1>1, <2>3
       DEF Status, UserInv, LiveUsers, AtIt, TypeOK, Proc
  <2>38. CASE \E s \in X : ServerEnds(s)
    BY <2>38, <1>1, <2>3
       DEF ServerEnds, UserInv, LiveUsers, AtIt, TypeOK, Proc
  <2>39. CASE \E f \in Foreign, d \in Display : ForeignStarts(f, d)
    BY <2>39, <1>1, <2>3
       DEF ForeignStarts, UserInv, LiveUsers, AtIt, TypeOK, Proc
  <2>40. CASE \E s \in Server : MoodChanges(s)
    BY <2>40, <1>1, <2>3
       DEF MoodChanges, UserInv, LiveUsers, AtIt, TypeOK, Proc
  <2>41. CASE UNCHANGED vars
    BY <2>41, <1>1, <2>3
       DEF vars, UserInv, LiveUsers, AtIt, TypeOK, Proc
  <2> QED
    BY <2>4, <2>5, <2>6, <2>7, <2>8, <2>9, <2>10, <2>11, <2>12, <2>13, <2>14, <2>15,
      <2>16, <2>17, <2>18, <2>19, <2>20, <2>21, <2>22, <2>23, <2>24, <2>25, <2>26,
      <2>27, <2>28, <2>29, <2>30, <2>31, <2>32, <2>33, <2>34, <2>35, <2>36, <2>37,
      <2>38, <2>39, <2>40, <2>41, <1>6
       DEF Next, UpStep, McpStep, Environment
<1> QED
  BY <1>5, <1>6
\* Every step keeps the inductive invariant.
LEMMA NextXvfb == XvfbInv /\ [Next]_vars => XvfbInv'
<1> SUFFICES ASSUME XvfbInv, [Next]_vars PROVE XvfbInv'
  OBVIOUS
<1>1. TypeOK'
  BY NextTypes DEF XvfbInv
<1>2. HolderInv' /\ OpInv' /\ LastInv'
  <2>1. CASE (\E c \in Cli : Command(c)) \/ (\E m \in Mcp : McpStep(m))
    BY <2>1, ProcStep DEF Proc
  <2>2. CASE \E p \in Proc : UpStep(p)
    BY <2>2, ProcStep
  <2>3. CASE Environment
    <3>1. CASE \E p \in Proc : Kill(p) \/ WriteFails(p)
      BY <3>1, ProcStep
    <3>2. CASE Status
      BY <3>2, EnvironmentKeeps DEF Status, LiveUsers
    <3>3. CASE \E s \in X : ServerEnds(s)
      BY <3>3, EnvironmentKeeps DEF ServerEnds, files
    <3>4. CASE \E f \in Foreign, d \in Display : ForeignStarts(f, d)
      BY <3>4, EnvironmentKeeps DEF ForeignStarts, files
    <3>5. CASE \E s \in Server : MoodChanges(s)
      BY <3>5, EnvironmentKeeps DEF MoodChanges, files
    <3> QED
      BY <2>3, <3>1, <3>2, <3>3, <3>4, <3>5 DEF Environment
  <2>4. CASE UNCHANGED vars
    BY <2>4, EnvironmentKeeps DEF vars, files
  <2> QED
    BY <2>1, <2>2, <2>3, <2>4 DEF Next
<1>3. BusyInv' /\ ChildInv' /\ UserInv' /\ ServerInv'
  BY BusyNext, ChildNext, UserNext, ServerNext DEF XvfbInv
<1> QED
  BY <1>1, <1>2, <1>3 DEF XvfbInv

\* The inductive invariant of the Xvfb's lifecycle.
THEOREM Invariance == Spec => []XvfbInv
<1> QED
  BY InitXvfb, NextXvfb, PTL DEF Spec

\* Type correctness, for any number of processes, displays and X servers.
THEOREM TypeCorrect == Spec => []TypeOK
<1>1. XvfbInv => TypeOK
  BY DEF XvfbInv
<1> QED
  BY <1>1, Invariance, PTL

\* xvfb.rs:69-71: release() stops the Xvfb only if no shell owns it and no
\* live mcp is its user, whatever is killed, fails or runs beside it.
THEOREM LeavingIsSafe == Spec => LastUserStops
<1>1. XvfbInv =>
        \A m \in Mcp : op[m] = "release" /\ pc[m] = "stop" /\ Alive(pid) /\ ~Alive(pid)'
                         => owner # "up" /\ LiveUsers = {}
  BY DEF XvfbInv, LastInv
<1> QED
  BY <1>1, Invariance, PTL DEF LastUserStops

\* The notes of an empty state directory are in order ...
KnownInv == NotForgotten /\ FilesInv /\ OwnedInv

LEMMA InitKnown == Init => KnownInv
<1> SUFFICES ASSUME Init PROVE KnownInv
  OBVIOUS
<1>1. Known = {} /\ pid = None
  BY XvfbAssumption DEF Init, Known, Alive, X
<1>2. \A p \in Proc : pc[p] \in {"off", "idle"}
  BY DEF Init
<1> QED
  BY <1>1, <1>2 DEF KnownInv, NotForgotten, FilesInv, OwnedInv, Noting

\* ... every step keeps them so ...
LEMMA NextKnown ==
  ASSUME "full" \notin Moods[TRUE]
  PROVE  XvfbInv /\ KnownInv /\ [Next]_vars => KnownInv'
<1> SUFFICES ASSUME XvfbInv, KnownInv, [Next]_vars, haveProc' PROVE KnownInv'
  BY DEF KnownInv, NotForgotten, FilesInv, OwnedInv
<1>1. haveProc /\ XvfbInv'
  BY NextXvfb DEF Next, vars
<1>2. /\ PidFits /\ \A p \in Proc : WorkFits(p)
      /\ \A s \in Known : Noticed(s)
  BY <1>1 DEF KnownInv, NotForgotten, FilesInv, PidFits, WorkFits, Noticed, Noting
<1>3. PidFits'
  BY <1>2, PidNext DEF XvfbInv
<1>4. \A p \in Proc : WorkFits(p)'
  BY <1>1, <1>2, WorkNext DEF XvfbInv
<1>5. \A s \in Known' : Noticed(s)'
  BY <1>2, NoticedNext DEF XvfbInv
<1>6. OwnedInv'
  BY <1>1, <1>2, OwnedNext DEF XvfbInv, KnownInv
<1>7. FilesInv'
  BY <1>3, <1>4 DEF FilesInv, PidFits, WorkFits, Noting
<1>8. NotForgotten'
  BY <1>5 DEF NotForgotten, Noticed
<1> QED
  BY <1>6, <1>7, <1>8 DEF KnownInv

\* ... and with the notes in order there is one Xvfb.
LEMMA KnownIsOne == XvfbInv /\ KnownInv => OneXvfb
<1> SUFFICES ASSUME XvfbInv, KnownInv, haveProc, NEW s \in Known, NEW t \in Known PROVE s = t
  BY DEF OneXvfb
<1>1. s \in Server /\ t \in Server /\ None \notin Server
  BY XvfbAssumption DEF Known, X
<1>2. \A p \in Proc : lock = p /\ pc[p] \in {"env", "pid"} => pid = None
  BY DEF KnownInv, FilesInv, Noting
<1> QED
  BY <1>1, <1>2 DEF KnownInv, NotForgotten

\* When nobody is at work, who the Xvfb was left to is a live user.
LEMMA OwnedHasUser == XvfbInv /\ KnownInv => NoOrphan
<1> SUFFICES ASSUME XvfbInv, OwnedInv,
                    haveProc, ~excused, lock = None, pid # None, owner # "up", Alive(pid)
             PROVE  LiveUsers # {}
  BY DEF NoOrphan, KnownInv
<1>1. \A p \in Proc : pc[p] \notin Locked
  BY XvfbAssumption DEF XvfbInv, HolderInv
<1>2. users # {}
  BY <1>1 DEF OwnedInv, Locked
<1> QED
  BY <1>2 DEF XvfbInv, UserInv, LiveUsers

LEMMA KnownHolds == ASSUME "full" \notin Moods[TRUE] PROVE Spec => [](XvfbInv /\ KnownInv)
<1>1. Init => XvfbInv /\ KnownInv
  BY InitXvfb, InitKnown
<1>2. XvfbInv /\ KnownInv /\ [Next]_vars => (XvfbInv /\ KnownInv)'
  BY NextXvfb, NextKnown
<1> QED
  BY <1>1, <1>2, PTL DEF Spec

\* xvfb.rs:16-17: with /proc, and while no Xvfb is at its client limit there, the
\* commands start one Xvfb between them and none is forgotten while it lives,
\* whatever is killed, stopped or restarted and whichever write fails.
THEOREM OneXvfbKnown == ASSUME "full" \notin Moods[TRUE] PROVE Spec => []OneKnownXvfb
<1>1. XvfbInv /\ KnownInv => OneKnownXvfb
  BY KnownIsOne DEF KnownInv, OneKnownXvfb
<1> QED
  BY <1>1, KnownHolds, PTL

\* xvfb.rs:70-72: under the same condition an Xvfb that no shell owns has a live
\* user whenever nobody is at work on it, unless a user was killed, could not take
\* the lock to leave, or a write failed.
THEOREM NoneOrphaned == ASSUME "full" \notin Moods[TRUE] PROVE Spec => []NoOrphan
<1> QED
  BY OwnedHasUser, KnownHolds, PTL

-----------------------------------------------------------------------------
(* lock.excl, the lock file where there is no flock, for any number of      *)
(* processes and faults: what it does give, and under which condition.     *)

\* A file that somebody created is a file, and there.
LEMMA SomeFile ==
  \A p \in Process, b \in BOOLEAN :
    [by |-> p, named |-> b] \in File /\ [by |-> p, named |-> b] # NoFile
<1> SUFFICES ASSUME NEW p \in Process, NEW b \in BOOLEAN
             PROVE  [by |-> p, named |-> b] \in File /\ [by |-> p, named |-> b] # NoFile
  OBVIOUS
<1>1. [by |-> p, named |-> b] \in [by : Process, named : BOOLEAN]
  OBVIOUS
<1> QED
  BY <1>1, LockAssumption DEF File

\* A directory without a lock file is a start.
LEMMA InitLock == LockInit => LockInv
<1> SUFFICES ASSUME LockInit PROVE LockInv
  OBVIOUS
<1>1. \A p \in Process : at[p] = "idle"
  BY DEF LockInit
<1>2. LockTypeOK
  <2>1. at \in [Process -> Places] /\ seen \in [Process -> File \cup {NoFile}]
    BY DEF LockInit, Places
  <2>2. mishaps \in 0 .. MaxMishaps
    BY LockAssumption DEF LockInit
  <2> QED
    BY <2>1, <2>2 DEF LockInit, LockTypeOK
<1>3. BreakInv /\ DeadInv /\ OwnerInv
  BY <1>1 DEF LockInit, BreakInv, DeadInv, OwnerInv
<1> QED
  BY <1>2, <1>3 DEF LockInv

\* A step of one process moves that process only.
LEMMA MovesOne ==
  ASSUME LockTypeOK, NEW p \in Process, NEW from \in Places, NEW to \in Places,
         Proceeds(p, from, to)
  PROVE  /\ at' \in [Process -> Places]
         /\ at[p] = from /\ at'[p] = to
         /\ \A q \in Process \ {p} : at'[q] = at[q]
BY DEF Proceeds, LockTypeOK

\* Steps that leave the file as it is.
LEMMA AsideStep ==
  ASSUME LockInv, NEW p \in Process,
         Try(p) \/ Exists(p) \/ Read(p) \/ FindStale(p) \/ Retry(p) \/ GiveUp(p) \/ NameFails(p)
  PROVE  LockInv'
<1>1. /\ LockTypeOK /\ BreakInv /\ DeadInv /\ OwnerInv
      /\ UNCHANGED <<file, dead, wrong>>
  BY DEF LockInv, Try, Exists, Read, FindStale, Retry, GiveUp, NameFails
<1>2. PICK from \in Places \ {"break", "held", "dead"}, to \in Places \ {"held", "write", "dead"} :
        /\ Proceeds(p, from, to)
        /\ to = "break" => Stale(p) /\ UNCHANGED seen
        /\ \A q \in Process \ {p} : seen'[q] = seen[q]
        /\ seen' \in [Process -> File \cup {NoFile}]
  BY <1>1 DEF Try, Exists, Read, FindStale, Retry, GiveUp, NameFails, Places, LockTypeOK
<1>3. /\ at' \in [Process -> Places] /\ at[p] = from /\ at'[p] = to
      /\ \A q \in Process \ {p} : at'[q] = at[q]
  BY <1>1, <1>2, MovesOne
<1>4. mishaps' \in 0 .. MaxMishaps
  BY <1>1, LockAssumption DEF Try, Exists, Read, FindStale, Retry, GiveUp, NameFails, LockTypeOK
<1>5. LockTypeOK'
  BY <1>1, <1>2, <1>3, <1>4 DEF LockTypeOK
<1>6. BreakInv'
  BY <1>1, <1>2, <1>3 DEF BreakInv, Stale
<1>7. DeadInv' /\ OwnerInv'
  BY <1>1, <1>2, <1>3 DEF DeadInv, OwnerInv
<1> QED
  BY <1>5, <1>6, <1>7 DEF LockInv

\* Who creates the file is the first since there was none.
LEMMA CreateStep ==
  ASSUME LockInv, NEW p \in Process, Create(p)
  PROVE  LockInv'
<1>1. /\ LockTypeOK /\ BreakInv /\ DeadInv /\ OwnerInv /\ UNCHANGED <<seen, dead, mishaps, wrong>>
      /\ file = NoFile /\ file' = [by |-> p, named |-> FALSE] /\ file' \in File
  BY DEF LockInv, Create, File
<1>2. /\ at' \in [Process -> Places] /\ at[p] = "open" /\ at'[p] = "write"
      /\ \A q \in Process \ {p} : at'[q] = at[q]
  BY <1>1, MovesOne DEF Create, Places
<1>3. LockTypeOK'
  BY <1>1, <1>2 DEF LockTypeOK
<1>4. BreakInv' /\ DeadInv'
  BY <1>1, <1>2 DEF BreakInv, Stale, DeadInv
<1>5. OwnerInv'
  <2>1. ~wrong => \A q \in Process : at[q] \notin {"held", "write"}
    BY <1>1, SomeFile DEF OwnerInv
  <2> QED
    BY <1>1, <1>2, <2>1 DEF OwnerInv
<1> QED
  BY <1>3, <1>4, <1>5 DEF LockInv

\* Who names the file still has it.
LEMMA NameStep ==
  ASSUME LockInv, NEW p \in Process, Name(p)
  PROVE  LockInv'
<1>1. /\ LockTypeOK /\ BreakInv /\ DeadInv /\ OwnerInv /\ UNCHANGED <<seen, dead, mishaps, wrong>>
  BY DEF LockInv, Name
<1>2. /\ at' \in [Process -> Places] /\ at[p] = "write" /\ at'[p] = "held"
      /\ \A q \in Process \ {p} : at'[q] = at[q]
  BY <1>1, MovesOne DEF Name, Places
<1>3. LockTypeOK'
  BY <1>1, <1>2 DEF LockTypeOK, Name, File
<1>4. BreakInv' /\ DeadInv'
  BY <1>1, <1>2 DEF BreakInv, Stale, DeadInv
<1>5. OwnerInv'
  <2>1. ~wrong => file = [by |-> p, named |-> FALSE] /\ file' = [by |-> p, named |-> TRUE]
    BY <1>1, <1>2 DEF OwnerInv, Name
  <2>2. ~wrong => \A q \in Process \ {p} : at[q] \notin {"held", "write"}
    BY <1>1, <2>1 DEF OwnerInv
  <2> QED
    BY <1>1, <1>2, <2>1, <2>2 DEF OwnerInv
<1> QED
  BY <1>3, <1>4, <1>5 DEF LockInv

\* Nobody else has what the holder removes.
LEMMA ReleaseStep ==
  ASSUME LockInv, NEW p \in Process, Release(p)
  PROVE  LockInv'
<1>1. /\ LockTypeOK /\ BreakInv /\ DeadInv /\ OwnerInv /\ UNCHANGED <<seen, dead, mishaps, wrong>>
      /\ file' = NoFile
  BY DEF LockInv, Release
<1>2. /\ at' \in [Process -> Places] /\ at[p] = "held" /\ at'[p] = "idle"
      /\ \A q \in Process \ {p} : at'[q] = at[q]
  BY <1>1, MovesOne DEF Release, Places
<1>3. LockTypeOK' /\ BreakInv' /\ DeadInv'
  BY <1>1, <1>2 DEF LockTypeOK, BreakInv, Stale, DeadInv
<1>4. OwnerInv'
  <2>1. ~wrong => \A q \in Process \ {p} : at[q] \notin {"held", "write"}
    BY <1>1, <1>2 DEF OwnerInv
  <2> QED
    BY <1>1, <1>2, <2>1 DEF OwnerInv
<1> QED
  BY <1>3, <1>4 DEF LockInv

\* A lock that is broken as it was found belongs to a dead process, so no
\* holder loses it.
LEMMA BreakStep ==
  ASSUME LockInv, NEW p \in Process, Break(p)
  PROVE  LockInv'
<1>1. /\ LockTypeOK /\ BreakInv /\ DeadInv /\ OwnerInv /\ UNCHANGED <<seen, dead, mishaps>>
      /\ file' = NoFile /\ wrong' = (wrong \/ file \notin {NoFile, seen[p]})
  BY DEF LockInv, Break
<1>2. /\ at' \in [Process -> Places] /\ at[p] = "break" /\ at'[p] = "open"
      /\ \A q \in Process \ {p} : at'[q] = at[q]
  BY <1>1, MovesOne DEF Break, Places
<1>3. seen[p].by \in dead /\ seen[p] # NoFile
  BY <1>1, <1>2 DEF BreakInv, Stale
<1>4. LockTypeOK' /\ BreakInv' /\ DeadInv'
  BY <1>1, <1>2, <1>3 DEF LockTypeOK, BreakInv, Stale, DeadInv
<1>5. OwnerInv'
  <2> SUFFICES ASSUME ~wrong' PROVE \A q \in Process : at[q] \notin {"held", "write"}
    BY <1>1, <1>2 DEF OwnerInv
  <2>1. ~wrong /\ file \in {NoFile, seen[p]}
    BY <1>1
  <2>2. CASE file = NoFile
    BY <1>1, <2>1, <2>2, SomeFile DEF OwnerInv
  <2>3. CASE file = seen[p]
    <3>1. ASSUME NEW q \in Process, at[q] \in {"held", "write"} PROVE FALSE
      <4>1. file.by = q
        BY <1>1, <2>1, <3>1 DEF OwnerInv
      <4>2. at[q] = "dead"
        BY <4>1, <2>3, <1>1, <1>3 DEF DeadInv
      <4> QED
        BY <4>2, <3>1
    <3> QED
      BY <3>1
  <2> QED
    BY <2>1, <2>2, <2>3
<1> QED
  BY <1>4, <1>5 DEF LockInv

\* The end of a process breaks nothing yet.
LEMMA DieStep ==
  ASSUME LockInv, NEW p \in Process, Die(p)
  PROVE  LockInv'
<1>1. /\ LockTypeOK /\ BreakInv /\ DeadInv /\ OwnerInv /\ UNCHANGED <<file, seen, wrong>>
      /\ dead' = dead \cup {p} /\ at' = [at EXCEPT ![p] = "dead"]
  BY DEF LockInv, Die
<1>2. mishaps' \in 0 .. MaxMishaps
  BY <1>1, LockAssumption DEF Die, LockTypeOK
<1>3. LockTypeOK' /\ BreakInv' /\ DeadInv' /\ OwnerInv'
  BY <1>1, <1>2 DEF LockTypeOK, BreakInv, Stale, DeadInv, OwnerInv, Places
<1> QED
  BY <1>3 DEF LockInv

\* What holds of the lock file at every moment.
THEOREM LockInvariance == LockSpec => []LockInv
<1>1. LockInv /\ [LockNext]_lockVars => LockInv'
  <2> SUFFICES ASSUME LockInv, [LockNext]_lockVars PROVE LockInv'
    OBVIOUS
  <2>1. CASE UNCHANGED lockVars
    BY <2>1 DEF lockVars, LockInv, LockTypeOK, BreakInv, Stale, DeadInv, OwnerInv
  <2>2. ASSUME NEW p \in Process, Step(p) \/ NameFails(p) \/ Die(p) PROVE LockInv'
    BY <2>2, AsideStep, CreateStep, NameStep, ReleaseStep, BreakStep, DieStep DEF Step
  <2> QED
    BY <2>1, <2>2 DEF LockNext
<1> QED
  BY <1>1, InitLock, PTL DEF LockSpec

\* Type correctness.
THEOREM LockTypeCorrect == LockSpec => []LockTypeOK
<1>1. LockInv => LockTypeOK
  BY DEF LockInv
<1> QED
  BY <1>1, LockInvariance, PTL

\* The lock is exclusive until a process removes a file it had not read.
THEOREM ExclusiveFiles == LockSpec => []ExclusiveTillWrong
<1>1. LockInv => ExclusiveTillWrong
  <2> SUFFICES ASSUME LockInv, ~wrong, NEW p \in Process, NEW q \in Process,
                      at[p] = "held", at[q] = "held"
               PROVE  p = q
    BY DEF ExclusiveTillWrong
  <2>1. [by |-> p, named |-> TRUE] = [by |-> q, named |-> TRUE]
    BY DEF LockInv, OwnerInv
  <2>2. [by |-> p, named |-> TRUE].by = [by |-> q, named |-> TRUE].by
    BY <2>1
  <2> QED
    BY <2>2
<1> QED
  BY <1>1, LockInvariance, PTL

\* Until a process ends, that cannot have happened.
THEOREM ExclusiveWhileAllLive == LockSpec => []ExclusiveAmongLive
<1>1. LockInv /\ ExclusiveTillWrong => ExclusiveAmongLive
  BY DEF LockInv, DeadInv, ExclusiveTillWrong, ExclusiveAmongLive
<1> QED
  BY <1>1, LockInvariance, ExclusiveFiles, PTL
=============================================================================
