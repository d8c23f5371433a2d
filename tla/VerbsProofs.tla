----------------------------- MODULE VerbsProofs ------------------------------
(***************************************************************************)
(* Theorems about the commands of xcua for any number of shells, commands  *)
(* of any requests, servers and faults: who sends events does so alone and *)
(* in the order of the timeline, and coordinates are those of the picture  *)
(* that its reader was told of, on a screen like the one there is.         *)
(***************************************************************************)
EXTENDS Verbs, TLAPS

-----------------------------------------------------------------------------
(* Sequences of requests *)

\* What is left of requests that send nothing sends nothing.
LEMMA TailSends ==
  ASSUME NEW q \in Seq(Request), q # <<>>
  PROVE  Tail(q) \in Seq(Request) /\ (Sends(Tail(q)) => Sends(q))
<1>1. Tail(q) \in Seq(Request)
  OBVIOUS
<1>2. ASSUME NEW i \in DOMAIN Tail(q), Tail(q)[i] \in {"aim", "press"}
      PROVE  Sends(q)
  <2>1. i + 1 \in DOMAIN q /\ q[i + 1] = Tail(q)[i]
    BY <1>2
  <2> QED
    BY <1>2, <2>1 DEF Sends
<1> QED
  BY <1>1, <1>2 DEF Sends

\* Requests that begin with an input send something.
LEMMA HeadSends ==
  ASSUME NEW q \in Seq(Request), q # <<>>, Head(q) \in {"aim", "press"}
  PROVE  Sends(q)
<1>1. 1 \in DOMAIN q /\ q[1] = Head(q)
  OBVIOUS
<1> QED
  BY <1>1 DEF Sends

-----------------------------------------------------------------------------
(* Ends of a command *)

\* A command ends: told, or killed and read by nobody.
Leaves(s) ==
  /\ pc[s] # "idle" /\ Exit(s)
  /\ faults' \in 0 .. MaxFaults
  /\ \/ Told(s) /\ UNCHANGED crossed
     \/ crossed' = [crossed EXCEPT ![s] = @ \/ got[s] # None] /\ UNCHANGED saw

\* All that ends a command ends it in one of the two ways.
LEMMA Ending ==
  ASSUME TypeOK, NEW s \in Shell,
         \/ LockTimesOut(s) \/ OpenFails(s) \/ Fails(s) \/ WriteFails(s)
         \/ Answer(s) \/ Kill(s)
  PROVE  Leaves(s)
<1>1. faults \in 0 .. MaxFaults /\ MaxFaults \in Nat
  BY VerbsAssumption DEF TypeOK
<1> QED
  BY <1>1 DEF LockTimesOut, OpenFails, Fails, WriteFails, Answer, Kill, Ends, Leaves

-----------------------------------------------------------------------------
(* Type correctness *)

\* A command that ends leaves the types as they are.
LEMMA LeavesTypes ==
  ASSUME TypeOK, NEW s \in Shell, Leaves(s)
  PROVE  TypeOK'
<1>1. Identity \in Views
  BY DEF Identity, Views
<1>2. saw' \in [Shell -> Views]
  BY VerbsAssumption DEF Leaves, Told, TypeOK
<1>3. crossed' \in [Shell -> BOOLEAN]
  BY DEF Leaves, TypeOK
<1>4. lock' \in Shell \cup {None}
  BY DEF Leaves, Exit, Dropped, TypeOK
<1>5. ctx' \in [Shell -> Views] /\ pic' \in [Shell -> Views]
  BY <1>1 DEF Leaves, Exit, TypeOK
<1>6. torn' \in BOOLEAN /\ beside' \in [Shell -> BOOLEAN]
  BY DEF Leaves, Exit, TypeOK
<1>7. /\ pc' \in [Shell -> {"idle", "lock", "open", "load", "run", "acting", "stamp",
                            "write", "save"}]
      /\ cmd' \in [Shell -> Command \cup {None}] /\ todo' \in [Shell -> Seq(Request)]
  BY DEF Leaves, Exit, TypeOK
<1>8. conn' \in [Shell -> 0 .. MaxServers]
  BY VerbsAssumption DEF Leaves, Exit, TypeOK
<1>9. /\ marked' \in [Shell -> BOOLEAN] /\ mine' \in [Shell -> Nat]
      /\ meant' \in [Shell -> Views \cup {None}] /\ got' \in [Shell -> Views \cup {None}]
  BY DEF Leaves, Exit, TypeOK
<1> QED
  BY <1>2, <1>3, <1>4, <1>5, <1>6, <1>7, <1>8, <1>9
  DEF Leaves, Exit, TypeOK, display, files

\* A command that begins, waits, opens the display and loads the view.
LEMMA OpeningTypes ==
  ASSUME TypeOK, StepInv, NEW s \in Shell,
         (\E c \in Command : Run(s, c)) \/ TakeLock(s) \/ Open(s) \/ Load(s)
  PROVE  TypeOK'
<1>1. CASE \E c \in Command : Run(s, c)
  <2> PICK c \in Command : Run(s, c)
    BY <1>1
  <2>1. c.todo \in Seq(Request)
    BY VerbsAssumption
  <2>2. runs' \in 0 .. MaxRuns
    BY VerbsAssumption DEF Run, TypeOK
  <2>3. cmd' \in [Shell -> Command \cup {None}] /\ todo' \in [Shell -> Seq(Request)]
    BY <2>1 DEF Run, TypeOK
  <2> QED
    BY <2>2, <2>3 DEF Run, TypeOK, display, files, context, knowledge, order, tears
<1>2. CASE TakeLock(s)
  BY <1>2 DEF TakeLock, Go, TypeOK, display, files, command, context, counts, knowledge,
              order, tears
<1>3. CASE Open(s)
  <2>1. Len(server) \in 0 .. MaxServers
    BY VerbsAssumption DEF TypeOK
  <2>2. conn' \in [Shell -> 0 .. MaxServers]
    BY <1>3, <2>1 DEF Open, TypeOK
  <2> QED
    BY <1>3, <2>2 DEF Open, Go, TypeOK, display, files, command, counts, knowledge, order,
                      tears
<1>4. CASE Load(s)
  <2>1. Identity \in Views
    BY DEF Identity, Views
  <2>2. ctx' \in [Shell -> Views] /\ meant' \in [Shell -> Views \cup {None}]
    BY <1>4, <2>1 DEF Load, TypeOK
  <2> QED
    BY <1>4, <2>2 DEF Load, Go, TypeOK, display, files, command, counts, order, tears
<1> QED
  BY <1>1, <1>2, <1>3, <1>4

\* A request of a command, which has it still to do.
LEMMA RequestTypes ==
  ASSUME TypeOK, StepInv, NEW s \in Shell,
         \/ Read(s) \/ Grab(s) \/ WriteImage(s) \/ SaveView(s)
         \/ Act(s) \/ Done(s) \/ Stamp(s)
  PROVE  TypeOK'
<1>1. todo[s] # <<>> => Tail(todo[s]) \in Seq(Request)
  BY DEF TypeOK
<1>2. Len(server) \in 0 .. MaxServers
  BY VerbsAssumption DEF TypeOK
<1>3. CASE Read(s)
  <2>1. todo' \in [Shell -> Seq(Request)]
    BY <1>1, <1>3 DEF Read, At, NextRequest, TypeOK
  <2>2. conn' \in [Shell -> 0 .. MaxServers] /\ marked' \in [Shell -> BOOLEAN]
    BY <1>2, <1>3 DEF Read, Reads, TypeOK
  <2> QED
    BY <1>3, <2>1, <2>2 DEF Read, TypeOK, display, files, counts, knowledge, order, tears
<1>4. CASE Grab(s)
  <2>1. conn' \in [Shell -> 0 .. MaxServers] /\ marked' \in [Shell -> BOOLEAN]
    BY <1>2, <1>4 DEF Grab, Reads, TypeOK
  <2>2. server # <<>>
    BY <1>4 DEF Grab, Reads, Alive, TypeOK
  <2>3. server[Len(server)] \in Screen
    BY <2>2 DEF TypeOK
  <2>4. pictures' \in Nat
    BY <1>4 DEF Grab, TypeOK
  <2>5. [pic |-> pictures', screen |-> server[Len(server)]] \in Views
    BY <2>3, <2>4 DEF Views
  <2>6. pic' \in [Shell -> Views]
    BY <1>4, <2>5 DEF Grab, TypeOK
  <2>7. beside' \in [Shell -> BOOLEAN]
    BY <1>4 DEF Grab, TypeOK
  <2> QED
    BY <1>4, <2>1, <2>4, <2>6, <2>7 DEF Grab, Go, TypeOK, display, files, command,
                                        knowledge, order
<1>5. CASE WriteImage(s)
  <2>1. pic[s].pic \in Nat
    BY DEF TypeOK, Views
  <2>2. image' \in [BOOLEAN -> Nat]
    BY <1>5, <2>1 DEF WriteImage, TypeOK
  <2> QED
    BY <1>5, <2>2 DEF WriteImage, Go, TypeOK, display, command, context, counts, knowledge,
                      order, tears
<1>6. CASE SaveView(s)
  <2>1. todo' \in [Shell -> Seq(Request)]
    BY <1>1, <1>6 DEF SaveView, Go, NextRequest, StepInv, Writing, TypeOK
  <2>2. torn' \in BOOLEAN
    BY <1>6 DEF SaveView, TypeOK
  <2>3. /\ view' \in Views /\ ctx' \in [Shell -> Views]
        /\ meant' \in [Shell -> Views \cup {None}] /\ got' \in [Shell -> Views \cup {None}]
    BY <1>6 DEF SaveView, TypeOK
  <2> QED
    BY <1>6, <2>1, <2>2, <2>3 DEF SaveView, Go, TypeOK, display, counts, order
<1>7. CASE Act(s)
  <2>1. events' \in Nat /\ mine' \in [Shell -> Nat]
    BY <1>7 DEF Act, TypeOK
  <2> QED
    BY <1>7, <2>1 DEF Act, Go, TypeOK, display, files, command, context, counts, knowledge,
                      tears
<1>8. CASE Done(s)
  BY <1>8 DEF Done, Go, TypeOK, display, files, command, context, counts, knowledge, order,
              tears
<1>9. CASE Stamp(s)
  <2>1. todo' \in [Shell -> Seq(Request)]
    BY <1>1, <1>9 DEF Stamp, Go, NextRequest, StepInv, Acting, TypeOK
  <2>2. timeline' \in Seq(Nat)
    BY <1>9 DEF Stamp, TypeOK
  <2> QED
    BY <1>9, <2>1, <2>2 DEF Stamp, Go, TypeOK, display, context, counts, knowledge, tears
<1> QED
  BY <1>3, <1>4, <1>5, <1>6, <1>7, <1>8, <1>9

\* A server that comes or goes.
LEMMA ServerTypes ==
  ASSUME TypeOK, ServerStarts \/ ServerEnds
  PROVE  TypeOK'
<1>1. CASE ServerStarts
  <2>1. server' \in Seq(Screen) /\ Len(server') <= MaxServers /\ server' # <<>>
    BY <1>1, VerbsAssumption DEF ServerStarts, TypeOK
  <2> QED
    BY <1>1, <2>1 DEF ServerStarts, TypeOK, files, command, context, counts, knowledge, order,
                      tears
<1>2. CASE ServerEnds
  BY <1>2 DEF ServerEnds, TypeOK, files, command, context, counts, knowledge, order, tears
<1> QED
  BY <1>1, <1>2

\* Every step keeps the types.
LEMMA NextTypes ==
  ASSUME TypeOK, StepInv, [Next]_vars
  PROVE  TypeOK'
<1>1. CASE \E s \in Shell : Step(s)
  BY <1>1, Ending, LeavesTypes, OpeningTypes, RequestTypes DEF Step
<1>2. CASE Finished \/ UNCHANGED vars
  <2>1. /\ UNCHANGED <<server, up, view, image, timeline, lock, pc, cmd, todo, conn, marked>>
        /\ UNCHANGED <<ctx, pic, runs, pictures, faults, saw, crossed, meant, got, events>>
        /\ UNCHANGED <<mine, torn, beside>>
    BY <1>2 DEF Finished, vars, display, files, command, context, counts, knowledge, order,
                tears
  <2> QED
    BY <2>1 DEF TypeOK
<1> QED
  BY <1>1, <1>2, ServerTypes DEF Next

-----------------------------------------------------------------------------
(* Where a command is *)

\* Each command stays within what it has begun.
LEMMA NextSteps ==
  ASSUME TypeOK, StepInv, [Next]_vars
  PROVE  StepInv'
<1> USE DEF Opened, Writing, Acting
<1>1. ASSUME NEW s \in Shell, Leaves(s)
      PROVE  StepInv'
  BY <1>1 DEF Leaves, Exit, StepInv, TypeOK, display
<1>2. ASSUME NEW s \in Shell, \E c \in Command : Run(s, c)
      PROVE  StepInv'
  BY <1>2 DEF Run, StepInv, TypeOK, display, context
<1>3. ASSUME NEW s \in Shell, TakeLock(s) \/ WriteImage(s) \/ Done(s)
      PROVE  StepInv'
  BY <1>3 DEF TakeLock, WriteImage, Done, Go, StepInv, TypeOK, display, context, command
<1>4. ASSUME NEW s \in Shell, Open(s)
      PROVE  StepInv'
  <2>1. Len(server) \in DOMAIN server
    BY <1>4 DEF Open, TypeOK
  <2> QED
    BY <1>4, <2>1 DEF Open, Go, StepInv, TypeOK, display, command
<1>5. ASSUME NEW s \in Shell, Load(s)
      PROVE  StepInv'
  BY <1>5 DEF Load, Go, StepInv, TypeOK, display, command
<1>6. ASSUME NEW s \in Shell, Read(s) \/ Grab(s)
      PROVE  StepInv'
  <2>0. up /\ server # <<>>
    BY <1>6 DEF Read, Grab, Reads, Alive, TypeOK
  <2>1. Len(server) \in DOMAIN server /\ Len(server) \in 0 .. MaxServers
    BY <2>0, VerbsAssumption DEF TypeOK
  <2>2. conn' \in [Shell -> 0 .. MaxServers] /\ conn'[s] \in DOMAIN server
    <3>1. Reads(s)
      BY <1>6 DEF Read, Grab
    <3>2. CASE Alive(s) /\ UNCHANGED <<conn, marked>>
      BY <2>1, <3>2 DEF Alive, TypeOK
    <3>3. CASE conn' = [conn EXCEPT ![s] = Len(server)]
      BY <2>1, <3>3 DEF TypeOK
    <3> QED
      BY <3>1, <3>2, <3>3 DEF Reads
  <2>3. \A t \in Shell \ {s} : conn'[t] = conn[t]
    BY <1>6 DEF Read, Grab, Reads, TypeOK
  <2>4. CASE Read(s)
    BY <2>2, <2>3, <2>4 DEF Read, At, NextRequest, StepInv, TypeOK, display
  <2>5. CASE Grab(s)
    BY <2>2, <2>3, <2>5 DEF Grab, At, Go, StepInv, TypeOK, display, command
  <2> QED
    BY <1>6, <2>4, <2>5
<1>7. ASSUME NEW s \in Shell, SaveView(s) \/ Stamp(s)
      PROVE  StepInv'
  BY <1>7 DEF SaveView, Stamp, Go, NextRequest, StepInv, TypeOK, display, context
<1>8. ASSUME NEW s \in Shell, Act(s)
      PROVE  StepInv'
  BY <1>8 DEF Act, At, Go, StepInv, TypeOK, display, context, command
<1>9. CASE ServerStarts
  <2>1. DOMAIN server \subseteq DOMAIN server'
    BY <1>9 DEF ServerStarts, TypeOK
  <2> QED
    BY <1>9, <2>1 DEF ServerStarts, StepInv, TypeOK, context, command
<1>10. CASE ServerEnds \/ Finished \/ UNCHANGED vars
  BY <1>10 DEF ServerEnds, Finished, vars, StepInv, TypeOK, display, context, command
<1> QED
  BY <1>1, <1>2, <1>3, <1>4, <1>5, <1>6, <1>7, <1>8, <1>9, <1>10, Ending DEF Next, Step

-----------------------------------------------------------------------------
(* Turns *)

\* The lock goes with who has yet to send.
LEMMA NextLock ==
  ASSUME TypeOK, StepInv, LockInv, [Next]_vars
  PROVE  LockInv'
<1>0. \A s \in Shell : todo[s] # <<>> /\ Sends(Tail(todo[s])) => Sends(todo[s])
  BY TailSends DEF TypeOK
<1>1. ASSUME NEW s \in Shell, Leaves(s)
      PROVE  LockInv'
  <2>1. ~Sends(<<>>)
    BY DEF Sends
  <2> QED
    BY <1>1, <2>1, VerbsAssumption DEF Leaves, Exit, Dropped, LockInv, TypeOK
<1>2. ASSUME NEW s \in Shell, \E c \in Command : Run(s, c)
      PROVE  LockInv'
  <2> PICK c \in Command : Run(s, c)
    BY <1>2
  <2>1. /\ pc'[s] \notin {"idle", "lock"} => ~Sends(todo'[s])
        /\ pc'[s] # "idle" /\ lock # s
    BY VerbsAssumption DEF Run, LockInv, TypeOK
  <2>2. \A t \in Shell \ {s} : pc'[t] = pc[t] /\ todo'[t] = todo[t]
    BY DEF Run, TypeOK
  <2> QED
    BY <2>1, <2>2 DEF Run, LockInv
<1>3. ASSUME NEW s \in Shell, TakeLock(s)
      PROVE  LockInv'
  BY <1>3, VerbsAssumption DEF TakeLock, Free, Go, LockInv, TypeOK, command
<1>4. ASSUME NEW s \in Shell,
             Open(s) \/ Load(s) \/ Grab(s) \/ WriteImage(s) \/ Act(s) \/ Done(s)
      PROVE  LockInv'
  BY <1>4 DEF Open, Load, Grab, WriteImage, Act, Done, Go, LockInv, TypeOK, command
<1>5. ASSUME NEW s \in Shell, Read(s)
      PROVE  LockInv'
  BY <1>0, <1>5 DEF Read, At, NextRequest, LockInv, TypeOK
<1>6. ASSUME NEW s \in Shell, SaveView(s) \/ Stamp(s)
      PROVE  LockInv'
  <2>1. pc[s] \in {"save", "stamp"} /\ todo[s] # <<>> /\ todo'[s] = Tail(todo[s])
    BY <1>6 DEF SaveView, Stamp, Go, NextRequest, StepInv, Writing, Acting, TypeOK
  <2>2. pc' = [pc EXCEPT ![s] = "run"] /\ lock' = lock
    BY <1>6 DEF SaveView, Stamp, Go
  <2>3. \A t \in Shell \ {s} : todo'[t] = todo[t]
    BY <1>6 DEF SaveView, Stamp, NextRequest, TypeOK
  <2> QED
    BY <1>0, <2>1, <2>2, <2>3 DEF LockInv, TypeOK
<1>7. CASE ServerStarts \/ ServerEnds \/ Finished \/ UNCHANGED vars
  BY <1>7 DEF ServerStarts, ServerEnds, Finished, vars, LockInv, command
<1> QED
  BY <1>1, <1>2, <1>3, <1>4, <1>5, <1>6, <1>7, Ending DEF Next, Step

\* Whoever sends events has the lock, so there is one.
Alone == \A s, t \in Acting : s = t

LEMMA OneActs == TypeOK /\ StepInv /\ LockInv => Alone
<1> SUFFICES ASSUME TypeOK, StepInv, LockInv PROVE Alone
  OBVIOUS
<1>1. ASSUME NEW s \in Acting
      PROVE  lock = s
  <2>1. s \in Shell /\ todo[s] \in Seq(Request) /\ Sends(todo[s])
    BY <1>1, HeadSends DEF Acting, StepInv, TypeOK
  <2> QED
    BY <1>1, <2>1 DEF Acting, LockInv
<1> QED
  BY <1>1 DEF Alone

\* Events come one command after the other, and their stamps after them.
LEMMA NextStamps ==
  ASSUME TypeOK, StepInv, LockInv, StampInv, InTurn, [Next]_vars
  PROVE  StampInv' /\ InTurn'
<1> USE DEF Acting
<1>0. TypeOK' /\ StepInv' /\ LockInv'
  BY NextTypes, NextSteps, NextLock
<1>a. Alone /\ Alone'
  BY <1>0, OneActs, PTL
<1>b. ASSUME UNCHANGED <<timeline, events>>,
             \A s \in Shell : pc'[s] \in {"acting", "stamp"} =>
               pc[s] \in {"acting", "stamp"} /\ mine'[s] = mine[s]
      PROVE  StampInv' /\ InTurn'
  BY <1>a, <1>b DEF StampInv, InTurn, Alone
<1>1. ASSUME NEW s \in Shell, Act(s)
      PROVE  StampInv' /\ InTurn'
  <2>1. timeline' = timeline /\ events' = events + 1 /\ events \in Nat
    BY <1>1 DEF Act, TypeOK, files
  <2>2. pc'[s] = "acting" /\ mine'[s] = events'
    BY <1>1, <2>1 DEF Act, Go, TypeOK
  <2>3. \A t \in Acting' : t = s
    BY <1>a, <2>2 DEF Alone
  <2>4. \A i \in DOMAIN timeline : timeline[i] \in Nat
    <3>1. timeline \in Seq(Nat)
      BY DEF TypeOK
    <3> QED
      BY <3>1
  <2>5. \A i \in DOMAIN timeline : timeline[i] < events'
    BY <2>1, <2>4 DEF StampInv
  <2>6. \A i \in DOMAIN timeline : timeline[i] <= events'
    BY <2>1, <2>4, <2>5
  <2> QED
    BY <1>a, <2>1, <2>2, <2>3, <2>5, <2>6 DEF StampInv, InTurn, Alone
<1>2. ASSUME NEW s \in Shell, Stamp(s)
      PROVE  StampInv' /\ InTurn'
  <2>1. pc[s] = "stamp" /\ pc'[s] = "run" /\ events' = events /\ events \in Nat
    BY <1>2 DEF Stamp, Go, TypeOK
  <2>2. timeline \in Seq(Nat) /\ timeline' = Append(timeline, events)
    BY <1>2, <2>1 DEF Stamp, StampInv, TypeOK
  <2>3. \A i \in DOMAIN timeline : timeline[i] < events
    BY <2>1 DEF StampInv
  <2>4. \A t \in Shell : t \notin Acting'
    <3>1. \A t \in Shell \ {s} : pc'[t] = pc[t] /\ t \notin Acting
      BY <1>2, <1>a, <2>1 DEF Stamp, Go, TypeOK, Alone
    <3> QED
      BY <2>1, <3>1
  <2>5. /\ DOMAIN timeline' = 1 .. Len(timeline) + 1
        /\ timeline'[Len(timeline) + 1] = events
        /\ \A i \in 1 .. Len(timeline) : timeline'[i] = timeline[i] /\ timeline[i] \in Nat
    BY <2>1, <2>2
  <2>6. \A i \in DOMAIN timeline' : timeline'[i] <= events
    BY <2>1, <2>2, <2>3, <2>5
  <2>7. \A i, j \in DOMAIN timeline' : i < j => timeline'[i] < timeline'[j]
    BY <2>2, <2>3, <2>5 DEF InTurn
  <2> QED
    BY <2>1, <2>4, <2>6, <2>7 DEF StampInv, InTurn
<1>3. ASSUME NEW s \in Shell, Leaves(s)
      PROVE  StampInv' /\ InTurn'
  <2>1. \A t \in Shell : pc'[t] \in {"acting", "stamp"} => pc[t] = pc'[t] /\ mine'[t] = mine[t]
    BY <1>3 DEF Leaves, Exit, TypeOK
  <2> QED
    BY <1>3, <1>b, <2>1 DEF Leaves, Exit, files
<1>4. ASSUME NEW s \in Shell, \E c \in Command : Run(s, c)
      PROVE  StampInv' /\ InTurn'
  <2>1. \A t \in Shell : pc'[t] \in {"acting", "stamp"} => pc[t] = pc'[t] /\ mine'[t] = mine[t]
    BY <1>4 DEF Run, TypeOK, order
  <2> QED
    BY <1>4, <1>b, <2>1 DEF Run, order, files
<1>5. ASSUME NEW s \in Shell,
             \/ TakeLock(s) \/ Open(s) \/ Load(s) \/ Read(s) \/ Grab(s)
             \/ WriteImage(s) \/ SaveView(s) \/ Done(s)
      PROVE  StampInv' /\ InTurn'
  <2>1. UNCHANGED <<timeline, events, mine>>
    BY <1>5 DEF TakeLock, Open, Load, Read, Grab, WriteImage, SaveView, Done, order, files
  <2>2. \A t \in Shell : pc'[t] \in {"acting", "stamp"} => pc[t] \in {"acting", "stamp"}
    BY <1>5 DEF TakeLock, Open, Load, Read, Grab, WriteImage, SaveView, Done, Go, TypeOK
  <2> QED
    BY <1>b, <2>1, <2>2
<1>6. CASE ServerStarts \/ ServerEnds \/ Finished \/ UNCHANGED vars
  BY <1>6, <1>b DEF ServerStarts, ServerEnds, Finished, vars, order, files
<1> QED
  BY <1>1, <1>2, <1>3, <1>4, <1>5, <1>6, Ending DEF Next, Step

LEMMA InitTurn == Init => TurnInv
<1> SUFFICES ASSUME Init PROVE TurnInv
  OBVIOUS
<1> USE DEF Opened, Writing, Acting
<1>1. TypeOK
  <2>1. Identity \in Views
    BY DEF Identity, Views
  <2>2. server \in Seq(Screen) /\ Len(server) <= MaxServers /\ timeline \in Seq(Nat)
    BY VerbsAssumption DEF Init
  <2>3. todo \in [Shell -> Seq(Request)]
    BY DEF Init
  <2>4. conn \in [Shell -> 0 .. MaxServers] /\ faults \in 0 .. MaxFaults /\ runs \in 0 .. MaxRuns
    BY VerbsAssumption DEF Init
  <2> QED
    BY <2>1, <2>2, <2>3, <2>4 DEF Init, TypeOK
<1>2. StepInv /\ LockInv /\ StampInv /\ InTurn
  BY VerbsAssumption DEF Init, StepInv, LockInv, StampInv, InTurn
<1> QED
  BY <1>1, <1>2 DEF TurnInv

\* Between an input and the stamp of it nobody else sends, whatever is killed or
\* runs out of time meanwhile, and the timeline is in the order of the events.
THEOREM Turns == Spec => []TurnInv
<1>1. TurnInv /\ [Next]_vars => TurnInv'
  BY NextTypes, NextSteps, NextLock, NextStamps DEF TurnInv
<1> QED
  BY <1>1, InitTurn, PTL DEF Spec

-----------------------------------------------------------------------------
(* The view *)

\* A view is what its shell was told of, unless another came between.
LEMMA NextSeen ==
  ASSUME TypeOK, StepInv, SeenInv, ScreenInv, [Next]_vars
  PROVE  SeenInv'
<1> USE DEF Opened, Loaded
<1>a. ASSUME UNCHANGED <<view, saw, got, crossed>>,
             \A t \in Shell : Loaded(t) => Loaded(t)'
      PROVE  SeenInv'
  BY <1>a DEF SeenInv
<1>1. ASSUME NEW s \in Shell, Leaves(s)
      PROVE  SeenInv'
  <2>1. /\ view' = view /\ got' = [got EXCEPT ![s] = None]
        /\ pc' = [pc EXCEPT ![s] = "idle"]
    BY <1>1 DEF Leaves, Exit, files
  <2>2. CASE Told(s) /\ UNCHANGED crossed
    BY <2>1, <2>2 DEF Told, SeenInv, TypeOK
  <2>3. CASE crossed' = [crossed EXCEPT ![s] = @ \/ got[s] # None] /\ UNCHANGED saw
    BY <2>1, <2>3 DEF SeenInv, TypeOK
  <2> QED
    BY <1>1, <2>2, <2>3 DEF Leaves
<1>2. ASSUME NEW s \in Shell, SaveView(s)
      PROVE  SeenInv'
  <2>1. pc[s] = "save" /\ pic[s].pic # 0 /\ pic[s] \in Views /\ pic[s] # None
    BY <1>2, VerbsAssumption DEF SaveView, Go, ScreenInv, Writing, TypeOK
  <2>2. /\ view' = pic[s] /\ got' = [got EXCEPT ![s] = pic[s]]
        /\ crossed' = [t \in Shell |-> t # s] /\ pc' = [pc EXCEPT ![s] = "run"]
    BY <1>2 DEF SaveView, Go
  <2> QED
    BY <2>1, <2>2 DEF SeenInv, TypeOK
<1>3. ASSUME NEW s \in Shell, \E c \in Command : Run(s, c)
      PROVE  SeenInv'
  BY <1>3, <1>a DEF Run, TypeOK, files, knowledge
<1>4. ASSUME NEW s \in Shell, Load(s)
      PROVE  SeenInv'
  BY <1>4, <1>a DEF Load, Go, TypeOK, files
<1>5. ASSUME NEW s \in Shell,
             \/ TakeLock(s) \/ Open(s) \/ Read(s) \/ Grab(s)
             \/ WriteImage(s) \/ Act(s) \/ Done(s) \/ Stamp(s)
      PROVE  SeenInv'
  <2>1. UNCHANGED <<view, saw, got, crossed>>
    BY <1>5 DEF TakeLock, Open, Read, Grab, WriteImage, Act, Done, Stamp, files, knowledge
  <2>2. \A t \in Shell : Loaded(t) => Loaded(t)'
    BY <1>5 DEF TakeLock, Open, Read, Grab, WriteImage, Act, Done, Stamp, Go, TypeOK
  <2> QED
    BY <1>a, <2>1, <2>2
<1>6. CASE ServerStarts \/ ServerEnds \/ Finished \/ UNCHANGED vars
  BY <1>6, <1>a DEF ServerStarts, ServerEnds, Finished, vars, files, knowledge
<1> QED
  BY <1>1, <1>2, <1>3, <1>4, <1>5, <1>6, Ending DEF Next, Step

\* The part of ScreenInv that speaks of one shell.
OnScreen(s) ==
  /\ Loaded(s) /\ ctx[s].pic # 0 /\ ~marked[s] => server[conn[s]] = ctx[s].screen
  /\ Loaded(s) /\ meant[s] # None =>
       \/ ctx[s] = meant[s]
       \/ ctx[s].pic = 0 /\ (marked[s] \/ server[conn[s]] # meant[s].screen)
  /\ pc[s] = "acting" => ~marked[s]
  /\ Writing(s) => pic[s].pic # 0 /\ pic[s].screen = server[conn[s]]

\* Steps that leave a shell and its server alone leave it on its screen.
LEMMA ElseOnScreen ==
  ASSUME TypeOK, StepInv, NEW t \in Shell, OnScreen(t),
         pc'[t] = pc[t], ctx'[t] = ctx[t], meant'[t] = meant[t], marked'[t] = marked[t],
         conn'[t] = conn[t], pic'[t] = pic[t], \A i \in DOMAIN server : server'[i] = server[i]
  PROVE  OnScreen(t)'
<1>1. Loaded(t) => conn[t] \in DOMAIN server
  BY DEF StepInv, Loaded
<1> QED
  BY <1>1 DEF OnScreen, Loaded, Opened, Writing

\* A view fits the screen it is loaded or saved for, and nothing is done by it
\* once another server was met.
LEMMA NextScreen ==
  ASSUME TypeOK, StepInv, SeenInv, ScreenInv, [Next]_vars
  PROVE  ScreenInv'
<1> USE DEF Opened, Loaded, Writing
<1>0. \A s \in Shell : OnScreen(s)
  BY DEF ScreenInv, OnScreen
<1>a. SUFFICES \A s \in Shell : OnScreen(s)'
  BY DEF ScreenInv, OnScreen
<1>b. ASSUME NEW s \in Shell, server' = server, OnScreen(s)',
             \A t \in Shell \ {s} :
               /\ pc'[t] = pc[t] /\ ctx'[t] = ctx[t] /\ meant'[t] = meant[t]
               /\ marked'[t] = marked[t] /\ conn'[t] = conn[t] /\ pic'[t] = pic[t]
      PROVE  \A t \in Shell : OnScreen(t)'
  BY <1>0, <1>b, ElseOnScreen
<1>1. ASSUME NEW s \in Shell, Leaves(s)
      PROVE  \A t \in Shell : OnScreen(t)'
  <2>1. pc'[s] = "idle" /\ server' = server
    BY <1>1 DEF Leaves, Exit, TypeOK, display
  <2>2. OnScreen(s)'
    BY <2>1 DEF OnScreen
  <2> QED
    BY <1>1, <1>b, <2>1, <2>2 DEF Leaves, Exit, TypeOK
<1>2. ASSUME NEW s \in Shell, \E c \in Command : Run(s, c)
      PROVE  \A t \in Shell : OnScreen(t)'
  <2>1. pc'[s] \in {"lock", "open"} /\ server' = server
    BY <1>2 DEF Run, TypeOK, display
  <2>2. OnScreen(s)'
    BY <2>1 DEF OnScreen
  <2> QED
    BY <1>2, <1>b, <2>1, <2>2 DEF Run, TypeOK, context, knowledge
<1>3. ASSUME NEW s \in Shell, TakeLock(s) \/ Open(s)
      PROVE  \A t \in Shell : OnScreen(t)'
  <2>1. pc'[s] \in {"open", "load"} /\ server' = server
    BY <1>3 DEF TakeLock, Open, Go, TypeOK, display
  <2>2. OnScreen(s)'
    BY <2>1 DEF OnScreen
  <2> QED
    BY <1>3, <1>b, <2>1, <2>2 DEF TakeLock, Open, Go, TypeOK, context, knowledge
<1>4. ASSUME NEW s \in Shell, Load(s)
      PROVE  \A t \in Shell : OnScreen(t)'
  <2>1. /\ pc[s] = "load" /\ pc'[s] = "run" /\ server' = server /\ conn' = conn
        /\ marked' = marked
    BY <1>4 DEF Load, Go, TypeOK, display
  <2>2. ctx'[s] = IF Fits(view, server[conn[s]]) THEN view ELSE Identity
    BY <1>4 DEF Load, TypeOK
  <2>3. meant'[s] # None => meant'[s] = view
    BY <1>4, <2>1 DEF Load, SeenInv, TypeOK
  <2>4. OnScreen(s)'
    BY <2>1, <2>2, <2>3 DEF OnScreen, Fits, SeenInv, Identity
  <2> QED
    BY <1>4, <1>b, <2>1, <2>4 DEF Load, Go, TypeOK
<1>5. ASSUME NEW s \in Shell, Read(s)
      PROVE  \A t \in Shell : OnScreen(t)'
  <2>1. /\ pc[s] = "run" /\ UNCHANGED <<pc, ctx, meant, pic, server>>
    BY <1>5 DEF Read, At, display, knowledge
  <2>2. \/ conn' = conn /\ marked' = marked
        \/ marked'[s] = TRUE
    BY <1>5 DEF Read, Reads, TypeOK
  <2>3. OnScreen(s)'
    BY <1>0, <2>1, <2>2 DEF OnScreen
  <2>4. \A t \in Shell \ {s} : marked'[t] = marked[t] /\ conn'[t] = conn[t]
    BY <1>5 DEF Read, Reads, TypeOK
  <2> QED
    BY <1>b, <2>1, <2>3, <2>4
<1>6. ASSUME NEW s \in Shell, Grab(s)
      PROVE  \A t \in Shell : OnScreen(t)'
  <2>1. /\ pc[s] = "run" /\ pc'[s] = "write" /\ UNCHANGED <<ctx, meant, server>>
    BY <1>6 DEF Grab, Go, TypeOK, display, knowledge
  <2>2. \/ conn' = conn /\ marked' = marked
        \/ marked'[s] = TRUE
    BY <1>6 DEF Grab, Reads, TypeOK
  <2>3. conn'[s] = Len(server)
    BY <1>6 DEF Grab, Reads, Alive, TypeOK
  <2>4. pic'[s] = [pic |-> pictures + 1, screen |-> server[Len(server)]]
    BY <1>6 DEF Grab, TypeOK
  <2>5. pictures + 1 # 0
    BY DEF TypeOK
  <2>6. OnScreen(s)'
    BY <1>0, <2>1, <2>2, <2>3, <2>4, <2>5 DEF OnScreen
  <2>7. \A t \in Shell \ {s} : marked'[t] = marked[t] /\ conn'[t] = conn[t]
    BY <1>6 DEF Grab, Reads, TypeOK
  <2> QED
    BY <1>6, <1>b, <2>1, <2>6, <2>7 DEF Grab, Go, TypeOK
<1>7. ASSUME NEW s \in Shell, SaveView(s)
      PROVE  \A t \in Shell : OnScreen(t)'
  <2>1. /\ pc[s] = "save" /\ pc'[s] = "run" /\ UNCHANGED <<server, conn, marked, pic>>
        /\ ctx'[s] = pic[s] /\ meant'[s] = pic[s]
    BY <1>7 DEF SaveView, Go, TypeOK, display
  <2>2. OnScreen(s)'
    BY <1>0, <2>1 DEF OnScreen
  <2> QED
    BY <1>7, <1>b, <2>1, <2>2 DEF SaveView, Go, TypeOK
<1>8. ASSUME NEW s \in Shell, WriteImage(s) \/ Act(s) \/ Done(s) \/ Stamp(s)
      PROVE  \A t \in Shell : OnScreen(t)'
  <2>1. /\ Loaded(s) /\ UNCHANGED <<server, conn, marked, pic, ctx, meant>>
        /\ Writing(s)' => Writing(s)
        /\ pc'[s] = "acting" => ~marked[s]
    BY <1>8 DEF WriteImage, Act, At, Done, Stamp, Go, TypeOK, display, context, knowledge
  <2>2. OnScreen(s)'
    BY <1>0, <2>1 DEF OnScreen
  <2> QED
    BY <1>8, <1>b, <2>1, <2>2 DEF WriteImage, Act, Done, Stamp, Go, TypeOK
<1>9. CASE ServerStarts
  <2>1. \A i \in DOMAIN server : server'[i] = server[i]
    BY <1>9 DEF ServerStarts, TypeOK
  <2> QED
    BY <1>0, <1>9, <2>1, ElseOnScreen DEF ServerStarts, context, knowledge
<1>10. CASE ServerEnds \/ Finished \/ UNCHANGED vars
  BY <1>0, <1>10, ElseOnScreen DEF ServerEnds, Finished, vars, display, context, knowledge
<1> QED
  BY <1>1, <1>2, <1>3, <1>4, <1>5, <1>6, <1>7, <1>8, <1>9, <1>10, Ending DEF Next, Step

-----------------------------------------------------------------------------
(* The image beside the view *)

\* Who writes alone writes the picture taken last, and leaves the image and the
\* view of it; who does not finish, or not alone, is torn.
LEMMA NextImage ==
  ASSUME TypeOK, StepInv, ImageInv, [Next]_vars
  PROVE  ImageInv'
<1> USE DEF Writing
<1>a. ASSUME UNCHANGED <<image, view, pictures, pic, torn, beside, cmd>>,
             \A t \in Shell : Writing(t)' <=> Writing(t),
             \A t \in Shell : (pc[t] = "save")' <=> pc[t] = "save"
      PROVE  ImageInv'
  BY <1>a DEF ImageInv, Agree
<1>1. ASSUME NEW s \in Shell, Leaves(s)
      PROVE  ImageInv'
  <2>1. /\ UNCHANGED <<image, view, pictures>> /\ torn' = (torn \/ Writing(s))
        /\ ~Writing(s)'
    BY <1>1 DEF Leaves, Exit, TypeOK, files
  <2>2. \A t \in Shell \ {s} :
          pc'[t] = pc[t] /\ beside'[t] = beside[t] /\ pic'[t] = pic[t] /\ cmd'[t] = cmd[t]
    BY <1>1 DEF Leaves, Exit, TypeOK
  <2>3. ASSUME ~torn', \A t \in Shell : ~Writing(t)'
        PROVE  Agree
    <3>1. ~torn /\ ~Writing(s)
      BY <2>1, <2>3
    <3>2. \A t \in Shell : ~Writing(t)
      BY <2>2, <2>3, <3>1
    <3> QED
      BY <3>1, <3>2 DEF ImageInv
  <2> QED
    BY <2>1, <2>2, <2>3 DEF ImageInv, Agree
<1>2. ASSUME NEW s \in Shell, \E c \in Command : Run(s, c)
      PROVE  ImageInv'
  <2>1. /\ UNCHANGED <<image, view, pictures, pic, torn, beside>>
        /\ \A t \in Shell : (Writing(t)' <=> Writing(t)) /\ (pc'[t] = "save" <=> pc[t] = "save")
        /\ \A t \in Shell : Writing(t) => cmd'[t] = cmd[t]
    BY <1>2 DEF Run, TypeOK, files, context, tears
  <2> QED
    BY <2>1 DEF ImageInv, Agree
<1>3. ASSUME NEW s \in Shell, Grab(s)
      PROVE  ImageInv'
  <2>1. /\ UNCHANGED <<image, view, torn, cmd>> /\ pictures' = pictures + 1
        /\ pictures \in Nat /\ \A b \in BOOLEAN : image[b] \in Nat
    BY <1>3 DEF Grab, TypeOK, files, command
  <2>2. /\ ~Writing(s) /\ pc' = [pc EXCEPT ![s] = "write"]
        /\ pic'[s].pic = pictures' /\ \A t \in Shell \ {s} : pic'[t] = pic[t]
    BY <1>3 DEF Grab, Go, TypeOK
  <2>3. \A t \in Shell : pic[t].pic \in Nat
    BY DEF TypeOK, Views
  <2>4. /\ beside'[s] = \E u \in Shell : Writing(u)
        /\ \A t \in Shell \ {s} : beside'[t] = (beside[t] \/ Writing(t))
    BY <1>3 DEF Grab
  <2>5. /\ \A b \in BOOLEAN : image'[b] <= pictures'
        /\ \A t \in Shell : Writing(t)' => pic'[t].pic <= pictures'
    <3>1. \A b \in BOOLEAN : image[b] <= pictures
      BY DEF ImageInv
    <3>2. \A b \in BOOLEAN : image'[b] <= pictures'
      BY <2>1, <3>1
    <3>3. ASSUME NEW t \in Shell, Writing(t)'
          PROVE  pic'[t].pic <= pictures'
      <4>1. CASE t = s
        BY <2>1, <2>2, <4>1
      <4>2. CASE t # s
        <5>1. Writing(t) /\ pic'[t] = pic[t]
          BY <2>2, <3>3, <4>2 DEF TypeOK
        <5>2. pic[t].pic <= pictures
          BY <5>1 DEF ImageInv
        <5> QED
          BY <2>1, <2>3, <5>1, <5>2
      <4> QED
        BY <4>1, <4>2
    <3> QED
      BY <3>2, <3>3
  <2>6. ASSUME NEW t \in Shell, Writing(t)', ~beside'[t]
        PROVE  t = s /\ \A u \in Shell \ {s} : ~Writing(u)'
    BY <2>2, <2>4, <2>6 DEF TypeOK
  <2>7. Writing(s)' /\ pc'[s] # "save"
    BY <2>2 DEF TypeOK
  <2> QED
    BY <2>1, <2>2, <2>5, <2>6, <2>7 DEF ImageInv
<1>4. ASSUME NEW s \in Shell, WriteImage(s)
      PROVE  ImageInv'
  <2>1. /\ UNCHANGED <<view, pictures, pic, torn, beside, cmd>>
        /\ pc[s] = "write" /\ pc' = [pc EXCEPT ![s] = "save"]
        /\ image' = [image EXCEPT ![cmd[s].batch] = pic[s].pic]
    BY <1>4 DEF WriteImage, Go, command, context, counts, tears
  <2>2. cmd[s].batch \in BOOLEAN
    BY <2>1, VerbsAssumption DEF StepInv
  <2>3. \A t \in Shell : Writing(t)' <=> Writing(t)
    BY <2>1 DEF TypeOK
  <2>4. \A b \in BOOLEAN : image'[b] <= pictures
    BY <2>1, <2>2 DEF ImageInv, TypeOK
  <2>5. ASSUME NEW t \in Shell, Writing(t), ~beside[t], pc'[t] = "save"
        PROVE  image'[cmd[t].batch] = pictures
    <3>1. t = s
      BY <2>1, <2>5 DEF ImageInv
    <3> QED
      BY <2>1, <2>2, <2>5, <3>1 DEF ImageInv, TypeOK
  <2>6. Writing(s)'
    BY <2>1 DEF TypeOK
  <2> QED
    BY <2>1, <2>3, <2>4, <2>5, <2>6 DEF ImageInv
<1>5. ASSUME NEW s \in Shell, SaveView(s)
      PROVE  ImageInv'
  <2>1. /\ UNCHANGED <<image, pictures, pic, cmd>> /\ view' = pic[s] /\ torn' = beside[s]
        /\ pc[s] = "save" /\ pc' = [pc EXCEPT ![s] = "run"]
        /\ beside' = [beside EXCEPT ![s] = FALSE]
    BY <1>5 DEF SaveView, Go, counts
  <2>2. /\ ~Writing(s)' /\ \A t \in Shell \ {s} : beside'[t] = beside[t] /\ pc'[t] = pc[t]
    BY <2>1 DEF TypeOK
  <2>3. cmd[s].batch \in BOOLEAN
    BY <2>1, VerbsAssumption DEF StepInv
  <2>4. ~beside[s] => Agree'
    BY <2>1, <2>3 DEF ImageInv, Agree
  <2> QED
    BY <2>1, <2>2, <2>4 DEF ImageInv
<1>6. ASSUME NEW s \in Shell,
             TakeLock(s) \/ Open(s) \/ Load(s) \/ Read(s) \/ Act(s) \/ Done(s) \/ Stamp(s)
      PROVE  ImageInv'
  <2>1. UNCHANGED <<image, view, pictures, pic, torn, beside, cmd>>
    BY <1>6 DEF TakeLock, Open, Load, Read, Act, Done, Stamp, files, command, context, counts,
                tears
  <2>2. \A t \in Shell : (Writing(t)' <=> Writing(t)) /\ (pc'[t] = "save" <=> pc[t] = "save")
    BY <1>6 DEF TakeLock, Open, Load, Read, Act, Done, Stamp, Go, TypeOK
  <2> QED
    BY <1>a, <2>1, <2>2
<1>7. CASE ServerStarts \/ ServerEnds \/ Finished \/ UNCHANGED vars
  BY <1>7, <1>a DEF ServerStarts, ServerEnds, Finished, vars, files, context, counts, tears,
                    command
<1> QED
  BY <1>1, <1>2, <1>3, <1>4, <1>5, <1>6, <1>7, Ending DEF Next, Step

-----------------------------------------------------------------------------

\* What the three invariants say of coordinates and of the image.
LEMMA ViewHolds == SeenInv /\ ScreenInv /\ ImageInv => ViewInv
<1> SUFFICES ASSUME SeenInv, ScreenInv, ImageInv PROVE ViewInv
  OBVIOUS
<1>1. AimsAtScreen
  BY DEF ScreenInv, AimsAtScreen, Loaded, Opened
<1>2. AimsAtSeen
  BY DEF ScreenInv, AimsAtSeen, Loaded, Opened, At
<1>3. ImageIsView
  BY DEF ImageInv, ImageIsView, Idle, Writing
<1> QED
  BY <1>1, <1>2, <1>3 DEF ViewInv

LEMMA InitView == Init => ViewInv
<1> SUFFICES ASSUME Init PROVE ViewInv
  OBVIOUS
<1>1. \A s \in Shell : pc[s] = "idle" /\ got[s] = None /\ saw[s] = Identity
  BY DEF Init
<1>2. SeenInv
  BY <1>1 DEF Init, SeenInv, Loaded, Opened
<1>3. ScreenInv
  BY <1>1 DEF ScreenInv, Loaded, Opened, Writing
<1>4. ImageInv
  <2>1. Agree /\ \A b \in BOOLEAN : image[b] <= pictures
    <3>1. view.pic = 0 /\ pictures = 0 /\ \A b \in BOOLEAN : image[b] = 0
      BY DEF Init, Identity
    <3>2. 0 <= 0 /\ TRUE \in BOOLEAN
      OBVIOUS
    <3> QED
      BY <3>1, <3>2, Zenon DEF Agree
  <2> QED
    BY <1>1, <2>1 DEF ImageInv, Writing
<1> QED
  BY <1>2, <1>3, <1>4, ViewHolds

\* Whatever shells, servers and restarts come between a picture and an input or a
\* zoom that refers to it, their coordinates are those of the picture the shell was
\* told of last, on a screen like it, and the image on the disk is of the view.
THEOREM CoordinatesHold == Spec => []ViewInv
<1>1. TurnInv /\ ViewInv /\ [Next]_vars => ViewInv'
  <2> SUFFICES ASSUME TurnInv, ViewInv, [Next]_vars PROVE ViewInv'
    OBVIOUS
  <2>1. SeenInv' /\ ScreenInv' /\ ImageInv'
    BY NextSeen, NextScreen, NextImage DEF TurnInv, ViewInv
  <2> QED
    BY <2>1, ViewHolds, PTL
<1> QED
  BY <1>1, InitView, Turns, PTL DEF Spec

===============================================================================
