------------------------------ MODULE LockExcl ------------------------------
(***************************************************************************)
(* The lock file that stands in for flock (xvfb.rs, State::lock_excl):     *)
(* lock.excl is created O_EXCL and then given its holder's pid and start   *)
(* time; who finds it reads it, removes it when the process it names is    *)
(* dead, and otherwise tries again until its deadline; the holder removes  *)
(* it by name when it lets go (StateLock::drop).  Each call to the file    *)
(* system is one step, and a process may end between any two: killed, or,  *)
(* once it let go of the lock, because its command is done.                *)
(***************************************************************************)
EXTENDS Naturals, FiniteSets

CONSTANTS
  Process,    \* the xcua processes of one state directory
  NoFile,     \* what there is when lock.excl is not
  MaxMishaps  \* bound: ends of processes, and writes that fail

ASSUME LockAssumption ==
  /\ NoFile \notin [by : Process, named : BOOLEAN]
  /\ MaxMishaps \in Nat

VARIABLES
  at,      \* at[p]: where p is in lock_excl, or that it holds the lock
  file,    \* lock.excl: who created it, and whether it says so yet
  seen,    \* seen[p]: what p read, NoFile when it was gone by then
  dead,    \* the processes that ended
  mishaps, \* how many of these happened
  wrong    \* history: some process removed another file than it had read

lockVars == <<at, file, seen, dead, mishaps, wrong>>

File == [by : Process, named : BOOLEAN]
Places == {"idle", "open", "write", "held", "read", "judge", "break", "dead"}

LockTypeOK ==
  /\ at \in [Process -> Places]
  /\ file \in File \cup {NoFile}
  /\ seen \in [Process -> File \cup {NoFile}]
  /\ dead \subseteq Process
  /\ mishaps \in 0 .. MaxMishaps
  /\ wrong \in BOOLEAN

LockInit ==
  /\ at = [p \in Process |-> "idle"]
  /\ file = NoFile
  /\ seen = [p \in Process |-> NoFile]
  /\ dead = {}
  /\ mishaps = 0
  /\ wrong = FALSE

Proceeds(p, from, to) == at[p] = from /\ at' = [at EXCEPT ![p] = to]

Try(p) ==
  /\ Proceeds(p, "idle", "open")
  /\ UNCHANGED <<file, seen, dead, mishaps, wrong>>

\* Slip: the file is created whether it exists or not.
CreateAnyway(p) ==
  /\ Proceeds(p, "open", "write")
  /\ file' = [by |-> p, named |-> FALSE]
  /\ UNCHANGED <<seen, dead, mishaps, wrong>>

\* create_new succeeds.
Create(p) ==
  /\ Proceeds(p, "open", "write")
  /\ file = NoFile
  /\ file' = [by |-> p, named |-> FALSE]
  /\ UNCHANGED <<seen, dead, mishaps, wrong>>

\* The file goes to its open descriptor: it is named only if it is still there.
Name(p) ==
  /\ Proceeds(p, "write", "held")
  /\ file' = IF file = [by |-> p, named |-> FALSE]
             THEN [by |-> p, named |-> TRUE] ELSE file
  /\ UNCHANGED <<seen, dead, mishaps, wrong>>

\* The write fails: lock_excl returns the error and leaves the file.
NameFails(p) ==
  /\ Proceeds(p, "write", "idle")
  /\ mishaps < MaxMishaps
  /\ mishaps' = mishaps + 1
  /\ UNCHANGED <<file, seen, dead, wrong>>

\* The lock is dropped: the file of this name is removed, whoever's it is.
Release(p) ==
  /\ Proceeds(p, "held", "idle")
  /\ file' = NoFile
  /\ UNCHANGED <<seen, dead, mishaps, wrong>>

\* create_new fails with EEXIST ...
Exists(p) ==
  /\ Proceeds(p, "open", "read")
  /\ file # NoFile
  /\ UNCHANGED <<file, seen, dead, mishaps, wrong>>

\* ... and what the file says is read, if it is still there.
Read(p) ==
  /\ Proceeds(p, "read", "judge")
  /\ seen' = [seen EXCEPT ![p] = file]
  /\ UNCHANGED <<file, dead, mishaps, wrong>>

\* Slip: a lock is never found stale.
NeverStale(p) == FALSE

\* What was read names a process, and that process is dead.
Stale(p) == seen[p] # NoFile /\ seen[p].named /\ seen[p].by \in dead

\* Slip: every lock that is found is broken.
FindStaleAlways(p) ==
  /\ Proceeds(p, "judge", "break")
  /\ UNCHANGED <<file, seen, dead, mishaps, wrong>>

FindStale(p) ==
  /\ Proceeds(p, "judge", "break")
  /\ Stale(p)
  /\ UNCHANGED <<file, seen, dead, mishaps, wrong>>

\* The file of this name is removed, whichever it is by now.
Break(p) ==
  /\ Proceeds(p, "break", "open")
  /\ file' = NoFile
  /\ wrong' = (wrong \/ file \notin {NoFile, seen[p]})
  /\ UNCHANGED <<seen, dead, mishaps>>

Retry(p) ==
  /\ Proceeds(p, "judge", "open")
  /\ ~Stale(p)
  /\ UNCHANGED <<file, seen, dead, mishaps, wrong>>

\* The deadline is over.
GiveUp(p) ==
  /\ Proceeds(p, "judge", "idle")
  /\ ~Stale(p)
  /\ UNCHANGED <<file, seen, dead, mishaps, wrong>>

\* The process ends, whatever it is at.
Die(p) ==
  /\ at[p] # "dead"
  /\ mishaps < MaxMishaps
  /\ mishaps' = mishaps + 1
  /\ at' = [at EXCEPT ![p] = "dead"]
  /\ dead' = dead \cup {p}
  /\ UNCHANGED <<file, seen, wrong>>

Step(p) ==
  \/ Try(p) \/ Create(p) \/ Name(p) \/ Release(p) \/ Exists(p) \/ Read(p)
  \/ FindStale(p) \/ Break(p) \/ Retry(p) \/ GiveUp(p)

LockNext == \E p \in Process : Step(p) \/ NameFails(p) \/ Die(p)

LockSpec == LockInit /\ [][LockNext]_lockVars

\* A process runs until it dies, and xcua is called again and again.
LockFairSpec == LockSpec /\ \A p \in Process : WF_lockVars(Step(p))

-----------------------------------------------------------------------------
(* Properties *)

\* Two processes hold the lock at once only after one of them, or a third,
\* removed a lock file that was not the one it had found stale.
ExclusiveTillWrong ==
  ~wrong => \A p, q \in Process : at[p] = "held" /\ at[q] = "held" => p = q

\* As long as no process ends the lock is exclusive, failed writes or not.
ExclusiveAmongLive ==
  dead = {} => \A p, q \in Process : at[p] = "held" /\ at[q] = "held" => p = q

\* The lock of a process that died holding it is broken, if anyone still runs.
NamedLockGoes ==
  \A p \in Process :
    file = [by |-> p, named |-> TRUE] /\ p \in dead ~> file # [by |-> p, named |-> TRUE]

-----------------------------------------------------------------------------
(* The inductive invariant of the proofs *)

\* Who is about to break a lock read the name of a dead process.
BreakInv == \A p \in Process : at[p] = "break" => Stale(p)

\* The dead are where they are, and nobody is wrong before somebody ended.
DeadInv ==
  /\ \A p \in Process : at[p] = "dead" <=> p \in dead
  /\ wrong => dead # {}

\* Who created the file and has not let go of it still has it.
OwnerInv ==
  ~wrong => \A p \in Process :
              /\ at[p] = "held" => file = [by |-> p, named |-> TRUE]
              /\ at[p] = "write" => file = [by |-> p, named |-> FALSE]

LockInv == LockTypeOK /\ BreakInv /\ DeadInv /\ OwnerInv
=============================================================================
