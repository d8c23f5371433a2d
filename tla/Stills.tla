------------------------------- MODULE Stills -------------------------------
(***************************************************************************)
(* The directories of the stills recorder (record.rs: Recorder::start,     *)
(* Loop::tick and finish, hold_active, is_active, prune).  A recording     *)
(* writes its stills into <name>.frames and holds a flock on the file      *)
(* .active there; whoever starts another one first prunes the older        *)
(* directories, skipping those whose .active is locked.  Recorders of any  *)
(* number of processes share the directory of the recordings and nothing   *)
(* else.                                                                   *)
(*                                                                         *)
(* A lock belongs to an open file, which may have been removed from its    *)
(* directory meanwhile, so files have an identity of their own (Inode).    *)
(* Each system call that matters is a step; remove_dir_all is two, the     *)
(* files and the directory.  Which directories are the older ones is left  *)
(* open, as an idle recording's directory may be as old as any.  Pictures, *)
(* pacing and byte budgets are left out: a recording writes stills until   *)
(* it ends.                                                                *)
(***************************************************************************)
EXTENDS Naturals, FiniteSets

CONSTANTS
  Recorder,   \* recorders, each one recording after another
  Name,       \* the names recordings are given
  Inode,      \* files that may be some .active; bound: how many
  Nothing,
  Keep        \* what prune is called with: KEEP, or less in a test

ASSUME StillsAssumption ==
  /\ Nothing \notin Recorder \cup Inode \cup Name
  /\ IsFiniteSet(Name)
  /\ Keep \subseteq Nat \ {0}

VARIABLES
  dir,      \* the names with a directory
  active,   \* active[n]: the file .active of directory n
  stills,   \* stills[n]: whose stills are in it
  tmps,     \* tmps[n]: whose half-written still is in it
  flock,    \* flock[i]: who holds the lock on the file
  pc,       \* pc[r]: the next thing r does
  name,     \* name[r]: the recording r starts or makes
  fd,       \* fd[r]: the .active r has open
  look,     \* look[r]: directories r has yet to look at, or to tidy
  old,      \* old[r]: those found idle, then those to remove
  spared,   \* history: spared[r]: who records since before r began to prune
  stray     \* history: a recording locked an .active that was removed, or
            \* had its own removed

disk == <<dir, active, stills, tmps>>
mine == <<name, look, old>>
stillsVars == <<disk, flock, pc, mine, fd, spared, stray>>

\* The recorder has the lock, has answered that it records.
Holding == {"clear", "first", "record", "rename", "unlink"}
Filming == {"record", "rename"}
Where == Holding \cup {"idle", "look", "probe", "tidy", "rmdir", "open", "lock", "close"}

StillsTypeOK ==
  /\ dir \subseteq Name
  /\ active \in [Name -> Inode \cup {Nothing}]
  /\ stills \in [Name -> SUBSET Recorder]
  /\ tmps \in [Name -> SUBSET Recorder]
  /\ \A n \in Name \ dir : active[n] = Nothing /\ stills[n] = {} /\ tmps[n] = {}
  /\ flock \in [Inode -> Recorder \cup {Nothing}]
  /\ pc \in [Recorder -> Where]
  /\ name \in [Recorder -> Name \cup {Nothing}]
  /\ fd \in [Recorder -> Inode \cup {Nothing}]
  /\ look \in [Recorder -> SUBSET Name]
  /\ old \in [Recorder -> SUBSET Name]
  /\ spared \in [Recorder -> SUBSET Recorder]
  /\ stray \in BOOLEAN

StillsInit ==
  /\ dir = {}
  /\ active = [n \in Name |-> Nothing]
  /\ stills = [n \in Name |-> {}]
  /\ tmps = [n \in Name |-> {}]
  /\ flock = [i \in Inode |-> Nothing]
  /\ pc = [r \in Recorder |-> "idle"]
  /\ name = [r \in Recorder |-> Nothing]
  /\ fd = [r \in Recorder |-> Nothing]
  /\ look = [r \in Recorder |-> {}]
  /\ old = [r \in Recorder |-> {}]
  /\ spared = [r \in Recorder |-> {}]
  /\ stray = FALSE

Go(r, to) == pc' = [pc EXCEPT ![r] = to]

\* The file r has open is closed, and its lock with it.
Release(r) ==
  /\ fd' = [fd EXCEPT ![r] = Nothing]
  /\ flock' = [i \in Inode |-> IF flock[i] = r /\ fd[r] = i THEN Nothing ELSE flock[i]]

\* r is not recording any more, or not yet.
Forget(r) == spared' = [q \in Recorder |-> spared[q] \ {r}]

\* The command of r is over, with a recording behind it or an error.
Over(r) ==
  /\ Go(r, "idle")
  /\ name' = [name EXCEPT ![r] = Nothing]
  /\ look' = [look EXCEPT ![r] = {}]
  /\ old' = [old EXCEPT ![r] = {}]
  /\ Release(r)
  /\ Forget(r)

-----------------------------------------------------------------------------
(* prune *)

Begin(r, n) ==
  /\ pc[r] = "idle"
  /\ Go(r, "look")
  /\ name' = [name EXCEPT ![r] = n]
  /\ look' = [look EXCEPT ![r] = dir \ {n}]
  /\ old' = [old EXCEPT ![r] = {}]
  /\ spared' = [spared EXCEPT ![r] = {q \in Recorder : pc[q] \in Filming}]
  /\ UNCHANGED <<disk, flock, fd, stray>>

\* is_active: the lock is somebody's.  Or the directory has gone before that.
LookPast(r, m) ==
  /\ pc[r] = "look" /\ m \in look[r]
  /\ m \in dir => active[m] # Nothing /\ flock[active[m]] # Nothing
  /\ look' = [look EXCEPT ![r] = @ \ {m}]
  /\ UNCHANGED <<disk, flock, pc, name, old, fd, spared, stray>>

\* Slip: is_active fails to see the lock.
LookFreeAlways(r, m) ==
  /\ pc[r] = "look" /\ m \in look[r]
  /\ look' = [look EXCEPT ![r] = @ \ {m}]
  /\ old' = [old EXCEPT ![r] = @ \cup {m}]
  /\ UNCHANGED <<disk, flock, pc, name, fd, spared, stray>>

\* is_active: there is no .active, or no directory any more.
LookFree(r, m) ==
  /\ pc[r] = "look" /\ m \in look[r]
  /\ active[m] = Nothing
  /\ look' = [look EXCEPT ![r] = @ \ {m}]
  /\ old' = [old EXCEPT ![r] = @ \cup {m}]
  /\ UNCHANGED <<disk, flock, pc, name, fd, spared, stray>>

\* is_active: the probe itself takes the lock, and keeps it until the file is
\* closed.
LookTakes(r, m) ==
  /\ pc[r] = "look" /\ m \in look[r]
  /\ active[m] # Nothing /\ flock[active[m]] = Nothing
  /\ flock' = [flock EXCEPT ![active[m]] = r]
  /\ fd' = [fd EXCEPT ![r] = active[m]]
  /\ Go(r, "probe")
  /\ look' = [look EXCEPT ![r] = @ \ {m}]
  /\ old' = [old EXCEPT ![r] = @ \cup {m}]
  /\ UNCHANGED <<disk, name, spared, stray>>

LookDrops(r) ==
  /\ pc[r] = "probe"
  /\ Release(r)
  /\ Go(r, "look")
  /\ UNCHANGED <<disk, mine, spared, stray>>

\* All are looked at; all but the newest keep - 1 of the idle ones will go.
Sort(r) ==
  /\ pc[r] = "look" /\ look[r] = {}
  /\ \E keep \in Keep, kept \in SUBSET old[r] :
       /\ Cardinality(kept) <= keep - 1
       /\ Cardinality(kept) = keep - 1 \/ kept = old[r]
       /\ look' = [look EXCEPT ![r] = kept]
       /\ old' = [old EXCEPT ![r] = @ \ kept]
  /\ Go(r, "tidy")
  /\ UNCHANGED <<disk, flock, name, fd, spared, stray>>

\* Half-written stills of a kept directory go.
Tidy(r, m) ==
  /\ pc[r] = "tidy" /\ m \in look[r]
  /\ tmps' = [tmps EXCEPT ![m] = {}]
  /\ look' = [look EXCEPT ![r] = @ \ {m}]
  /\ UNCHANGED <<dir, active, stills, flock, pc, name, old, fd, spared, stray>>

\* remove_dir_all: what is in the directory ...
Remove(r, m) ==
  /\ pc[r] = "tidy" /\ look[r] = {} /\ m \in old[r]
  /\ active' = [active EXCEPT ![m] = Nothing]
  /\ stills' = [stills EXCEPT ![m] = {}]
  /\ tmps' = [tmps EXCEPT ![m] = {}]
  /\ stray' = (stray \/ \E q \in Recorder : pc[q] \in Holding /\ name[q] = m)
  /\ look' = [look EXCEPT ![r] = {m}]
  /\ old' = [old EXCEPT ![r] = @ \ {m}]
  /\ Go(r, "rmdir")
  /\ UNCHANGED <<dir, flock, name, fd, spared>>

Empty(m) == active[m] = Nothing /\ stills[m] = {} /\ tmps[m] = {}

\* ... and the directory, unless something was put there meanwhile.
Rmdir(r) ==
  /\ pc[r] = "rmdir"
  /\ dir' = dir \ {m \in look[r] : Empty(m)}
  /\ look' = [look EXCEPT ![r] = {}]
  /\ Go(r, "tidy")
  /\ UNCHANGED <<active, stills, tmps, flock, name, old, fd, spared, stray>>

-----------------------------------------------------------------------------
(* The start of a recording *)

Mkdir(r) ==
  /\ pc[r] = "tidy" /\ look[r] = {} /\ old[r] = {}
  /\ dir' = dir \cup {name[r]}
  /\ Go(r, "open")
  /\ UNCHANGED <<active, stills, tmps, flock, mine, fd, spared, stray>>

\* Files nobody has open and no directory has.
Fresh == {i \in Inode : i \notin {active[n] : n \in Name} \cup {fd[q] : q \in Recorder}}

\* hold_active: open, creating what is not there.
Open(r) ==
  /\ pc[r] = "open" /\ name[r] \in dir
  /\ active[name[r]] = Nothing => Fresh # {}
  /\ LET i == IF active[name[r]] = Nothing THEN CHOOSE i \in Fresh : TRUE ELSE active[name[r]]
     IN /\ active' = [active EXCEPT ![name[r]] = i]
        /\ fd' = [fd EXCEPT ![r] = i]
  /\ Go(r, "lock")
  /\ UNCHANGED <<dir, stills, tmps, flock, mine, spared, stray>>

\* Slip: the answer of flock is not looked at.
LockAnyway(r) ==
  /\ pc[r] = "lock"
  /\ flock' = [flock EXCEPT ![fd[r]] = r]
  /\ stray' = (stray \/ active[name[r]] # fd[r])
  /\ Go(r, "clear")
  /\ UNCHANGED <<disk, mine, fd, spared>>

\* hold_active: flock.  The file may have been removed since it was opened.
Lock(r) ==
  /\ pc[r] = "lock" /\ flock[fd[r]] = Nothing
  /\ flock' = [flock EXCEPT ![fd[r]] = r]
  /\ stray' = (stray \/ active[name[r]] # fd[r])
  /\ Go(r, "clear")
  /\ UNCHANGED <<disk, mine, fd, spared>>

\* "is being recorded by another xcua"
Refused(r) ==
  /\ pc[r] = "lock" /\ flock[fd[r]] # Nothing
  /\ Over(r)
  /\ UNCHANGED <<disk, stray>>

\* Slip: the stills of an earlier recording stay.
ClearTmps(r) ==
  /\ pc[r] = "clear" /\ name[r] \in dir
  /\ tmps' = [tmps EXCEPT ![name[r]] = {}]
  /\ Go(r, "first")
  /\ UNCHANGED <<dir, active, stills, flock, mine, fd, spared, stray>>

\* clear_stills
ClearStills(r) ==
  /\ pc[r] = "clear" /\ name[r] \in dir
  /\ stills' = [stills EXCEPT ![name[r]] = {}]
  /\ tmps' = [tmps EXCEPT ![name[r]] = {}]
  /\ Go(r, "first")
  /\ UNCHANGED <<dir, active, flock, mine, fd, spared, stray>>

\* The first still is there before start() answers.
First(r) ==
  /\ pc[r] = "first" /\ name[r] \in dir
  /\ stills' = [stills EXCEPT ![name[r]] = @ \cup {r}]
  /\ Go(r, "record")
  /\ UNCHANGED <<dir, active, tmps, flock, mine, fd, spared, stray>>

\* The directory is gone, the disk is full, there is no picture: start()
\* answers the error, the lock goes and .active stays.
BeginFails(r) ==
  /\ \/ pc[r] = "open" /\ name[r] \notin dir
     \/ pc[r] \in {"clear", "first"}
  /\ Over(r)
  /\ UNCHANGED <<disk, stray>>

-----------------------------------------------------------------------------
(* The recording thread *)

\* put_still: the still under a hidden name ...
Write(r) ==
  /\ pc[r] = "record" /\ name[r] \in dir
  /\ tmps' = [tmps EXCEPT ![name[r]] = @ \cup {r}]
  /\ Go(r, "rename")
  /\ UNCHANGED <<dir, active, stills, flock, mine, fd, spared, stray>>

\* ... and then under its own.
Rename(r) ==
  /\ pc[r] = "rename" /\ r \in tmps[name[r]]
  /\ tmps' = [tmps EXCEPT ![name[r]] = @ \ {r}]
  /\ stills' = [stills EXCEPT ![name[r]] = @ \cup {r}]
  /\ Go(r, "record")
  /\ UNCHANGED <<dir, active, flock, mine, fd, spared, stray>>

\* "the recording's directory is gone"
Lost(r) ==
  /\ \/ pc[r] = "record" /\ name[r] \notin dir
     \/ pc[r] = "rename" /\ r \notin tmps[name[r]]
  /\ Go(r, "unlink")
  /\ UNCHANGED <<disk, flock, mine, fd, spared, stray>>

\* Stopped, too long, too large, too little space; finish() links the closing
\* still.
StopStills(r) ==
  /\ pc[r] = "record"
  /\ Go(r, "unlink")
  /\ UNCHANGED <<disk, flock, mine, fd, spared, stray>>

\* finish(): .active is removed by its name, whoever's it is, ...
Unlink(r) ==
  /\ pc[r] = "unlink"
  /\ active' = [active EXCEPT ![name[r]] = Nothing]
  /\ Go(r, "close")
  /\ Forget(r)
  /\ UNCHANGED <<dir, stills, tmps, flock, mine, fd, stray>>

\* ... and the lock let go of.
Close(r) ==
  /\ pc[r] = "close"
  /\ Over(r)
  /\ UNCHANGED <<disk, stray>>

\* The process dies; the kernel closes its files, and another one comes.
Kill(r) ==
  /\ pc[r] # "idle"
  /\ Over(r)
  /\ UNCHANGED <<disk, stray>>

-----------------------------------------------------------------------------

Prune(r) ==
  \/ \E n \in Name : Begin(r, n)
  \/ \E m \in Name : LookPast(r, m) \/ LookFree(r, m) \/ LookTakes(r, m)
  \/ LookDrops(r) \/ Sort(r)
  \/ \E m \in Name : Tidy(r, m) \/ Remove(r, m)
  \/ Rmdir(r)

Record(r) ==
  \/ Mkdir(r) \/ Open(r) \/ Lock(r) \/ Refused(r) \/ ClearStills(r) \/ First(r)
  \/ BeginFails(r) \/ Write(r) \/ Rename(r) \/ Lost(r) \/ StopStills(r)
  \/ Unlink(r) \/ Close(r)

StillsNext == \E r \in Recorder : Prune(r) \/ Record(r) \/ Kill(r)

StillsSpec == StillsInit /\ [][StillsNext]_stillsVars

-----------------------------------------------------------------------------
(* Properties *)

OneEach ==
  \A r, q \in Recorder :
    pc[r] \in Holding /\ pc[q] \in Holding /\ name[r] = name[q] => r = q

\* record.rs:32-33, "a second recording under the same name is refused": so it
\* is until one locks a file that is no .active any more, because who ended
\* the recording before it removed it in between, or loses its own to a
\* pruning that looked before it was there.
OneInEach == ~stray => OneEach

\* Until then the directory of a recording has its stills and no others,
\* whoever records, prunes, is killed or fails at the same time.
OwnStills ==
  ~stray => \A r \in Recorder :
              pc[r] \in Filming \cup {"unlink"} => stills[name[r]] = {r}

\* record.rs:31-32, "the pruning of another `xcua mcp` sharing the directory
\* skips it": of a recording that was in progress when the pruning began
\* nothing is removed, neither its directory nor its half-written still.
PruneSpares ==
  [][\A r \in Recorder, m \in Name :
       (Remove(r, m) \/ Tidy(r, m)) /\ ~stray
         => \A q \in spared[r] : name[q] # m]_stillsVars

-----------------------------------------------------------------------------
(* The inductive invariant of the proofs *)

\* Who is to have a lock has it, and the file open; who has a lock has that
\* one only; who waits for nothing has nothing open.
LockedInv ==
  /\ \A r \in Recorder :
       pc[r] \in Holding \cup {"probe", "close"} => fd[r] # Nothing /\ flock[fd[r]] = r
  /\ \A r \in Recorder : pc[r] = "lock" => fd[r] # Nothing
  /\ \A r \in Recorder :
       pc[r] \in {"idle", "look", "tidy", "rmdir", "open"} => fd[r] = Nothing
  /\ \A i \in Inode : flock[i] # Nothing => fd[flock[i]] = i
  /\ \A r \in Recorder : pc[r] # "idle" => name[r] # Nothing

\* The file a recording has locked is the .active of its directory.
NamedInv ==
  ~stray => \A r \in Recorder : pc[r] \in Holding => active[name[r]] = fd[r]

ClearedInv ==
  ~stray => \A r \in Recorder : pc[r] = "first" => stills[name[r]] = {}

\* Nobody has down for removal or tidying what was recorded when it began.
SparedInv ==
  \A r \in Recorder : \A q \in spared[r] :
    /\ pc[q] \in Filming \cup {"unlink"}
    /\ ~stray => name[q] \notin old[r]
    /\ ~stray /\ pc[r] \notin {"look", "probe"} => name[q] \notin look[r]

StillsInv ==
  StillsTypeOK /\ LockedInv /\ NamedInv /\ ClearedInv /\ OwnStills /\ SparedInv
=============================================================================
