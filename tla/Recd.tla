-------------------------------- MODULE Recd --------------------------------
(***************************************************************************)
(* The detached recorder of xcua (recd.rs): `record start` spawns a        *)
(* recorder process and waits until it records, `record stop` signals it   *)
(* and waits for its final state, every verb and `record mark` stamps a    *)
(* line into its timeline.  They share three files of the state directory, *)
(* the pid file, record.json and the timeline, and only `start` takes the  *)
(* directory's lock, up to where it has written the pid file.              *)
(*                                                                         *)
(* The recorder a start spawns bears the name of the start; those of Hand  *)
(* are run by hand, with --foreground.  A pid is never reused.  The stills *)
(* themselves are in Stills: here a recording may end by itself, and each  *)
(* request to the back end may fail.                                       *)
(***************************************************************************)
EXTENDS Naturals, FiniteSets

CONSTANTS
  Start,      \* `record start` commands, and the recorders they spawn
  Hand,       \* recorders run by hand
  Stop,       \* `record stop` commands
  Note,       \* `record mark`s and verbs that stamp themselves
  None,
  MaxExtra    \* bound: stops, notes, killed processes and recorders run by hand

Rec == Start \cup Hand

ASSUME RecdAssumption ==
  /\ Start \cap Hand = {}
  /\ None \notin Rec
  /\ MaxExtra \in Nat

VARIABLES
  lock,      \* the start that holds the state directory
  pid,       \* record.pid: a recorder
  json,      \* record.json: whose it is, and how far that recorder is in it
  timeline,  \* record.timeline.jsonl: the notes with a line of their own,
  tail,      \* and what is on its last line, which no newline ends yet
  spc,             \* each start: its next step
  rpc, signalled,  \* each recorder: its next step, whether a SIGTERM is pending
  kept, wrote,     \* kept[r]: the notes r read from the timeline; wrote[r]: how
                   \* far it came, its manifest or its final record.json
  tpc, target,     \* each stop: its next step, whom it signals
  npc,             \* each note: its next step
  extra,       \* how many of these there were
  killed,    \* history: a process was killed
  strayed,   \* history: a live recorder's pid file was removed or overwritten
  before,    \* history: before[s]: notes answered when s cleared the files
  saw,       \* history: saw[n]: the recorder n first found running
  intime,    \* history: notes answered while that recorder had yet to read them
  failed,    \* history: notes whose stamp failed, which is only logged
  shared,    \* history: notes whose line something else was written on
  crossed    \* history: crossed[t]: the recordings begun since t first looked

files == <<pid, json, timeline, tail>>
starts == <<spc, before>>
papers == <<signalled, kept, wrote>>
recs == <<rpc, papers>>
stops == <<tpc, target>>
notes == <<npc, saw, intime, failed, shared>>
past == <<killed, strayed, crossed>>
vars == <<lock, files, starts, recs, stops, notes, past, extra>>

\* Where a recorder is until it has read the timeline, and after.
Looking == {"looks", "again", "claims"}
Recording == {"opens", "records", "stops"}
Ending == {"ends", "removes"}
Unread == Looking \cup Recording

TypeOK ==
  /\ lock \in Start \cup {None}
  /\ pid \in Rec \cup {None}
  /\ json \in [of : Rec \cup {None}, is : {"recording", "ended", "final"}]
  /\ timeline \subseteq Note
  /\ tail \subseteq Note
  /\ spc \in [Start -> {"new", "cleared", "spawned", "waits", "removes",
                        "ok", "failed", "refused"}]
  /\ rpc \in [Rec -> {"off", "gone"} \cup Looking \cup Recording \cup Ending]
  /\ signalled \subseteq Rec
  /\ kept \in [Rec -> SUBSET Note]
  /\ wrote \in [Rec -> {"nothing", "manifest", "final"}]
  /\ tpc \in [Stop -> {"new", "found", "waits", "read", "none", "done"}]
  /\ target \in [Stop -> Rec \cup {None}]
  /\ \A t \in Stop : tpc[t] \in {"found", "waits", "read"} => target[t] # None
  /\ npc \in [Note -> {"new", "seen", "running", "ending", "adrift", "done", "refused"}]
  /\ extra \in 0 .. MaxExtra
  /\ \A s \in Start : lock = s <=> spc[s] \in {"cleared", "spawned"}
  /\ killed \in BOOLEAN /\ strayed \in BOOLEAN
  /\ before \in [Start -> SUBSET Note]
  /\ saw \in [Note -> Rec \cup {None}]
  /\ intime \subseteq Note /\ failed \subseteq Note /\ shared \subseteq Note
  /\ crossed \in [Stop -> SUBSET Rec]

NoJson == [of |-> None, is |-> "ended"]

Init ==
  /\ lock = None
  /\ pid = None /\ json = NoJson /\ timeline = {} /\ tail = {}
  /\ spc = [s \in Start |-> "new"]
  /\ rpc = [r \in Rec |-> "off"] /\ signalled = {} /\ kept = [r \in Rec |-> {}]
  /\ wrote = [r \in Rec |-> "nothing"]
  /\ tpc = [t \in Stop |-> "new"]
  /\ target = [t \in Stop |-> None]
  /\ npc = [n \in Note |-> "new"]
  /\ extra = 0
  /\ killed = FALSE /\ strayed = FALSE /\ crossed = [t \in Stop |-> {}]
  /\ before = [s \in Start |-> {}]
  /\ saw = [n \in Note |-> None] /\ intime = {} /\ failed = {} /\ shared = {}

-----------------------------------------------------------------------------

Alive(r) == rpc[r] \notin {"off", "gone"}

\* running(): the pid file's process, if it is alive.
Running == IF pid # None /\ Alive(pid) THEN pid ELSE None

\* write_json, by rename.
WriteJson(r, how) == json' = [of |-> r, is |-> how]

\* The pid file now names r; that it named another live one is remembered.
WritePid(r) ==
  /\ pid' = r
  /\ strayed' = (strayed \/ Running \notin {None, r})

\* It is removed by whoever is done with r, whosever name is in it.
RemovePid(r) ==
  /\ pid' = None
  /\ strayed' = (strayed \/ Running \notin {None, r})

\* The recording of r begins.
Crosses(r) ==
  crossed' = [t \in Stop |-> IF tpc[t] \notin {"new", "done"}
                             THEN crossed[t] \cup {r} ELSE {}]

Extra == extra < MaxExtra /\ extra' = extra + 1

SGo(s, from, to) == spc[s] = from /\ spc' = [spc EXCEPT ![s] = to]
RGo(r, from, to) == rpc[r] = from /\ rpc' = [rpc EXCEPT ![r] = to]
TGo(t, from, to) == tpc[t] = from /\ tpc' = [tpc EXCEPT ![t] = to]

-----------------------------------------------------------------------------
(* start *)

\* Another xcua has held the lock for 10 s.
LockBusy(s) ==
  /\ lock # None /\ SGo(s, "new", "refused")
  /\ UNCHANGED <<lock, files, before, recs, stops, notes, past, extra>>

\* Slip: the files are removed before the question.
ClearsAlready(s) ==
  /\ lock = None /\ Running # None
  /\ SGo(s, "new", "refused")
  /\ timeline' = {} /\ tail' = {}
  /\ UNCHANGED <<lock, pid, json, before, recs, stops, notes, past, extra>>

AlreadyRecording(s) ==
  /\ lock = None /\ Running # None
  /\ SGo(s, "new", "refused")
  /\ UNCHANGED <<lock, files, before, recs, stops, notes, past, extra>>

\* Slip: nobody asks.
NobodyAsks(s) ==
  /\ lock = None
  /\ SGo(s, "new", "cleared")
  /\ lock' = s
  /\ UNCHANGED <<files, before, recs, stops, notes, past, extra>>

\* It has the lock, and nobody runs.
LooksClear(s) ==
  /\ lock = None /\ Running = None
  /\ SGo(s, "new", "cleared")
  /\ lock' = s
  /\ UNCHANGED <<files, before, recs, stops, notes, past, extra>>

\* The timeline is unlinked: a note that has it open goes on where nobody reads.
DropTimeline ==
  /\ timeline' = {} /\ tail' = {}
  /\ npc' = [n \in Note |-> IF npc[n] = "ending" THEN "adrift" ELSE npc[n]]

\* Whatever the last one left goes, and the child is spawned.
Clear(s) ==
  /\ SGo(s, "cleared", "spawned")
  /\ RemovePid(s)
  /\ json' = NoJson
  /\ DropTimeline
  /\ before' = [before EXCEPT ![s] = {n \in Note : npc[n] = "done"}]
  /\ rpc' = [rpc EXCEPT ![s] = "looks"]
  /\ Crosses(s)
  /\ UNCHANGED <<lock, papers, stops, saw, intime, failed, shared, killed, extra>>

\* The child's pid is noted and the lock dropped.
NotePid(s) ==
  /\ SGo(s, "spawned", "waits")
  /\ WritePid(s)
  /\ lock' = None
  /\ UNCHANGED <<json, timeline, tail, before, recs, stops, notes, killed, crossed, extra>>

\* A record.json of a recording that runs, whosever it is.
SeesRecording(s) ==
  /\ json.is = "recording" /\ SGo(s, "waits", "ok")
  /\ UNCHANGED <<lock, files, before, recs, stops, notes, past, extra>>

SeesExit(s) ==
  /\ rpc[s] = "gone" /\ SGo(s, "waits", "removes")
  /\ UNCHANGED <<lock, files, before, recs, stops, notes, past, extra>>

\* 15 s have passed: the child is killed, and waited for.
GivesUp(s) ==
  /\ SGo(s, "waits", "removes")
  /\ rpc' = [rpc EXCEPT ![s] = "gone"]
  /\ UNCHANGED <<lock, files, before, papers, stops, notes, past, extra>>

StartFails(s) ==
  /\ SGo(s, "removes", "failed")
  /\ RemovePid(s)
  /\ UNCHANGED <<lock, json, timeline, tail, before, recs, stops, notes, killed, crossed, extra>>

\* The kernel drops its lock.
StartKilled(s) ==
  /\ Extra /\ killed' = TRUE
  /\ spc[s] \in {"cleared", "spawned", "waits", "removes"}
  /\ spc' = [spc EXCEPT ![s] = "failed"]
  /\ lock' = IF lock = s THEN None ELSE lock
  /\ UNCHANGED <<files, before, recs, stops, notes, strayed, crossed>>

-----------------------------------------------------------------------------
(* foreground, record_until_stopped *)

\* A recorder run by hand, which nobody cleared the files for.
RunByHand(r) ==
  /\ Extra
  /\ r \in Hand /\ RGo(r, "off", "looks")
  /\ UNCHANGED <<lock, files, starts, papers, stops, notes, past>>

\* Slip: it takes itself to have been noted.
LooksNowhere(r) ==
  /\ RGo(r, "looks", "opens")
  /\ UNCHANGED <<lock, files, starts, papers, stops, notes, past, extra>>

\* The signals are blocked; then it looks whether start has noted it.
LooksForItself(r) ==
  /\ rpc[r] = "looks"
  /\ rpc' = [rpc EXCEPT ![r] = IF Running = r THEN "opens" ELSE "again"]
  /\ UNCHANGED <<lock, files, starts, papers, stops, notes, past, extra>>

\* It looks once more, whether anybody records, which it may itself be by now.
LooksForOthers(r) ==
  /\ rpc[r] = "again"
  /\ rpc' = [rpc EXCEPT ![r] = IF Running = None THEN "claims" ELSE "gone"]
  /\ UNCHANGED <<lock, files, starts, papers, stops, notes, past, extra>>

Claims(r) ==
  /\ RGo(r, "claims", "opens")
  /\ WritePid(r)
  /\ UNCHANGED <<lock, json, timeline, tail, starts, papers, stops, notes, killed, crossed, extra>>

\* The display, RecordStart, and the first record.json.
Opens(r) ==
  /\ RGo(r, "opens", "records")
  /\ WriteJson(r, "recording")
  /\ Crosses(r)
  /\ UNCHANGED <<lock, pid, timeline, tail, starts, papers, stops, notes, killed,
                 strayed, extra>>

\* Each second; a recording at its limit has ended by itself.
Ticks(r) ==
  /\ rpc[r] = "records" /\ r \notin signalled
  /\ \/ WriteJson(r, "recording") /\ UNCHANGED rpc
     \/ WriteJson(r, "ended") /\ RGo(r, "records", "stops")
  /\ UNCHANGED <<lock, pid, timeline, tail, starts, papers, stops, notes, past, extra>>

TakesSignal(r) ==
  /\ r \in signalled /\ RGo(r, "records", "stops")
  /\ UNCHANGED <<lock, files, starts, papers, stops, notes, past, extra>>

\* Text that is one note by itself; a line with anything more is no note.
Alone(text) == {n \in Note : text = {n}}

\* After RecordStop the timeline is read, once, and goes into the manifest.
ReadTimeline(r) ==
  /\ RGo(r, "stops", "ends")
  /\ kept' = [kept EXCEPT ![r] = timeline \cup Alone(tail)]
  /\ wrote' = [wrote EXCEPT ![r] = "manifest"]
  /\ UNCHANGED <<lock, files, starts, signalled, stops, notes, past, extra>>

FinalJson(r) ==
  /\ RGo(r, "ends", "removes")
  /\ WriteJson(r, "final")
  /\ wrote' = [wrote EXCEPT ![r] = "final"]
  /\ UNCHANGED <<lock, pid, timeline, tail, starts, signalled, kept, stops, notes, past, extra>>

\* The display, the back end or a write fails: record.json stays as it is.
RecorderFails(r) ==
  /\ rpc[r] \in {"opens", "records", "stops", "ends"}
  /\ rpc' = [rpc EXCEPT ![r] = "removes"]
  /\ UNCHANGED <<lock, files, starts, papers, stops, notes, past, extra>>

Exits(r) ==
  /\ RGo(r, "removes", "gone")
  /\ RemovePid(r)
  /\ UNCHANGED <<lock, json, timeline, tail, starts, papers, stops, notes, killed, crossed, extra>>

RecorderKilled(r) ==
  /\ Extra /\ killed' = TRUE
  /\ Alive(r)
  /\ rpc' = [rpc EXCEPT ![r] = "gone"]
  /\ UNCHANGED <<lock, files, starts, papers, stops, notes, strayed, crossed>>

-----------------------------------------------------------------------------
(* stop *)

StopLooks(t) ==
  /\ tpc[t] = "new" /\ Extra
  /\ target' = [target EXCEPT ![t] = Running]
  /\ tpc' = [tpc EXCEPT ![t] = IF Running = None THEN "none" ELSE "found"]
  /\ UNCHANGED <<lock, files, starts, recs, notes, past>>

\* A recorder that has yet to block the signal dies of it.
Signals(t) ==
  LET r == target[t] IN
  /\ TGo(t, "found", "waits")
  /\ IF rpc[r] = "looks"
     THEN /\ rpc' = [rpc EXCEPT ![r] = "gone"]
          /\ UNCHANGED signalled
     ELSE /\ signalled' = signalled \cup {r}
          /\ UNCHANGED rpc
  /\ UNCHANGED <<lock, files, starts, kept, wrote, target, notes, past, extra>>

\* It is answered, and what it knew is forgotten.
Answer(t, from) ==
  /\ TGo(t, from, "done")
  /\ target' = [target EXCEPT ![t] = None]
  /\ crossed' = [crossed EXCEPT ![t] = {}]
  /\ UNCHANGED <<lock, files, starts, recs, notes, killed, strayed, extra>>

\* 30 s have passed.
StopTimesOut(t) ==
  /\ tpc[t] = "waits" /\ Alive(target[t])
  /\ Answer(t, "waits")

\* Slip: it does not wait.
WaitsForNobody(t) ==
  /\ TGo(t, "waits", "read")
  /\ UNCHANGED <<lock, files, starts, recs, target, notes, past, extra>>

SeesItGone(t) ==
  /\ TGo(t, "waits", "read")
  /\ ~Alive(target[t])
  /\ UNCHANGED <<lock, files, starts, recs, target, notes, past, extra>>

\* With the final state if record.json has it, else an error.
ReadFinal(t) == Answer(t, "read")

\* Nobody was running: an error, and that it died if record.json is of one that
\* records.
ReadLast(t) == Answer(t, "none")

-----------------------------------------------------------------------------
(* mark, stamp *)

\* A mark asks whether a recorder runs, before stamp does.
MarkLooks(n) ==
  /\ npc[n] = "new" /\ Extra
  /\ saw' = [saw EXCEPT ![n] = Running]
  /\ npc' = [npc EXCEPT ![n] = IF Running = None THEN "refused" ELSE "seen"]
  /\ UNCHANGED <<lock, files, starts, recs, stops, intime, failed, shared, past>>

\* It is answered; was it before the recorder it saw read the timeline?
NoteDone(n) ==
  LET inTime == saw[n] # None /\ rpc[saw[n]] \in Unread IN
  /\ npc' = [npc EXCEPT ![n] = "done"]
  /\ intime' = IF inTime THEN intime \cup {n} ELSE intime
  /\ saw' = IF inTime THEN saw ELSE [saw EXCEPT ![n] = None]

\* For a verb it is the first question; if nobody runs there is nothing to do.
StampLooks(n) ==
  /\ \/ npc[n] = "new" /\ Extra
     \/ npc[n] = "seen" /\ UNCHANGED extra
  /\ IF Running = None
     THEN NoteDone(n)
     ELSE /\ npc' = [npc EXCEPT ![n] = "running"]
          /\ saw' = IF npc[n] = "new" THEN [saw EXCEPT ![n] = Running] ELSE saw
          /\ UNCHANGED intime
  /\ UNCHANGED <<lock, files, starts, recs, stops, failed, shared, past>>

NGo(n, from, to) == npc[n] = from /\ npc' = [npc EXCEPT ![n] = to]

\* Slip: opened without append, a note goes over what is there.
StampOver(n) ==
  /\ NGo(n, "running", "ending")
  /\ tail' = {n} /\ timeline' = {}
  /\ UNCHANGED <<lock, pid, json, starts, recs, stops, saw, intime, failed, shared, past,
                 extra>>

\* The file of that name is opened, or made, and writeln! makes the first of its
\* two writes: the note, without its newline.  (All that could come between the
\* open and the write is a removal, and that undoes the write as well.)
StampLine(n) ==
  /\ NGo(n, "running", "ending")
  /\ tail' = tail \cup {n}
  /\ shared' = IF tail = {} THEN shared ELSE shared \cup tail'
  /\ UNCHANGED <<lock, pid, json, timeline, starts, recs, stops, saw, intime, failed, past,
                 extra>>

\* The second: the newline ends whatever is on the last line.
StampEnds(n) ==
  /\ npc[n] = "ending" /\ NoteDone(n)
  /\ timeline' = timeline \cup Alone(tail) /\ tail' = {}
  /\ UNCHANGED <<lock, pid, json, starts, recs, stops, failed, shared, past, extra>>

\* The open or one of the writes fails: it is logged, and the answer is the
\* same.  What a write that fails half way leaves of a line is, for the next
\* note, the same as a line whose newline failed.
StampFails(n) ==
  /\ npc[n] \in {"running", "ending"} /\ NoteDone(n)
  /\ failed' = failed \cup {n}
  /\ UNCHANGED <<lock, files, starts, recs, stops, shared, past, extra>>

\* It wrote, or did not, to a file that has no name any more.
StampAdrift(n) ==
  /\ npc[n] = "adrift" /\ NoteDone(n)
  /\ UNCHANGED <<lock, files, starts, recs, stops, failed, shared, past, extra>>

-----------------------------------------------------------------------------

StartStep(s) ==
  \/ LockBusy(s) \/ AlreadyRecording(s) \/ LooksClear(s) \/ Clear(s)
  \/ NotePid(s) \/ SeesRecording(s) \/ SeesExit(s) \/ StartFails(s)

\* What a recorder does of itself once it runs.
RecStep(r) ==
  \/ LooksForItself(r) \/ LooksForOthers(r) \/ Claims(r) \/ Opens(r) \/ TakesSignal(r)
  \/ ReadTimeline(r) \/ FinalJson(r) \/ Exits(r)

StopStep(t) == Signals(t) \/ SeesItGone(t) \/ ReadFinal(t) \/ ReadLast(t)

NoteStep(n) ==
  \/ MarkLooks(n) \/ StampLooks(n) \/ StampLine(n) \/ StampEnds(n)
  \/ StampFails(n) \/ StampAdrift(n)

\* Every command and every recorder has ended.
Finished ==
  /\ \A s \in Start : spc[s] \in {"ok", "failed", "refused"}
  /\ \A r \in Rec : ~Alive(r)
  /\ UNCHANGED vars

Next ==
  \/ \E s \in Start : StartStep(s) \/ GivesUp(s) \/ StartKilled(s)
  \/ \E r \in Rec : RecStep(r) \/ RunByHand(r) \/ Ticks(r) \/ RecorderFails(r)
                    \/ RecorderKilled(r)
  \/ \E t \in Stop : StopStep(t) \/ StopLooks(t) \/ StopTimesOut(t)
  \/ \E n \in Note : NoteStep(n)
  \/ Finished

Spec == Init /\ [][Next]_vars

-----------------------------------------------------------------------------
(* Properties *)

\* recd.rs:130, 206: two recorders of a state directory run at once only if
\* one is run by hand, a process was killed, or a start failed, which removes
\* the pid file whosever it is by then.
OneRecorder ==
  \A q, r \in Rec :
    q # r /\ rpc[q] \in Recording \cup Ending /\ rpc[r] \in Recording \cup Ending =>
      \/ killed
      \/ \E h \in Hand : rpc[h] # "off"
      \/ \E s \in Start : spc[s] = "failed"

\* recd.rs:291-297: a note that is answered while the recorder it found has
\* yet to read the timeline is in that recorder's manifest, unless its stamp
\* failed, which is only logged, or something else came on its line between its
\* two writes, in which case read_timeline drops the line.
NotesKept ==
  ~strayed =>
    \A n \in intime \ (failed \cup shared) :
      wrote[saw[n]] # "nothing" => n \in kept[saw[n]]

\* recd.rs:134: none that was answered before a start cleared the files is in
\* the manifest of the recording it started, whatever runs beside it.
NoOldNotes ==
  \A s \in Start : wrote[s] # "nothing" => kept[s] \cap before[s] = {}

\* Recorders whose start does not wait for them: run by hand, or the start was
\* killed or has failed.
Unwatched == Hand \cup {s \in Start : spc[s] = "failed"}

\* recd.rs:265-288: a stop that is about to answer answers with the final state
\* of the recorder it signalled, if there is one, or of one nobody watches,
\* unless another recording was begun meanwhile.  (For a recorder run by hand
\* nobody has removed the record.json of the last one.)
StopTells ==
  \A t \in Stop :
    LET r == target[t] IN
    tpc[t] = "read" /\ ~strayed /\ crossed[t] \subseteq {r} /\ r \notin Unwatched =>
      IF json.is = "final" THEN json.of \in {r} \cup Unwatched
      ELSE ~Alive(r) /\ wrote[r] # "final"

\* recd.rs:268: and that a recorder died without finishing only of one that did.
DiedIsTrue ==
  \A t \in Stop :
    tpc[t] = "none" /\ ~strayed /\ json.is = "recording" /\ json.of \notin crossed[t] =>
      ~Alive(json.of) /\ wrote[json.of] # "final"

\* recd.rs:169: a start answers with the recording of its own recorder, unless
\* that one has ended or the recording is one nobody watches.
StartTells ==
  \A s \in Start : ~strayed /\ spc[s] = "waits" /\ json.is = "recording" =>
    json.of \in {s} \cup Unwatched \/ ~Alive(s)

-----------------------------------------------------------------------------
(* The inductive invariant *)

\* A start whose recorder is off has yet to spawn it, or was killed before; one
\* that removes the pid file has seen its recorder go.  A manifest is the last
\* thing but record.json that a recorder writes.
StepInv ==
  /\ \A s \in Start :
       /\ spc[s] \in {"new", "cleared", "refused"} => rpc[s] = "off"
       /\ spc[s] = "removes" => rpc[s] = "gone"
  /\ \A r \in Rec :
       /\ wrote[r] = "nothing" => kept[r] = {}
       /\ wrote[r] = "manifest" => rpc[r] \in {"ends", "removes", "gone"}
       /\ rpc[r] = "ends" => wrote[r] = "manifest"
       /\ wrote[r] = "final" => rpc[r] \in {"removes", "gone"}

\* The pid file names the recorder that runs, until a live one is struck from it.
PidInv == ~strayed => \A r \in Rec : rpc[r] \in Recording \cup Ending => pid = r

\* Of the recorders somebody watches one at most is alive: that of the start
\* which holds the lock, or the one the pid file names.
WatchInv ==
  ~strayed => \A s \in Start : Alive(s) /\ spc[s] # "failed" =>
    lock = s \/ (lock = None /\ pid = s)

\* What makes a live recorder's pid file go.
CalmInv ==
  strayed =>
    \/ killed
    \/ \E h \in Hand : rpc[h] # "off"
    \/ \E s \in Start : spc[s] = "failed"

\* The files of one state directory have the recorder that runs in them, until
\* a live one's pid file is removed or overwritten.
RecdInv == TypeOK /\ StepInv /\ PidInv /\ WatchInv /\ CalmInv

\* The last line is open only while its note is between its two writes, or
\* after a write that failed; and a note that is alone on its line stays so.
TailInv ==
  /\ tail \subseteq {n \in Note : npc[n] = "ending"} \cup failed
  /\ \A n \in Note : npc[n] = "ending" /\ n \notin shared => tail = {n} \/ n \in timeline

\* What a note found running has the pid file as long as it lives, and until it
\* has read the timeline a note that came in time is there.
SawInv ==
  \A n \in Note :
    /\ saw[n] # None =>
         /\ rpc[saw[n]] # "off"
         /\ ~strayed /\ Alive(saw[n]) => pid = saw[n]
    /\ n \in intime =>
         /\ saw[n] # None /\ npc[n] = "done"
         /\ ~strayed /\ rpc[saw[n]] \in Unread => n \in timeline \cup failed \cup shared
    /\ npc[n] = "adrift" /\ saw[n] # None /\ ~strayed => ~Alive(saw[n])

\* A note that was answered before a start is not written once more.
BeforeInv ==
  \A s \in Start :
    /\ \A n \in before[s] : npc[n] = "done"
    /\ (timeline \cup tail) \cap before[s] = {} /\ kept[s] \cap before[s] = {}

\* A manifest has the notes of its recording: all that came in time and were
\* written on a line of their own, no old one.
NotesInv == NotesKept /\ NoOldNotes /\ TailInv /\ SawInv /\ BeforeInv

\* Who is in record.json, while a recorder that is watched lives.
JsonInv ==
  /\ json.of = None => json.is = "ended"
  /\ json.of # None =>
       /\ rpc[json.of] \in {"records", "stops", "gone"} \cup Ending
       /\ wrote[json.of] = "final" => json.is = "final"
  /\ ~strayed =>
       /\ \A s \in Start : Alive(s) /\ spc[s] # "failed" =>
            json.of \in {None, s} \cup Unwatched
       /\ \A r \in Rec : Alive(r) /\ wrote[r] = "final" => json.of = r

\* The recorders that will write record.json again.
Writers == {r \in Rec : rpc[r] \in {"records", "stops", "ends"}}

\* While no other recording begins only the recorder a stop has found writes.
TargetInv ==
  \A t \in Stop : LET r == target[t] IN
    /\ tpc[t] \in {"new", "done"} => crossed[t] = {}
    /\ tpc[t] \in {"found", "waits", "read"} =>
         /\ rpc[r] # "off"
         /\ tpc[t] = "read" => ~Alive(r)
         /\ ~strayed /\ Alive(r) => pid = r
         /\ ~strayed /\ crossed[t] \subseteq {r} =>
              /\ Writers \subseteq {r}
              /\ r \notin Unwatched => json.of \in {None, r} \cup Unwatched
              /\ wrote[r] = "final" => json.of = r

\* A stop that finds none running finds none that will write, either.
NobodyInv ==
  \A t \in Stop :
    ~strayed /\ tpc[t] = "none" =>
      /\ Writers \subseteq crossed[t]
      /\ json.of \notin crossed[t] \cup {None} => ~Alive(json.of)

\* What start and stop print of a recording is true of it.
ToldInv == StopTells /\ DiedIsTrue /\ StartTells /\ JsonInv /\ TargetInv /\ NobodyInv
=============================================================================
