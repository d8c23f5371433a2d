----------------------------- MODULE RecdProofs -----------------------------
(***************************************************************************)
(* Theorems about the detached recorder for any number of starts,          *)
(* recorders run by hand, stops, marks and stamps, whatever is killed:     *)
(* what makes a recorder the only one, what a manifest has, and what start *)
(* and stop may say.                                                       *)
(***************************************************************************)
EXTENDS Recd, Stills, TLAPS

-----------------------------------------------------------------------------
(* Type correctness *)

LEMMA TypeInit == Init => TypeOK
<1> SUFFICES ASSUME Init PROVE TypeOK
  OBVIOUS
<1>1. json \in [of : Rec \cup {None}, is : {"recording", "ended", "final"}]
  BY DEF Init, NoJson
<1>2. \A s \in Start : lock = s <=> spc[s] \in {"cleared", "spawned"}
  BY RecdAssumption DEF Init, Rec
<1>3. /\ spc \in [Start -> {"new", "cleared", "spawned", "waits", "removes",
                          "ok", "failed", "refused"}]
      /\ rpc \in [Rec -> {"off", "gone"} \cup Looking \cup Recording \cup Ending]
      /\ wrote \in [Rec -> {"nothing", "manifest", "final"}]
      /\ kept \in [Rec -> SUBSET Note] /\ before \in [Start -> SUBSET Note]
  BY DEF Init
<1>4. /\ tpc \in [Stop -> {"new", "found", "waits", "read", "none", "done"}]
      /\ target \in [Stop -> Rec \cup {None}]
      /\ crossed \in [Stop -> SUBSET Rec]
      /\ \A t \in Stop : tpc[t] \in {"found", "waits", "read"} => target[t] # None
  BY DEF Init
<1>5. /\ npc \in [Note -> {"new", "seen", "running", "ending", "adrift", "done", "refused"}]
      /\ saw \in [Note -> Rec \cup {None}]
      /\ timeline \subseteq Note /\ tail \subseteq Note /\ signalled \subseteq Rec
      /\ intime \subseteq Note /\ failed \subseteq Note /\ shared \subseteq Note
      /\ lock \in Start \cup {None} /\ pid \in Rec \cup {None}
  BY DEF Init
<1>6. killed \in BOOLEAN /\ strayed \in BOOLEAN
  BY DEF Init
<1>7. extra \in 0 .. MaxExtra
  BY RecdAssumption DEF Init
<1> QED
  BY <1>1, <1>2, <1>3, <1>4, <1>5, <1>6, <1>7 DEF TypeOK

\* The recorder that runs is the one the pid file names, if it is alive.
LEMMA RunningIs ==
  ASSUME TypeOK
  PROVE  /\ Running \in Rec \cup {None}
         /\ \A r \in Rec : Running = r <=> pid = r /\ Alive(r)
         /\ Running = None <=> pid = None \/ ~Alive(pid)
BY RecdAssumption DEF Running, TypeOK, Rec

LEMMA TypeNext ==
  ASSUME TypeOK, [Next]_vars
  PROVE  TypeOK'
<1> USE DEF SGo, RGo, TGo, files, starts, papers, recs, stops, notes, past, Looking, Recording,
        Ending
<1>1. ASSUME UNCHANGED <<vars>> PROVE TypeOK'
  BY <1>1 DEF vars, TypeOK
<1>2. ASSUME NEW s \in Start, LockBusy(s) PROVE TypeOK'
  BY <1>2, RecdAssumption
     DEF LockBusy, TypeOK, Rec
<1>3. ASSUME NEW s \in Start, AlreadyRecording(s) PROVE TypeOK'
  BY <1>3, RecdAssumption
     DEF AlreadyRecording, TypeOK, Rec
<1>4. ASSUME NEW s \in Start, LooksClear(s) PROVE TypeOK'
  BY <1>4, RecdAssumption
     DEF LooksClear, TypeOK, Rec
<1>5. ASSUME NEW s \in Start, Clear(s) PROVE TypeOK'
  BY <1>5, RecdAssumption
     DEF Clear, TypeOK, Rec, RemovePid, NoJson, DropTimeline, Crosses
<1>6. ASSUME NEW s \in Start, NotePid(s) PROVE TypeOK'
  BY <1>6, RecdAssumption
     DEF NotePid, TypeOK, Rec, WritePid
<1>7. ASSUME NEW s \in Start, SeesRecording(s) PROVE TypeOK'
  BY <1>7, RecdAssumption
     DEF SeesRecording, TypeOK, Rec
<1>8. ASSUME NEW s \in Start, SeesExit(s) PROVE TypeOK'
  BY <1>8, RecdAssumption
     DEF SeesExit, TypeOK, Rec
<1>9. ASSUME NEW s \in Start, GivesUp(s) PROVE TypeOK'
  BY <1>9, RecdAssumption
     DEF GivesUp, TypeOK, Rec
<1>10. ASSUME NEW s \in Start, StartFails(s) PROVE TypeOK'
  BY <1>10, RecdAssumption
     DEF StartFails, TypeOK, Rec, RemovePid
<1>11. ASSUME NEW s \in Start, StartKilled(s) PROVE TypeOK'
  BY <1>11, RecdAssumption
     DEF StartKilled, TypeOK, Rec, Extra
<1>12. ASSUME NEW r \in Rec, RunByHand(r) PROVE TypeOK'
  BY <1>12, RecdAssumption
     DEF RunByHand, TypeOK, Rec, Extra
<1>13. ASSUME NEW r \in Rec, LooksForItself(r) PROVE TypeOK'
  BY <1>13, RecdAssumption
     DEF LooksForItself, TypeOK, Rec
<1>14. ASSUME NEW r \in Rec, LooksForOthers(r) PROVE TypeOK'
  BY <1>14, RecdAssumption
     DEF LooksForOthers, TypeOK, Rec
<1>15. ASSUME NEW r \in Rec, Claims(r) PROVE TypeOK'
  BY <1>15, RecdAssumption
     DEF Claims, TypeOK, Rec, WritePid
<1>16. ASSUME NEW r \in Rec, Opens(r) PROVE TypeOK'
  BY <1>16, RecdAssumption
     DEF Opens, TypeOK, Rec, WriteJson, Crosses
<1>17. ASSUME NEW r \in Rec, Ticks(r) PROVE TypeOK'
  BY <1>17, RecdAssumption
     DEF Ticks, TypeOK, Rec, WriteJson
<1>18. ASSUME NEW r \in Rec, TakesSignal(r) PROVE TypeOK'
  BY <1>18, RecdAssumption
     DEF TakesSignal, TypeOK, Rec
<1>19. ASSUME NEW r \in Rec, ReadTimeline(r) PROVE TypeOK'
  BY <1>19, RecdAssumption
     DEF ReadTimeline, Alone, TypeOK, Rec
<1>20. ASSUME NEW r \in Rec, FinalJson(r) PROVE TypeOK'
  BY <1>20, RecdAssumption
     DEF FinalJson, TypeOK, Rec, WriteJson
<1>21. ASSUME NEW r \in Rec, RecorderFails(r) PROVE TypeOK'
  BY <1>21, RecdAssumption
     DEF RecorderFails, TypeOK, Rec
<1>22. ASSUME NEW r \in Rec, Exits(r) PROVE TypeOK'
  BY <1>22, RecdAssumption
     DEF Exits, TypeOK, Rec, RemovePid
<1>23. ASSUME NEW r \in Rec, RecorderKilled(r) PROVE TypeOK'
  BY <1>23, RecdAssumption
     DEF RecorderKilled, TypeOK, Rec, Extra
<1>24. ASSUME NEW t \in Stop, StopLooks(t) PROVE TypeOK'
  BY <1>24, RecdAssumption, RunningIs
     DEF StopLooks, TypeOK, Rec, Extra
<1>25. ASSUME NEW t \in Stop, Signals(t) PROVE TypeOK'
  BY <1>25, RecdAssumption
     DEF Signals, TypeOK, Rec
<1>26. ASSUME NEW t \in Stop, StopTimesOut(t) PROVE TypeOK'
  BY <1>26, RecdAssumption
     DEF StopTimesOut, TypeOK, Rec, Answer
<1>27. ASSUME NEW t \in Stop, SeesItGone(t) PROVE TypeOK'
  BY <1>27, RecdAssumption
     DEF SeesItGone, TypeOK, Rec
<1>28. ASSUME NEW t \in Stop, ReadFinal(t) PROVE TypeOK'
  BY <1>28, RecdAssumption
     DEF ReadFinal, TypeOK, Rec, Answer
<1>29. ASSUME NEW t \in Stop, ReadLast(t) PROVE TypeOK'
  BY <1>29, RecdAssumption
     DEF ReadLast, TypeOK, Rec, Answer
<1>30. ASSUME NEW n \in Note, MarkLooks(n) PROVE TypeOK'
  BY <1>30, RecdAssumption, RunningIs
     DEF MarkLooks, TypeOK, Rec, Extra
<1>31. ASSUME NEW n \in Note, StampLooks(n) PROVE TypeOK'
  BY <1>31, RecdAssumption, RunningIs
     DEF StampLooks, TypeOK, Rec, NoteDone, Extra
<1>32. ASSUME NEW n \in Note, StampLine(n) PROVE TypeOK'
  BY <1>32, RecdAssumption
     DEF StampLine, TypeOK, Rec, NGo
<1>33. ASSUME NEW n \in Note, StampEnds(n) PROVE TypeOK'
  BY <1>33, RecdAssumption
     DEF StampEnds, TypeOK, Rec, NoteDone, Alone
<1>34. ASSUME NEW n \in Note, StampFails(n) PROVE TypeOK'
  BY <1>34, RecdAssumption
     DEF StampFails, TypeOK, Rec, NoteDone
<1>35. ASSUME NEW n \in Note, StampAdrift(n) PROVE TypeOK'
  BY <1>35, RecdAssumption
     DEF StampAdrift, TypeOK, Rec, NoteDone
<1> QED
  BY <1>1, <1>2, <1>3, <1>4, <1>5, <1>6, <1>7, <1>8, <1>9, <1>10, <1>11, <1>12,
    <1>13, <1>14, <1>15, <1>16, <1>17, <1>18, <1>19, <1>20, <1>21, <1>22, <1>23,
    <1>24, <1>25, <1>26, <1>27, <1>28, <1>29, <1>30, <1>31, <1>32, <1>33, <1>34, <1>35
     DEF Next, StartStep, RecStep, StopStep, NoteStep, Finished, vars

-----------------------------------------------------------------------------
(* What a step can do to a recorder, the pid file and record.json *)

\* The places of a recorder that has opened its recording, and those at which it
\* has yet to read the timeline or to be spawned.
Opened == {"records", "stops", "gone"} \cup Ending
Before == {"off"} \cup Unread

\* What a recorder has behind it stays behind it.
Onward(r) ==
  /\ rpc[r] # "off" => rpc'[r] # "off" /\ (Alive(r)' => Alive(r))
  /\ rpc[r] \in Opened => rpc'[r] \in Opened
  /\ rpc'[r] \in Before => rpc[r] \in Before
  /\ Alive(r)' /\ ~Alive(r) => rpc[r] = "off" /\ rpc'[r] = "looks"

LEMMA Forward ==
  ASSUME TypeOK, StepInv, [Next]_vars, NEW q \in Rec
  PROVE  Onward(q)
<1> USE DEF SGo, RGo, TGo, files, starts, papers, recs, stops, notes, past, Rec
<1>1. ASSUME UNCHANGED <<rpc>> PROVE Onward(q)
  BY <1>1 DEF Onward, Opened, Before, Unread, Looking, Recording, Ending, Alive
<1>2. ASSUME NEW s \in Start, Clear(s) PROVE Onward(q)
  BY <1>2
     DEF Clear, Onward, Opened, Before, Unread, Looking, Recording, Ending, Alive,
       TypeOK, StepInv
<1>3. ASSUME NEW s \in Start, GivesUp(s) PROVE Onward(q)
  BY <1>3
     DEF GivesUp, Onward, Opened, Before, Unread, Looking, Recording, Ending,
       Alive, TypeOK
<1>4. ASSUME NEW r \in Rec, RunByHand(r) PROVE Onward(q)
  BY <1>4
     DEF RunByHand, Onward, Opened, Before, Unread, Looking, Recording, Ending,
       Alive, TypeOK
<1>5. ASSUME NEW r \in Rec, LooksForItself(r) PROVE Onward(q)
  BY <1>5
     DEF LooksForItself, Onward, Opened, Before, Unread, Looking, Recording,
       Ending, Alive, TypeOK
<1>6. ASSUME NEW r \in Rec, LooksForOthers(r) PROVE Onward(q)
  BY <1>6
     DEF LooksForOthers, Onward, Opened, Before, Unread, Looking, Recording,
       Ending, Alive, TypeOK
<1>7. ASSUME NEW r \in Rec, Claims(r) PROVE Onward(q)
  BY <1>7
     DEF Claims, Onward, Opened, Before, Unread, Looking, Recording, Ending,
       Alive, TypeOK
<1>8. ASSUME NEW r \in Rec, Opens(r) PROVE Onward(q)
  BY <1>8
     DEF Opens, Onward, Opened, Before, Unread, Looking, Recording, Ending, Alive,
       TypeOK
<1>9. ASSUME NEW r \in Rec, Ticks(r) PROVE Onward(q)
  BY <1>9
     DEF Ticks, Onward, Opened, Before, Unread, Looking, Recording, Ending, Alive,
       TypeOK
<1>10. ASSUME NEW r \in Rec, TakesSignal(r) PROVE Onward(q)
  BY <1>10
     DEF TakesSignal, Onward, Opened, Before, Unread, Looking, Recording, Ending,
       Alive, TypeOK
<1>11. ASSUME NEW r \in Rec, ReadTimeline(r) PROVE Onward(q)
  BY <1>11
     DEF ReadTimeline, Onward, Opened, Before, Unread, Looking, Recording, Ending,
       Alive, TypeOK
<1>12. ASSUME NEW r \in Rec, FinalJson(r) PROVE Onward(q)
  BY <1>12
     DEF FinalJson, Onward, Opened, Before, Unread, Looking, Recording, Ending,
       Alive, TypeOK
<1>13. ASSUME NEW r \in Rec, RecorderFails(r) PROVE Onward(q)
  BY <1>13
     DEF RecorderFails, Onward, Opened, Before, Unread, Looking, Recording,
       Ending, Alive, TypeOK
<1>14. ASSUME NEW r \in Rec, Exits(r) PROVE Onward(q)
  BY <1>14
     DEF Exits, Onward, Opened, Before, Unread, Looking, Recording, Ending, Alive,
       TypeOK
<1>15. ASSUME NEW r \in Rec, RecorderKilled(r) PROVE Onward(q)
  BY <1>15
     DEF RecorderKilled, Onward, Opened, Before, Unread, Looking, Recording,
       Ending, Alive, TypeOK
<1>16. ASSUME NEW t \in Stop, Signals(t) PROVE Onward(q)
  BY <1>16
     DEF Signals, Onward, Opened, Before, Unread, Looking, Recording, Ending,
       Alive, TypeOK
<1>17. ASSUME NEW s \in Start, \/ LockBusy(s) \/ AlreadyRecording(s)
      \/ LooksClear(s) \/ NotePid(s) \/ SeesRecording(s) \/ SeesExit(s)
      \/ StartFails(s) \/ StartKilled(s)
      PROVE  Onward(q)
  BY <1>1, <1>17 DEF LockBusy, AlreadyRecording, LooksClear, NotePid,
     SeesRecording, SeesExit, StartFails, StartKilled
<1>18. ASSUME NEW t \in Stop, \/ StopLooks(t) \/ StopTimesOut(t)
      \/ SeesItGone(t) \/ ReadFinal(t) \/ ReadLast(t)
      PROVE  Onward(q)
  BY <1>1, <1>18 DEF StopLooks, StopTimesOut, SeesItGone, ReadFinal, ReadLast,
     Answer
<1>19. ASSUME NEW n \in Note, NoteStep(n)
      PROVE  Onward(q)
  BY <1>1, <1>19 DEF NoteStep, MarkLooks, StampLooks, StampLine, StampEnds, StampFails,
     StampAdrift, NoteDone, NGo
<1> QED
  BY <1>1, <1>2, <1>3, <1>4, <1>5, <1>6, <1>7, <1>8, <1>9, <1>10, <1>11, <1>12,
    <1>13, <1>14, <1>15, <1>16, <1>17, <1>18, <1>19
     DEF Next, StartStep, RecStep, StopStep, NoteStep, Finished, vars

\* While its pid file is not struck, a live recorder keeps it; that one was, once,
\* stays so.
LEMMA PidStays ==
  ASSUME TypeOK, StepInv, [Next]_vars, ~strayed'
  PROVE  ~strayed /\ \A q \in Rec : pid = q /\ Alive(q) /\ Alive(q)' => pid' = q
<1> DEFINE Stays == ~strayed /\ \A q \in Rec : pid = q /\ Alive(q) /\ Alive(q)' => pid' = q
<1> USE DEF SGo, RGo, TGo, files, starts, papers, recs, stops, notes, past, Rec
<1>1. ASSUME UNCHANGED <<pid, strayed>> PROVE Stays
  BY <1>1
<1>2. ASSUME NEW s \in Start, Clear(s) PROVE Stays
  BY <1>2, RunningIs
     DEF Clear, RemovePid, StepInv, Alive
<1>3. ASSUME NEW s \in Start, NotePid(s) PROVE Stays
  BY <1>3, RunningIs, RecdAssumption
     DEF NotePid, WritePid, Alive
<1>4. ASSUME NEW s \in Start, StartFails(s) PROVE Stays
  BY <1>4, RunningIs
     DEF StartFails, RemovePid, StepInv, Alive
<1>5. ASSUME NEW r \in Rec, Claims(r) PROVE Stays
  BY <1>5, RunningIs, RecdAssumption
     DEF Claims, WritePid, Alive
<1>6. ASSUME NEW r \in Rec, Exits(r) PROVE Stays
  BY <1>6, RunningIs
     DEF Exits, RemovePid, Alive, TypeOK
<1>7. ASSUME NEW s \in Start, \/ LockBusy(s) \/ AlreadyRecording(s)
      \/ LooksClear(s) \/ SeesRecording(s) \/ SeesExit(s) \/ GivesUp(s)
      \/ StartKilled(s)
      PROVE  Stays
  BY <1>1, <1>7 DEF LockBusy, AlreadyRecording, LooksClear, SeesRecording,
     SeesExit, GivesUp, StartKilled
<1>8. ASSUME NEW r \in Rec, \/ RunByHand(r) \/ LooksForItself(r)
      \/ LooksForOthers(r) \/ Opens(r) \/ Ticks(r) \/ TakesSignal(r)
      \/ ReadTimeline(r) \/ FinalJson(r) \/ RecorderFails(r) \/ RecorderKilled(r)
      PROVE  Stays
  BY <1>1, <1>8 DEF RunByHand, LooksForItself, LooksForOthers, Opens, Ticks,
     TakesSignal, ReadTimeline, FinalJson, RecorderFails, RecorderKilled
<1>9. ASSUME NEW t \in Stop, \/ StopLooks(t) \/ Signals(t) \/ StopTimesOut(t)
      \/ SeesItGone(t) \/ ReadFinal(t) \/ ReadLast(t)
      PROVE  Stays
  BY <1>1, <1>9 DEF StopLooks, Signals, StopTimesOut, SeesItGone, ReadFinal,
     ReadLast, Answer
<1>10. ASSUME NEW n \in Note, NoteStep(n)
      PROVE  Stays
  BY <1>1, <1>10 DEF NoteStep, MarkLooks, StampLooks, StampLine, StampEnds, StampFails,
     StampAdrift, NoteDone, NGo
<1> QED
  BY <1>1, <1>2, <1>3, <1>4, <1>5, <1>6, <1>7, <1>8, <1>9, <1>10
     DEF Next, StartStep, RecStep, StopStep, NoteStep, Finished, vars

\* A start that has failed has failed for good.
LEMMA Failed ==
  ASSUME TypeOK, [Next]_vars, NEW q \in Start, spc[q] = "failed"
  PROVE  spc'[q] = "failed"
<1> USE DEF SGo, RGo, TGo, files, starts, papers, recs, stops, notes, past
<1>1. ASSUME UNCHANGED <<spc>> PROVE spc'[q] = "failed"
  BY <1>1
<1>2. ASSUME NEW s \in Start, LockBusy(s) PROVE spc'[q] = "failed"
  BY <1>2
     DEF LockBusy, TypeOK
<1>3. ASSUME NEW s \in Start, AlreadyRecording(s) PROVE spc'[q] = "failed"
  BY <1>3
     DEF AlreadyRecording, TypeOK
<1>4. ASSUME NEW s \in Start, LooksClear(s) PROVE spc'[q] = "failed"
  BY <1>4
     DEF LooksClear, TypeOK
<1>5. ASSUME NEW s \in Start, Clear(s) PROVE spc'[q] = "failed"
  BY <1>5
     DEF Clear, TypeOK
<1>6. ASSUME NEW s \in Start, NotePid(s) PROVE spc'[q] = "failed"
  BY <1>6
     DEF NotePid, TypeOK
<1>7. ASSUME NEW s \in Start, SeesRecording(s) PROVE spc'[q] = "failed"
  BY <1>7
     DEF SeesRecording, TypeOK
<1>8. ASSUME NEW s \in Start, SeesExit(s) PROVE spc'[q] = "failed"
  BY <1>8
     DEF SeesExit, TypeOK
<1>9. ASSUME NEW s \in Start, GivesUp(s) PROVE spc'[q] = "failed"
  BY <1>9
     DEF GivesUp, TypeOK
<1>10. ASSUME NEW s \in Start, StartFails(s) PROVE spc'[q] = "failed"
  BY <1>10
     DEF StartFails, TypeOK
<1>11. ASSUME NEW s \in Start, StartKilled(s) PROVE spc'[q] = "failed"
  BY <1>11
     DEF StartKilled, TypeOK
<1>12. ASSUME NEW r \in Rec, \/ RunByHand(r) \/ LooksForItself(r)
      \/ LooksForOthers(r) \/ Claims(r) \/ Opens(r) \/ Ticks(r)
      \/ TakesSignal(r) \/ ReadTimeline(r) \/ FinalJson(r) \/ RecorderFails(r)
      \/ Exits(r) \/ RecorderKilled(r)
      PROVE  spc'[q] = "failed"
  BY <1>1, <1>12 DEF RunByHand, LooksForItself, LooksForOthers, Claims, Opens,
     Ticks, TakesSignal, ReadTimeline, FinalJson, RecorderFails, Exits,
     RecorderKilled
<1>13. ASSUME NEW t \in Stop, \/ StopLooks(t) \/ Signals(t) \/ StopTimesOut(t)
      \/ SeesItGone(t) \/ ReadFinal(t) \/ ReadLast(t)
      PROVE  spc'[q] = "failed"
  BY <1>1, <1>13 DEF StopLooks, Signals, StopTimesOut, SeesItGone, ReadFinal,
     ReadLast, Answer
<1>14. ASSUME NEW n \in Note, NoteStep(n)
      PROVE  spc'[q] = "failed"
  BY <1>1, <1>14 DEF NoteStep, MarkLooks, StampLooks, StampLine, StampEnds, StampFails,
     StampAdrift, NoteDone, NGo
<1> QED
  BY <1>1, <1>2, <1>3, <1>4, <1>5, <1>6, <1>7, <1>8, <1>9, <1>10, <1>11, <1>12,
    <1>13, <1>14
     DEF Next, StartStep, RecStep, StopStep, NoteStep, Finished, vars

\* A recording is told to the stops under way before its recorder writes
\* record.json.
Told(r) == \A t \in Stop : tpc[t] \notin {"new", "done"} => r \in crossed'[t]

LEMMA NewWriter ==
  ASSUME TypeOK, StepInv, [Next]_vars, NEW q \in Writers'
  PROVE  q \in Writers \/ Told(q)
<1> USE DEF SGo, RGo, TGo, files, starts, papers, recs, stops, notes, past, Rec, Writers
<1>1. ASSUME UNCHANGED <<rpc>> PROVE q \in Writers \/ Told(q)
  BY <1>1
<1>2. ASSUME NEW s \in Start, Clear(s) PROVE q \in Writers \/ Told(q)
  BY <1>2
     DEF Clear, TypeOK
<1>3. ASSUME NEW s \in Start, GivesUp(s) PROVE q \in Writers \/ Told(q)
  BY <1>3
     DEF GivesUp, TypeOK
<1>4. ASSUME NEW r \in Rec, RunByHand(r) PROVE q \in Writers \/ Told(q)
  BY <1>4
     DEF RunByHand, TypeOK
<1>5. ASSUME NEW r \in Rec, LooksForItself(r) PROVE q \in Writers \/ Told(q)
  BY <1>5
     DEF LooksForItself, TypeOK
<1>6. ASSUME NEW r \in Rec, LooksForOthers(r) PROVE q \in Writers \/ Told(q)
  BY <1>6
     DEF LooksForOthers, TypeOK
<1>7. ASSUME NEW r \in Rec, Claims(r) PROVE q \in Writers \/ Told(q)
  BY <1>7
     DEF Claims, TypeOK
<1>8. ASSUME NEW r \in Rec, Opens(r) PROVE q \in Writers \/ Told(q)
  BY <1>8
     DEF Opens, Crosses, Told, TypeOK
<1>9. ASSUME NEW r \in Rec, Ticks(r) PROVE q \in Writers \/ Told(q)
  BY <1>9
     DEF Ticks, TypeOK
<1>10. ASSUME NEW r \in Rec, TakesSignal(r) PROVE q \in Writers \/ Told(q)
  BY <1>10
     DEF TakesSignal, TypeOK
<1>11. ASSUME NEW r \in Rec, ReadTimeline(r) PROVE q \in Writers \/ Told(q)
  BY <1>11
     DEF ReadTimeline, TypeOK
<1>12. ASSUME NEW r \in Rec, FinalJson(r) PROVE q \in Writers \/ Told(q)
  BY <1>12
     DEF FinalJson, TypeOK
<1>13. ASSUME NEW r \in Rec, RecorderFails(r) PROVE q \in Writers \/ Told(q)
  BY <1>13
     DEF RecorderFails, TypeOK
<1>14. ASSUME NEW r \in Rec, Exits(r) PROVE q \in Writers \/ Told(q)
  BY <1>14
     DEF Exits, TypeOK
<1>15. ASSUME NEW r \in Rec, RecorderKilled(r) PROVE q \in Writers \/ Told(q)
  BY <1>15
     DEF RecorderKilled, TypeOK
<1>16. ASSUME NEW t \in Stop, Signals(t) PROVE q \in Writers \/ Told(q)
  BY <1>16
     DEF Signals, TypeOK
<1>17. ASSUME NEW s \in Start, \/ LockBusy(s) \/ AlreadyRecording(s)
      \/ LooksClear(s) \/ NotePid(s) \/ SeesRecording(s) \/ SeesExit(s)
      \/ StartFails(s) \/ StartKilled(s)
      PROVE  q \in Writers \/ Told(q)
  BY <1>1, <1>17 DEF LockBusy, AlreadyRecording, LooksClear, NotePid,
     SeesRecording, SeesExit, StartFails, StartKilled
<1>18. ASSUME NEW t \in Stop, \/ StopLooks(t) \/ StopTimesOut(t)
      \/ SeesItGone(t) \/ ReadFinal(t) \/ ReadLast(t)
      PROVE  q \in Writers \/ Told(q)
  BY <1>1, <1>18 DEF StopLooks, StopTimesOut, SeesItGone, ReadFinal, ReadLast,
     Answer
<1>19. ASSUME NEW n \in Note, NoteStep(n)
      PROVE  q \in Writers \/ Told(q)
  BY <1>1, <1>19 DEF NoteStep, MarkLooks, StampLooks, StampLine, StampEnds, StampFails,
     StampAdrift, NoteDone, NGo
<1> QED
  BY <1>1, <1>2, <1>3, <1>4, <1>5, <1>6, <1>7, <1>8, <1>9, <1>10, <1>11, <1>12,
    <1>13, <1>14, <1>15, <1>16, <1>17, <1>18, <1>19
     DEF Next, StartStep, RecStep, StopStep, NoteStep, Finished, vars

\* Who writes record.json: a start that clears it, or a recorder that records,
\* has been told of, and has not come to its final state before.
JsonFrom ==
  \/ json' = json /\ \A q \in Rec : wrote'[q] = "final" => wrote[q] = "final"
  \/ /\ json' = NoJson /\ wrote' = wrote /\ pid' = None
     /\ \E s \in Start : rpc[s] = "off" /\ Told(s)
  \/ LET r == json'.of IN
     /\ r \in Rec /\ rpc[r] \in Recording \cup Ending /\ rpc'[r] \in Opened
     /\ r \in Writers \/ Told(r)
     /\ wrote[r] # "final" /\ (wrote'[r] = "final" => json'.is = "final")
     /\ \A q \in Rec : wrote'[q] = "final" => wrote[q] = "final" \/ q = r

LEMMA JsonSteps ==
  ASSUME TypeOK, StepInv, [Next]_vars
  PROVE  JsonFrom
<1> USE DEF SGo, RGo, TGo, files, starts, papers, recs, stops, notes, past, Rec
<1>1. ASSUME UNCHANGED <<json, wrote>> PROVE JsonFrom
  BY <1>1 DEF JsonFrom
<1>2. ASSUME NEW s \in Start, Clear(s) PROVE JsonFrom
  BY <1>2
     DEF Clear, RemovePid, Crosses, Told, JsonFrom, Recording, Ending, Opened,
       StepInv, TypeOK
<1>3. ASSUME NEW r \in Rec, Opens(r) PROVE JsonFrom
  BY <1>3
     DEF Opens, Crosses, Told, WriteJson, Writers, JsonFrom, Recording, Ending,
       Opened, StepInv, TypeOK
<1>4. ASSUME NEW r \in Rec, Ticks(r) PROVE JsonFrom
  BY <1>4
     DEF Ticks, WriteJson, Writers, JsonFrom, Recording, Ending, Opened, StepInv,
       TypeOK
<1>5. ASSUME NEW r \in Rec, ReadTimeline(r) PROVE JsonFrom
  BY <1>5
     DEF ReadTimeline, JsonFrom, TypeOK
<1>6. ASSUME NEW r \in Rec, FinalJson(r) PROVE JsonFrom
  BY <1>6
     DEF FinalJson, WriteJson, Writers, JsonFrom, Recording, Ending, Opened,
       StepInv, TypeOK
<1>7. ASSUME NEW s \in Start, \/ LockBusy(s) \/ AlreadyRecording(s)
      \/ LooksClear(s) \/ NotePid(s) \/ SeesRecording(s) \/ SeesExit(s)
      \/ GivesUp(s) \/ StartFails(s) \/ StartKilled(s)
      PROVE  JsonFrom
  BY <1>1, <1>7 DEF LockBusy, AlreadyRecording, LooksClear, NotePid,
     SeesRecording, SeesExit, GivesUp, StartFails, StartKilled
<1>8. ASSUME NEW r \in Rec, \/ RunByHand(r) \/ LooksForItself(r)
      \/ LooksForOthers(r) \/ Claims(r) \/ TakesSignal(r) \/ RecorderFails(r)
      \/ Exits(r) \/ RecorderKilled(r)
      PROVE  JsonFrom
  BY <1>1, <1>8 DEF RunByHand, LooksForItself, LooksForOthers, Claims,
     TakesSignal, RecorderFails, Exits, RecorderKilled
<1>9. ASSUME NEW t \in Stop, \/ StopLooks(t) \/ Signals(t) \/ StopTimesOut(t)
      \/ SeesItGone(t) \/ ReadFinal(t) \/ ReadLast(t)
      PROVE  JsonFrom
  BY <1>1, <1>9 DEF StopLooks, Signals, StopTimesOut, SeesItGone, ReadFinal,
     ReadLast, Answer
<1>10. ASSUME NEW n \in Note, NoteStep(n)
      PROVE  JsonFrom
  BY <1>1, <1>10 DEF NoteStep, MarkLooks, StampLooks, StampLine, StampEnds, StampFails,
     StampAdrift, NoteDone, NGo
<1> QED
  BY <1>1, <1>2, <1>3, <1>4, <1>5, <1>6, <1>7, <1>8, <1>9, <1>10
     DEF Next, StartStep, RecStep, StopStep, NoteStep, Finished, vars

\* A start clears record.json as it spawns its recorder.
LEMMA ClearsJson ==
  ASSUME TypeOK, StepInv, [Next]_vars, NEW q \in Start, ~Alive(q), Alive(q)'
  PROVE  json' = NoJson
<1> USE DEF SGo, RGo, TGo, files, starts, papers, recs, stops, notes, past, Rec
<1>1. ASSUME UNCHANGED <<rpc>> PROVE json' = NoJson
  BY <1>1 DEF Alive
<1>2. ASSUME NEW s \in Start, Clear(s) PROVE json' = NoJson
  BY <1>2
     DEF Clear, Alive, TypeOK
<1>3. ASSUME NEW s \in Start, GivesUp(s) PROVE json' = NoJson
  BY <1>3
     DEF GivesUp, Alive, TypeOK
<1>4. ASSUME NEW r \in Rec, RunByHand(r) PROVE json' = NoJson
  BY <1>4, RecdAssumption
     DEF RunByHand, Alive, TypeOK
<1>5. ASSUME NEW r \in Rec, LooksForItself(r) PROVE json' = NoJson
  BY <1>5
     DEF LooksForItself, Alive, TypeOK
<1>6. ASSUME NEW r \in Rec, LooksForOthers(r) PROVE json' = NoJson
  BY <1>6
     DEF LooksForOthers, Alive, TypeOK
<1>7. ASSUME NEW r \in Rec, Claims(r) PROVE json' = NoJson
  BY <1>7
     DEF Claims, Alive, TypeOK
<1>8. ASSUME NEW r \in Rec, Opens(r) PROVE json' = NoJson
  BY <1>8
     DEF Opens, Alive, TypeOK
<1>9. ASSUME NEW r \in Rec, Ticks(r) PROVE json' = NoJson
  BY <1>9
     DEF Ticks, Alive, TypeOK
<1>10. ASSUME NEW r \in Rec, TakesSignal(r) PROVE json' = NoJson
  BY <1>10
     DEF TakesSignal, Alive, TypeOK
<1>11. ASSUME NEW r \in Rec, ReadTimeline(r) PROVE json' = NoJson
  BY <1>11
     DEF ReadTimeline, Alive, TypeOK
<1>12. ASSUME NEW r \in Rec, FinalJson(r) PROVE json' = NoJson
  BY <1>12
     DEF FinalJson, Alive, TypeOK
<1>13. ASSUME NEW r \in Rec, RecorderFails(r) PROVE json' = NoJson
  BY <1>13
     DEF RecorderFails, Alive, TypeOK
<1>14. ASSUME NEW r \in Rec, Exits(r) PROVE json' = NoJson
  BY <1>14
     DEF Exits, Alive, TypeOK
<1>15. ASSUME NEW r \in Rec, RecorderKilled(r) PROVE json' = NoJson
  BY <1>15
     DEF RecorderKilled, Alive, TypeOK
<1>16. ASSUME NEW t \in Stop, Signals(t) PROVE json' = NoJson
  BY <1>16
     DEF Signals, Alive, TypeOK
<1>17. ASSUME NEW s \in Start, \/ LockBusy(s) \/ AlreadyRecording(s)
      \/ LooksClear(s) \/ NotePid(s) \/ SeesRecording(s) \/ SeesExit(s)
      \/ StartFails(s) \/ StartKilled(s)
      PROVE  json' = NoJson
  BY <1>1, <1>17 DEF LockBusy, AlreadyRecording, LooksClear, NotePid,
     SeesRecording, SeesExit, StartFails, StartKilled
<1>18. ASSUME NEW t \in Stop, \/ StopLooks(t) \/ StopTimesOut(t)
      \/ SeesItGone(t) \/ ReadFinal(t) \/ ReadLast(t)
      PROVE  json' = NoJson
  BY <1>1, <1>18 DEF StopLooks, StopTimesOut, SeesItGone, ReadFinal, ReadLast,
     Answer
<1>19. ASSUME NEW n \in Note, NoteStep(n)
      PROVE  json' = NoJson
  BY <1>1, <1>19 DEF NoteStep, MarkLooks, StampLooks, StampLine, StampEnds, StampFails,
     StampAdrift, NoteDone, NGo
<1> QED
  BY <1>1, <1>2, <1>3, <1>4, <1>5, <1>6, <1>7, <1>8, <1>9, <1>10, <1>11, <1>12,
    <1>13, <1>14, <1>15, <1>16, <1>17, <1>18, <1>19
     DEF Next, StartStep, RecStep, StopStep, NoteStep, Finished, vars

\* How far a stop comes in a step, and that what it knows only grows.
Waiting(t) ==
  /\ tpc[t] \notin {"new", "done"}
  /\ target'[t] = target[t] /\ crossed[t] \subseteq crossed'[t]
  /\ \/ tpc'[t] = tpc[t]
     \/ tpc[t] = "found" /\ tpc'[t] = "waits"
     \/ tpc[t] = "waits" /\ tpc'[t] = "read" /\ ~Alive(target[t]) /\ UNCHANGED rpc

StopMoves(t) ==
  \/ tpc'[t] \in {"new", "done"} /\ (crossed[t] = {} \/ tpc'[t] # tpc[t] => crossed'[t] = {})
  \/ Waiting(t)
  \/ StopLooks(t)

LEMMA StopSteps ==
  ASSUME TypeOK, [Next]_vars, NEW q \in Stop
  PROVE  StopMoves(q)
<1> USE DEF SGo, RGo, TGo, files, starts, papers, recs, stops, notes, past
<1>1. ASSUME UNCHANGED <<tpc, target, crossed>> PROVE StopMoves(q)
  BY <1>1 DEF StopMoves, Waiting, TypeOK
<1>2. ASSUME NEW s \in Start, Clear(s) PROVE StopMoves(q)
  BY <1>2
     DEF Clear, Crosses, StopMoves, Waiting, TypeOK
<1>3. ASSUME NEW r \in Rec, Opens(r) PROVE StopMoves(q)
  BY <1>3
     DEF Opens, Crosses, StopMoves, Waiting, TypeOK
<1>4. ASSUME NEW t \in Stop, StopLooks(t) PROVE StopMoves(q)
  BY <1>4
     DEF StopLooks, StopMoves, Waiting, TypeOK
<1>5. ASSUME NEW t \in Stop, Signals(t) PROVE StopMoves(q)
  BY <1>5
     DEF Signals, StopMoves, Waiting, TypeOK
<1>6. ASSUME NEW t \in Stop, StopTimesOut(t) PROVE StopMoves(q)
  BY <1>6
     DEF StopTimesOut, Answer, StopMoves, Waiting, TypeOK
<1>7. ASSUME NEW t \in Stop, SeesItGone(t) PROVE StopMoves(q)
  BY <1>7
     DEF SeesItGone, StopMoves, Waiting, TypeOK
<1>8. ASSUME NEW t \in Stop, ReadFinal(t) PROVE StopMoves(q)
  BY <1>8
     DEF ReadFinal, Answer, StopMoves, Waiting, TypeOK
<1>9. ASSUME NEW t \in Stop, ReadLast(t) PROVE StopMoves(q)
  BY <1>9
     DEF ReadLast, Answer, StopMoves, Waiting, TypeOK
<1>10. ASSUME NEW s \in Start, \/ LockBusy(s) \/ AlreadyRecording(s)
      \/ LooksClear(s) \/ NotePid(s) \/ SeesRecording(s) \/ SeesExit(s)
      \/ GivesUp(s) \/ StartFails(s) \/ StartKilled(s)
      PROVE  StopMoves(q)
  BY <1>1, <1>10 DEF LockBusy, AlreadyRecording, LooksClear, NotePid,
     SeesRecording, SeesExit, GivesUp, StartFails, StartKilled
<1>11. ASSUME NEW r \in Rec, \/ RunByHand(r) \/ LooksForItself(r)
      \/ LooksForOthers(r) \/ Claims(r) \/ Ticks(r) \/ TakesSignal(r)
      \/ ReadTimeline(r) \/ FinalJson(r) \/ RecorderFails(r) \/ Exits(r)
      \/ RecorderKilled(r)
      PROVE  StopMoves(q)
  BY <1>1, <1>11 DEF RunByHand, LooksForItself, LooksForOthers, Claims, Ticks,
     TakesSignal, ReadTimeline, FinalJson, RecorderFails, Exits, RecorderKilled
<1>12. ASSUME NEW n \in Note, NoteStep(n)
      PROVE  StopMoves(q)
  BY <1>1, <1>12 DEF NoteStep, MarkLooks, StampLooks, StampLine, StampEnds, StampFails,
     StampAdrift, NoteDone, NGo
<1> QED
  BY <1>1, <1>2, <1>3, <1>4, <1>5, <1>6, <1>7, <1>8, <1>9, <1>10, <1>11, <1>12
     DEF Next, StartStep, RecStep, StopStep, NoteStep, Finished, vars

-----------------------------------------------------------------------------
(* The recorders and the pid file *)

LEMMA StepNext ==
  ASSUME TypeOK, StepInv, [Next]_vars
  PROVE  StepInv'
<1> USE DEF SGo, RGo, TGo, files, starts, papers, recs, stops, notes, past, Rec
<1>1. ASSUME UNCHANGED <<spc, rpc, wrote, kept>> PROVE StepInv'
  BY <1>1 DEF StepInv
<1>2. ASSUME NEW s \in Start, LockBusy(s) PROVE StepInv'
  BY <1>2, RecdAssumption
     DEF LockBusy, StepInv, TypeOK
<1>3. ASSUME NEW s \in Start, AlreadyRecording(s) PROVE StepInv'
  BY <1>3, RecdAssumption
     DEF AlreadyRecording, StepInv, TypeOK
<1>4. ASSUME NEW s \in Start, LooksClear(s) PROVE StepInv'
  BY <1>4, RecdAssumption
     DEF LooksClear, StepInv, TypeOK
<1>5. ASSUME NEW s \in Start, Clear(s) PROVE StepInv'
  BY <1>5, RecdAssumption
     DEF Clear, StepInv, TypeOK
<1>6. ASSUME NEW s \in Start, NotePid(s) PROVE StepInv'
  BY <1>6, RecdAssumption
     DEF NotePid, StepInv, TypeOK
<1>7. ASSUME NEW s \in Start, SeesRecording(s) PROVE StepInv'
  BY <1>7, RecdAssumption
     DEF SeesRecording, StepInv, TypeOK
<1>8. ASSUME NEW s \in Start, SeesExit(s) PROVE StepInv'
  BY <1>8, RecdAssumption
     DEF SeesExit, StepInv, TypeOK
<1>9. ASSUME NEW s \in Start, GivesUp(s) PROVE StepInv'
  BY <1>9, RecdAssumption
     DEF GivesUp, StepInv, TypeOK
<1>10. ASSUME NEW s \in Start, StartFails(s) PROVE StepInv'
  BY <1>10, RecdAssumption
     DEF StartFails, StepInv, TypeOK
<1>11. ASSUME NEW s \in Start, StartKilled(s) PROVE StepInv'
  BY <1>11, RecdAssumption
     DEF StartKilled, StepInv, TypeOK
<1>12. ASSUME NEW r \in Rec, RunByHand(r) PROVE StepInv'
  BY <1>12, RecdAssumption
     DEF RunByHand, StepInv, TypeOK
<1>13. ASSUME NEW r \in Rec, LooksForItself(r) PROVE StepInv'
  BY <1>13, RecdAssumption
     DEF LooksForItself, StepInv, TypeOK
<1>14. ASSUME NEW r \in Rec, LooksForOthers(r) PROVE StepInv'
  BY <1>14, RecdAssumption
     DEF LooksForOthers, StepInv, TypeOK
<1>15. ASSUME NEW r \in Rec, Claims(r) PROVE StepInv'
  BY <1>15, RecdAssumption
     DEF Claims, StepInv, TypeOK
<1>16. ASSUME NEW r \in Rec, Opens(r) PROVE StepInv'
  BY <1>16, RecdAssumption
     DEF Opens, StepInv, TypeOK
<1>17. ASSUME NEW r \in Rec, Ticks(r) PROVE StepInv'
  BY <1>17, RecdAssumption
     DEF Ticks, StepInv, TypeOK
<1>18. ASSUME NEW r \in Rec, TakesSignal(r) PROVE StepInv'
  BY <1>18, RecdAssumption
     DEF TakesSignal, StepInv, TypeOK
<1>19. ASSUME NEW r \in Rec, ReadTimeline(r) PROVE StepInv'
  BY <1>19, RecdAssumption
     DEF ReadTimeline, StepInv, TypeOK
<1>20. ASSUME NEW r \in Rec, FinalJson(r) PROVE StepInv'
  BY <1>20, RecdAssumption
     DEF FinalJson, StepInv, TypeOK
<1>21. ASSUME NEW r \in Rec, RecorderFails(r) PROVE StepInv'
  BY <1>21, RecdAssumption
     DEF RecorderFails, StepInv, TypeOK
<1>22. ASSUME NEW r \in Rec, Exits(r) PROVE StepInv'
  BY <1>22, RecdAssumption
     DEF Exits, StepInv, TypeOK
<1>23. ASSUME NEW r \in Rec, RecorderKilled(r) PROVE StepInv'
  BY <1>23
     DEF RecorderKilled, StepInv, TypeOK, Alive
<1>24. ASSUME NEW t \in Stop, Signals(t) PROVE StepInv'
  BY <1>24, RecdAssumption
     DEF Signals, StepInv, TypeOK
<1>25. ASSUME NEW t \in Stop, \/ StopLooks(t) \/ StopTimesOut(t)
      \/ SeesItGone(t) \/ ReadFinal(t) \/ ReadLast(t)
      PROVE  StepInv'
  BY <1>1, <1>25 DEF StopLooks, StopTimesOut, SeesItGone, ReadFinal, ReadLast,
     Answer
<1>26. ASSUME NEW n \in Note, NoteStep(n)
      PROVE  StepInv'
  BY <1>1, <1>26 DEF NoteStep, MarkLooks, StampLooks, StampLine, StampEnds, StampFails,
     StampAdrift, NoteDone, NGo
<1> QED
  BY <1>1, <1>2, <1>3, <1>4, <1>5, <1>6, <1>7, <1>8, <1>9, <1>10, <1>11, <1>12,
    <1>13, <1>14, <1>15, <1>16, <1>17, <1>18, <1>19, <1>20, <1>21, <1>22, <1>23,
    <1>24, <1>25, <1>26
     DEF Next, StartStep, RecStep, StopStep, NoteStep, Finished, vars

\* Whoever comes to record is in the pid file already.
LEMMA PidNext ==
  ASSUME TypeOK, StepInv, PidInv, [Next]_vars
  PROVE  PidInv'
<1> SUFFICES ASSUME ~strayed', NEW q \in Rec, rpc'[q] \in Recording \cup Ending
             PROVE  pid' = q
  BY DEF PidInv
<1> DEFINE Was == rpc[q] \in Recording \cup Ending
<1>1. ~strayed /\ (Was => pid' = q)
  <2>1. Was /\ rpc'[q] \in Recording \cup Ending => Alive(q) /\ Alive(q)'
    BY DEF Alive, Recording, Ending
  <2> QED
    BY <2>1, PidStays DEF PidInv
<1> USE DEF SGo, RGo, TGo, files, starts, papers, recs, stops, notes, past, Rec
<1>2. ASSUME UNCHANGED <<rpc>> PROVE pid' = q
  BY <1>2, <1>1
<1>3. ASSUME NEW s \in Start, Clear(s) PROVE pid' = q
  BY <1>3, <1>1
     DEF Clear, TypeOK, Recording, Ending
<1>4. ASSUME NEW s \in Start, GivesUp(s) PROVE pid' = q
  BY <1>4, <1>1
     DEF GivesUp, TypeOK, Recording, Ending
<1>5. ASSUME NEW r \in Rec, RunByHand(r) PROVE pid' = q
  BY <1>5, <1>1
     DEF RunByHand, TypeOK, Recording, Ending
<1>6. ASSUME NEW r \in Rec, LooksForItself(r) PROVE pid' = q
  BY <1>6, <1>1, RunningIs
     DEF LooksForItself, TypeOK, Recording, Ending
<1>7. ASSUME NEW r \in Rec, LooksForOthers(r) PROVE pid' = q
  BY <1>7, <1>1
     DEF LooksForOthers, TypeOK, Recording, Ending
<1>8. ASSUME NEW r \in Rec, Claims(r) PROVE pid' = q
  BY <1>8, <1>1
     DEF Claims, TypeOK, Recording, Ending, WritePid
<1>9. ASSUME NEW r \in Rec, Opens(r) PROVE pid' = q
  BY <1>9, <1>1
     DEF Opens, TypeOK, Recording, Ending
<1>10. ASSUME NEW r \in Rec, Ticks(r) PROVE pid' = q
  BY <1>10, <1>1
     DEF Ticks, TypeOK, Recording, Ending
<1>11. ASSUME NEW r \in Rec, TakesSignal(r) PROVE pid' = q
  BY <1>11, <1>1
     DEF TakesSignal, TypeOK, Recording, Ending
<1>12. ASSUME NEW r \in Rec, ReadTimeline(r) PROVE pid' = q
  BY <1>12, <1>1
     DEF ReadTimeline, TypeOK, Recording, Ending
<1>13. ASSUME NEW r \in Rec, FinalJson(r) PROVE pid' = q
  BY <1>13, <1>1
     DEF FinalJson, TypeOK, Recording, Ending
<1>14. ASSUME NEW r \in Rec, RecorderFails(r) PROVE pid' = q
  BY <1>14, <1>1
     DEF RecorderFails, TypeOK, Recording, Ending
<1>15. ASSUME NEW r \in Rec, Exits(r) PROVE pid' = q
  BY <1>15, <1>1
     DEF Exits, TypeOK, Recording, Ending
<1>16. ASSUME NEW r \in Rec, RecorderKilled(r) PROVE pid' = q
  BY <1>16, <1>1
     DEF RecorderKilled, TypeOK, Recording, Ending
<1>17. ASSUME NEW t \in Stop, Signals(t) PROVE pid' = q
  BY <1>17, <1>1
     DEF Signals, TypeOK, Recording, Ending
<1>18. ASSUME NEW s \in Start, \/ LockBusy(s) \/ AlreadyRecording(s)
      \/ LooksClear(s) \/ NotePid(s) \/ SeesRecording(s) \/ SeesExit(s)
      \/ StartFails(s) \/ StartKilled(s)
      PROVE  pid' = q
  BY <1>2, <1>18 DEF LockBusy, AlreadyRecording, LooksClear, NotePid,
     SeesRecording, SeesExit, StartFails, StartKilled
<1>19. ASSUME NEW t \in Stop, \/ StopLooks(t) \/ StopTimesOut(t)
      \/ SeesItGone(t) \/ ReadFinal(t) \/ ReadLast(t)
      PROVE  pid' = q
  BY <1>2, <1>19 DEF StopLooks, StopTimesOut, SeesItGone, ReadFinal, ReadLast,
     Answer
<1>20. ASSUME NEW n \in Note, NoteStep(n)
      PROVE  pid' = q
  BY <1>2, <1>20 DEF NoteStep, MarkLooks, StampLooks, StampLine, StampEnds, StampFails,
     StampAdrift, NoteDone, NGo
<1> QED
  BY <1>2, <1>3, <1>4, <1>5, <1>6, <1>7, <1>8, <1>9, <1>10, <1>11, <1>12, <1>13,
    <1>14, <1>15, <1>16, <1>17, <1>18, <1>19, <1>20
     DEF Next, StartStep, RecStep, StopStep, NoteStep, Finished, vars

LEMMA WatchNext ==
  ASSUME TypeOK, TypeOK', StepInv, WatchInv, [Next]_vars
  PROVE  WatchInv'
<1> SUFFICES ASSUME ~strayed', NEW q \in Start, Alive(q)', spc'[q] # "failed"
             PROVE  lock' = q \/ (lock' = None /\ pid' = q)
  BY DEF WatchInv
<1> DEFINE Held == lock' = q \/ (lock' = None /\ pid' = q)
<1>1. q \in Rec /\ ~strayed /\ spc[q] # "failed"
  BY PidStays, Failed DEF Rec
<1>2. Alive(q) => lock = q \/ (lock = None /\ pid = q /\ pid' = q)
  BY <1>1, PidStays DEF WatchInv
<1>3. ASSUME Alive(q), UNCHANGED lock PROVE Held
  BY <1>2, <1>3
<1>4. Onward(q)
  BY <1>1, Forward
<1> USE DEF SGo, RGo, TGo, files, starts, papers, recs, stops, notes, past, Rec
<1>5. ASSUME UNCHANGED <<lock, rpc>> PROVE Held
  BY <1>5, <1>3 DEF Alive
<1>6. ASSUME NEW s \in Start, LooksClear(s) PROVE Held
  BY <1>6, <1>1, <1>2, RunningIs, RecdAssumption
     DEF LooksClear, Alive
<1>7. ASSUME NEW s \in Start, Clear(s) PROVE Held
  BY <1>7, <1>1, <1>2
     DEF Clear, TypeOK, Alive
<1>8. ASSUME NEW s \in Start, NotePid(s) PROVE Held
  BY <1>8, <1>1, <1>2, RecdAssumption
     DEF NotePid, WritePid, TypeOK, Alive
<1>9. ASSUME NEW s \in Start, GivesUp(s) PROVE Held
  BY <1>9, <1>1, <1>3, <1>4
     DEF GivesUp, Onward, Alive, TypeOK
<1>10. ASSUME NEW s \in Start, StartKilled(s) PROVE Held
  BY <1>10, <1>1, <1>2, RecdAssumption
     DEF StartKilled, TypeOK, Alive
<1>11. ASSUME NEW r \in Rec, RunByHand(r) PROVE Held
  BY <1>11, <1>1, <1>3, <1>4, RecdAssumption
     DEF RunByHand, Onward, Alive, TypeOK
<1>12. ASSUME NEW r \in Rec, LooksForItself(r) PROVE Held
  BY <1>12, <1>1, <1>3, <1>4
     DEF LooksForItself, Onward, Alive, TypeOK
<1>13. ASSUME NEW r \in Rec, LooksForOthers(r) PROVE Held
  BY <1>13, <1>1, <1>3, <1>4
     DEF LooksForOthers, Onward, Alive, TypeOK
<1>14. ASSUME NEW r \in Rec, Claims(r) PROVE Held
  BY <1>14, <1>1, <1>3, <1>4
     DEF Claims, Onward, Alive, TypeOK
<1>15. ASSUME NEW r \in Rec, Opens(r) PROVE Held
  BY <1>15, <1>1, <1>3, <1>4
     DEF Opens, Onward, Alive, TypeOK
<1>16. ASSUME NEW r \in Rec, Ticks(r) PROVE Held
  BY <1>16, <1>1, <1>3, <1>4
     DEF Ticks, Onward, Alive, TypeOK
<1>17. ASSUME NEW r \in Rec, TakesSignal(r) PROVE Held
  BY <1>17, <1>1, <1>3, <1>4
     DEF TakesSignal, Onward, Alive, TypeOK
<1>18. ASSUME NEW r \in Rec, ReadTimeline(r) PROVE Held
  BY <1>18, <1>1, <1>3, <1>4
     DEF ReadTimeline, Onward, Alive, TypeOK
<1>19. ASSUME NEW r \in Rec, FinalJson(r) PROVE Held
  BY <1>19, <1>1, <1>3, <1>4
     DEF FinalJson, Onward, Alive, TypeOK
<1>20. ASSUME NEW r \in Rec, RecorderFails(r) PROVE Held
  BY <1>20, <1>1, <1>3, <1>4
     DEF RecorderFails, Onward, Alive, TypeOK
<1>21. ASSUME NEW r \in Rec, Exits(r) PROVE Held
  BY <1>21, <1>1, <1>3, <1>4
     DEF Exits, Onward, Alive, TypeOK
<1>22. ASSUME NEW r \in Rec, RecorderKilled(r) PROVE Held
  BY <1>22, <1>1, <1>3, <1>4
     DEF RecorderKilled, Onward, Alive, TypeOK
<1>23. ASSUME NEW t \in Stop, Signals(t) PROVE Held
  BY <1>23, <1>1, <1>3, <1>4
     DEF Signals, Onward, Alive, TypeOK
<1>24. ASSUME NEW s \in Start, \/ LockBusy(s) \/ AlreadyRecording(s)
      \/ SeesRecording(s) \/ SeesExit(s) \/ StartFails(s)
      PROVE  Held
  BY <1>5, <1>24 DEF LockBusy, AlreadyRecording, SeesRecording, SeesExit,
     StartFails
<1>25. ASSUME NEW t \in Stop, \/ StopLooks(t) \/ StopTimesOut(t)
      \/ SeesItGone(t) \/ ReadFinal(t) \/ ReadLast(t)
      PROVE  Held
  BY <1>5, <1>25 DEF StopLooks, StopTimesOut, SeesItGone, ReadFinal, ReadLast,
     Answer
<1>26. ASSUME NEW n \in Note, NoteStep(n)
      PROVE  Held
  BY <1>5, <1>26 DEF NoteStep, MarkLooks, StampLooks, StampLine, StampEnds, StampFails,
     StampAdrift, NoteDone, NGo
<1> QED
  BY <1>5, <1>6, <1>7, <1>8, <1>9, <1>10, <1>11, <1>12, <1>13, <1>14, <1>15,
    <1>16, <1>17, <1>18, <1>19, <1>20, <1>21, <1>22, <1>23, <1>24, <1>25, <1>26
     DEF Next, StartStep, RecStep, StopStep, NoteStep, Finished, vars

\* Nobody was killed, nothing is run by hand and no start has failed.
Calm ==
  ~killed /\ (\A h \in Hand : rpc[h] = "off") /\ \A s \in Start : spc[s] # "failed"

LEMMA CalmBefore ==
  ASSUME TypeOK, StepInv, [Next]_vars, Calm'
  PROVE  Calm
<1>1. \A h \in Hand : rpc[h] = "off"
  BY Forward DEF Onward, Calm, Rec
<1>2. \A s \in Start : spc[s] # "failed"
  BY Failed DEF Calm
<1> USE DEF SGo, RGo, TGo, files, starts, papers, recs, stops, notes, past
<1>3. ASSUME UNCHANGED <<killed>> PROVE ~killed
  BY <1>3 DEF Calm
<1>4. ASSUME NEW s \in Start, StartKilled(s) PROVE ~killed
  BY <1>4
     DEF StartKilled, Calm
<1>5. ASSUME NEW r \in Rec, RecorderKilled(r) PROVE ~killed
  BY <1>5
     DEF RecorderKilled, Calm
<1>6. ASSUME NEW s \in Start, \/ LockBusy(s) \/ AlreadyRecording(s)
      \/ LooksClear(s) \/ Clear(s) \/ NotePid(s) \/ SeesRecording(s)
      \/ SeesExit(s) \/ GivesUp(s) \/ StartFails(s)
      PROVE  ~killed
  BY <1>3, <1>6 DEF LockBusy, AlreadyRecording, LooksClear, Clear, NotePid,
     SeesRecording, SeesExit, GivesUp, StartFails
<1>7. ASSUME NEW r \in Rec, \/ RunByHand(r) \/ LooksForItself(r)
      \/ LooksForOthers(r) \/ Claims(r) \/ Opens(r) \/ Ticks(r)
      \/ TakesSignal(r) \/ ReadTimeline(r) \/ FinalJson(r) \/ RecorderFails(r)
      \/ Exits(r)
      PROVE  ~killed
  BY <1>3, <1>7 DEF RunByHand, LooksForItself, LooksForOthers, Claims, Opens,
     Ticks, TakesSignal, ReadTimeline, FinalJson, RecorderFails, Exits
<1>8. ASSUME NEW t \in Stop, \/ StopLooks(t) \/ Signals(t) \/ StopTimesOut(t)
      \/ SeesItGone(t) \/ ReadFinal(t) \/ ReadLast(t)
      PROVE  ~killed
  BY <1>3, <1>8 DEF StopLooks, Signals, StopTimesOut, SeesItGone, ReadFinal,
     ReadLast, Answer
<1>9. ASSUME NEW n \in Note, NoteStep(n)
      PROVE  ~killed
  BY <1>3, <1>9 DEF NoteStep, MarkLooks, StampLooks, StampLine, StampEnds, StampFails,
     StampAdrift, NoteDone, NGo
<1>10. ~killed
  BY <1>3, <1>4, <1>5, <1>6, <1>7, <1>8, <1>9
     DEF Next, StartStep, RecStep, StopStep, NoteStep, Finished, vars
<1> QED
  BY <1>1, <1>2, <1>10 DEF Calm

LEMMA CalmNext ==
  ASSUME TypeOK, StepInv, WatchInv, CalmInv, [Next]_vars
  PROVE  CalmInv'
<1> SUFFICES ASSUME Calm' PROVE ~strayed'
  BY DEF CalmInv, Calm
<1>1. Calm /\ ~strayed
  BY CalmBefore DEF CalmInv, Calm
<1>2. \A r \in Rec : Alive(r) => lock = r \/ (lock = None /\ pid = r)
  BY <1>1 DEF Calm, WatchInv, Alive, Rec
<1>3. Running = None \/ (Running \in Rec /\ Alive(Running) /\ pid = Running)
  BY RunningIs
<1>4. ASSUME NEW r \in Rec, Alive(r) \/ lock = r PROVE Running \in {None, r}
  BY <1>2, <1>3, <1>4, RecdAssumption DEF Rec
<1> USE DEF SGo, RGo, TGo, files, starts, papers, recs, stops, notes, past, Rec
<1>5. ASSUME UNCHANGED <<strayed>> PROVE ~strayed'
  BY <1>5, <1>1
<1>6. ASSUME NEW s \in Start, Clear(s) PROVE ~strayed'
  BY <1>6, <1>1, <1>4
     DEF Clear, RemovePid, TypeOK
<1>7. ASSUME NEW s \in Start, NotePid(s) PROVE ~strayed'
  BY <1>7, <1>1, <1>4
     DEF NotePid, WritePid, TypeOK
<1>8. ASSUME NEW s \in Start, StartFails(s) PROVE ~strayed'
  BY <1>8
     DEF StartFails, Calm, TypeOK
<1>9. ASSUME NEW r \in Rec, Claims(r) PROVE ~strayed'
  BY <1>9, <1>1, <1>4
     DEF Claims, WritePid, Alive
<1>10. ASSUME NEW r \in Rec, Exits(r) PROVE ~strayed'
  BY <1>10, <1>1, <1>4
     DEF Exits, RemovePid, Alive
<1>11. ASSUME NEW s \in Start, \/ LockBusy(s) \/ AlreadyRecording(s)
      \/ LooksClear(s) \/ SeesRecording(s) \/ SeesExit(s) \/ GivesUp(s)
      \/ StartKilled(s)
      PROVE  ~strayed'
  BY <1>5, <1>11 DEF LockBusy, AlreadyRecording, LooksClear, SeesRecording,
     SeesExit, GivesUp, StartKilled
<1>12. ASSUME NEW r \in Rec, \/ RunByHand(r) \/ LooksForItself(r)
      \/ LooksForOthers(r) \/ Opens(r) \/ Ticks(r) \/ TakesSignal(r)
      \/ ReadTimeline(r) \/ FinalJson(r) \/ RecorderFails(r) \/ RecorderKilled(r)
      PROVE  ~strayed'
  BY <1>5, <1>12 DEF RunByHand, LooksForItself, LooksForOthers, Opens, Ticks,
     TakesSignal, ReadTimeline, FinalJson, RecorderFails, RecorderKilled
<1>13. ASSUME NEW t \in Stop, \/ StopLooks(t) \/ Signals(t) \/ StopTimesOut(t)
      \/ SeesItGone(t) \/ ReadFinal(t) \/ ReadLast(t)
      PROVE  ~strayed'
  BY <1>5, <1>13 DEF StopLooks, Signals, StopTimesOut, SeesItGone, ReadFinal,
     ReadLast, Answer
<1>14. ASSUME NEW n \in Note, NoteStep(n)
      PROVE  ~strayed'
  BY <1>5, <1>14 DEF NoteStep, MarkLooks, StampLooks, StampLine, StampEnds, StampFails,
     StampAdrift, NoteDone, NGo
<1> QED
  BY <1>5, <1>6, <1>7, <1>8, <1>9, <1>10, <1>11, <1>12, <1>13, <1>14
     DEF Next, StartStep, RecStep, StopStep, NoteStep, Finished, vars

-----------------------------------------------------------------------------
(* Notes *)

\* What befell a note is not forgotten.
LEMMA BefellStays ==
  ASSUME TypeOK, [Next]_vars
  PROVE  failed \subseteq failed' /\ shared \subseteq shared'
<1> DEFINE Stays == failed \subseteq failed' /\ shared \subseteq shared'
<1> USE DEF SGo, RGo, TGo, files, starts, papers, recs, stops, notes, past
<1>1. ASSUME UNCHANGED <<failed, shared>> PROVE Stays
  BY <1>1
<1>2. ASSUME NEW n \in Note, NoteStep(n) PROVE Stays
  BY <1>2
     DEF NoteStep, MarkLooks, StampLooks, StampLine, StampEnds, StampFails, StampAdrift
<1>3. ASSUME NEW s \in Start, \/ LockBusy(s) \/ AlreadyRecording(s)
      \/ LooksClear(s) \/ Clear(s) \/ NotePid(s) \/ SeesRecording(s)
      \/ SeesExit(s) \/ GivesUp(s) \/ StartFails(s) \/ StartKilled(s)
      PROVE  Stays
  BY <1>1, <1>3 DEF LockBusy, AlreadyRecording, LooksClear, Clear, NotePid,
     SeesRecording, SeesExit, GivesUp, StartFails, StartKilled
<1>4. ASSUME NEW r \in Rec, \/ RunByHand(r) \/ LooksForItself(r)
      \/ LooksForOthers(r) \/ Claims(r) \/ Opens(r) \/ Ticks(r)
      \/ TakesSignal(r) \/ ReadTimeline(r) \/ FinalJson(r) \/ RecorderFails(r)
      \/ Exits(r) \/ RecorderKilled(r)
      PROVE  Stays
  BY <1>1, <1>4 DEF RunByHand, LooksForItself, LooksForOthers, Claims, Opens,
     Ticks, TakesSignal, ReadTimeline, FinalJson, RecorderFails, Exits,
     RecorderKilled
<1>5. ASSUME NEW t \in Stop, \/ StopLooks(t) \/ Signals(t) \/ StopTimesOut(t)
      \/ SeesItGone(t) \/ ReadFinal(t) \/ ReadLast(t)
      PROVE  Stays
  BY <1>1, <1>5 DEF StopLooks, Signals, StopTimesOut, SeesItGone, ReadFinal,
     ReadLast, Answer
<1> QED
  BY <1>1, <1>2, <1>3, <1>4, <1>5
     DEF Next, StartStep, RecStep, StopStep, Finished, vars

\* The last line is what TailInv says of it.
LEMMA TailNext ==
  ASSUME TypeOK, TailInv, [Next]_vars
  PROVE  TailInv'
<1> USE DEF SGo, RGo, TGo, files, starts, papers, recs, stops, notes, past
<1>1. ASSUME UNCHANGED <<npc, timeline, tail, failed, shared>> PROVE TailInv'
  BY <1>1 DEF TailInv
<1>2. ASSUME NEW s \in Start, Clear(s) PROVE TailInv'
  BY <1>2
     DEF Clear, DropTimeline, TailInv, TypeOK
<1>3. ASSUME NEW n \in Note, MarkLooks(n) PROVE TailInv'
  BY <1>3
     DEF MarkLooks, TailInv, TypeOK
<1>4. ASSUME NEW n \in Note, StampLooks(n) PROVE TailInv'
  BY <1>4
     DEF StampLooks, NoteDone, TailInv, TypeOK
<1>5. ASSUME NEW n \in Note, StampLine(n) PROVE TailInv'
  <2>1. tail' \subseteq {m \in Note : npc'[m] = "ending"} \cup failed'
    BY <1>5 DEF StampLine, NGo, TailInv, TypeOK
  <2>2. ASSUME NEW m \in Note, npc'[m] = "ending", m \notin shared'
        PROVE  tail' = {m} \/ m \in timeline'
    <3>1. CASE tail = {}
      BY <1>5, <2>2, <3>1 DEF StampLine, NGo, TailInv, TypeOK
    <3>2. CASE tail # {}
      <4>1. m \notin tail /\ m # n /\ m \notin shared /\ timeline' = timeline
        BY <1>5, <2>2, <3>2 DEF StampLine
      <4>2. npc[m] = "ending"
        BY <1>5, <2>2, <4>1 DEF StampLine, NGo, TypeOK
      <4> QED
        BY <4>1, <4>2 DEF TailInv
    <3> QED
      BY <3>1, <3>2
  <2> QED
    BY <2>1, <2>2 DEF TailInv
<1>6. ASSUME NEW n \in Note, StampEnds(n) PROVE TailInv'
  BY <1>6
     DEF StampEnds, NoteDone, Alone, TailInv, TypeOK
<1>7. ASSUME NEW n \in Note, StampFails(n) PROVE TailInv'
  BY <1>7
     DEF StampFails, NoteDone, TailInv, TypeOK
<1>8. ASSUME NEW n \in Note, StampAdrift(n) PROVE TailInv'
  BY <1>8
     DEF StampAdrift, NoteDone, TailInv, TypeOK
<1>9. ASSUME NEW s \in Start, \/ LockBusy(s) \/ AlreadyRecording(s)
      \/ LooksClear(s) \/ NotePid(s) \/ SeesRecording(s) \/ SeesExit(s)
      \/ GivesUp(s) \/ StartFails(s) \/ StartKilled(s)
      PROVE  TailInv'
  BY <1>1, <1>9 DEF LockBusy, AlreadyRecording, LooksClear, NotePid,
     SeesRecording, SeesExit, GivesUp, StartFails, StartKilled
<1>10. ASSUME NEW r \in Rec, \/ RunByHand(r) \/ LooksForItself(r)
      \/ LooksForOthers(r) \/ Claims(r) \/ Opens(r) \/ Ticks(r)
      \/ TakesSignal(r) \/ ReadTimeline(r) \/ FinalJson(r) \/ RecorderFails(r)
      \/ Exits(r) \/ RecorderKilled(r)
      PROVE  TailInv'
  BY <1>1, <1>10 DEF RunByHand, LooksForItself, LooksForOthers, Claims, Opens,
     Ticks, TakesSignal, ReadTimeline, FinalJson, RecorderFails, Exits,
     RecorderKilled
<1>11. ASSUME NEW t \in Stop, \/ StopLooks(t) \/ Signals(t) \/ StopTimesOut(t)
      \/ SeesItGone(t) \/ ReadFinal(t) \/ ReadLast(t)
      PROVE  TailInv'
  BY <1>1, <1>11 DEF StopLooks, Signals, StopTimesOut, SeesItGone, ReadFinal,
     ReadLast, Answer
<1> QED
  BY <1>1, <1>2, <1>3, <1>4, <1>5, <1>6, <1>7, <1>8, <1>9, <1>10, <1>11
     DEF Next, StartStep, RecStep, StopStep, NoteStep, Finished, vars

\* What a note saw is what ran, and it comes to be in time only where it is in
\* the timeline, something befell it, nobody runs, or its file has gone.
NoteMoves(n) ==
  \/ npc'[n] = npc[n] /\ saw'[n] = saw[n] /\ (n \in intime' <=> n \in intime)
  \/ /\ npc[n] = "ending" /\ npc'[n] = "adrift" /\ saw'[n] = saw[n]
     /\ (n \in intime' <=> n \in intime)
     /\ \E s \in Start : Clear(s)
  \/ /\ npc[n] # "done" /\ npc'[n] # "adrift" /\ UNCHANGED <<rpc, pid, strayed>>
     /\ saw'[n] \in {saw[n], Running, None}
     /\ n \in intime' /\ n \notin intime =>
          /\ npc'[n] = "done" /\ saw'[n] = saw[n] /\ saw[n] # None
          /\ rpc[saw[n]] \in Unread
          /\ n \in timeline' \cup failed' \cup shared' \/ Running = None \/ npc[n] = "adrift"

LEMMA NoteSteps ==
  ASSUME TypeOK, SawInv, TailInv, [Next]_vars, NEW q \in Note
  PROVE  NoteMoves(q)
<1> USE DEF SGo, RGo, TGo, files, starts, papers, recs, stops, notes, past
<1>1. ASSUME UNCHANGED <<npc, saw, intime>> PROVE NoteMoves(q)
  BY <1>1 DEF NoteMoves
<1>2. ASSUME NEW n \in Note, MarkLooks(n) PROVE NoteMoves(q)
  BY <1>2
     DEF MarkLooks, NoteMoves, TypeOK, SawInv
<1>3. ASSUME NEW n \in Note, StampLooks(n) PROVE NoteMoves(q)
  BY <1>3
     DEF StampLooks, NoteMoves, TypeOK, SawInv, NoteDone
<1>4. ASSUME NEW n \in Note, StampLine(n) PROVE NoteMoves(q)
  BY <1>4
     DEF StampLine, NGo, NoteMoves, TypeOK, SawInv
<1>8. ASSUME NEW n \in Note, StampEnds(n) PROVE NoteMoves(q)
  <2>1. n \in timeline' \cup shared'
    BY <1>8 DEF StampEnds, Alone, TailInv
  <2> QED
    BY <1>8, <2>1
       DEF StampEnds, NoteMoves, TypeOK, SawInv, NoteDone
<1>9. ASSUME NEW n \in Note, StampFails(n) PROVE NoteMoves(q)
  BY <1>9
     DEF StampFails, NoteMoves, TypeOK, SawInv, NoteDone
<1>10. ASSUME NEW n \in Note, StampAdrift(n) PROVE NoteMoves(q)
  BY <1>10
     DEF StampAdrift, NoteMoves, TypeOK, SawInv, NoteDone
<1>11. ASSUME NEW s \in Start, Clear(s) PROVE NoteMoves(q)
  BY <1>11
     DEF Clear, DropTimeline, NoteMoves, TypeOK
<1>5. ASSUME NEW s \in Start, \/ LockBusy(s) \/ AlreadyRecording(s)
      \/ LooksClear(s) \/ NotePid(s) \/ SeesRecording(s)
      \/ SeesExit(s) \/ GivesUp(s) \/ StartFails(s) \/ StartKilled(s)
      PROVE  NoteMoves(q)
  BY <1>1, <1>5 DEF LockBusy, AlreadyRecording, LooksClear, NotePid,
     SeesRecording, SeesExit, GivesUp, StartFails, StartKilled
<1>6. ASSUME NEW r \in Rec, \/ RunByHand(r) \/ LooksForItself(r)
      \/ LooksForOthers(r) \/ Claims(r) \/ Opens(r) \/ Ticks(r)
      \/ TakesSignal(r) \/ ReadTimeline(r) \/ FinalJson(r) \/ RecorderFails(r)
      \/ Exits(r) \/ RecorderKilled(r)
      PROVE  NoteMoves(q)
  BY <1>1, <1>6 DEF RunByHand, LooksForItself, LooksForOthers, Claims, Opens,
     Ticks, TakesSignal, ReadTimeline, FinalJson, RecorderFails, Exits,
     RecorderKilled
<1>7. ASSUME NEW t \in Stop, \/ StopLooks(t) \/ Signals(t) \/ StopTimesOut(t)
      \/ SeesItGone(t) \/ ReadFinal(t) \/ ReadLast(t)
      PROVE  NoteMoves(q)
  BY <1>1, <1>7 DEF StopLooks, Signals, StopTimesOut, SeesItGone, ReadFinal,
     ReadLast, Answer
<1> QED
  BY <1>1, <1>2, <1>3, <1>4, <1>5, <1>6, <1>7, <1>8, <1>9,
    <1>10, <1>11
     DEF Next, StartStep, RecStep, StopStep, NoteStep, Finished, vars

\* A note stays in the timeline unless a start clears it.
LEMMA TimelineKept ==
  ASSUME TypeOK, StepInv, [Next]_vars, ~strayed', NEW q \in Rec, pid = q, Alive(q)
  PROVE  timeline \subseteq timeline'
<1> USE DEF SGo, RGo, TGo, files, starts, papers, recs, stops, notes, past, Rec
<1>1. ASSUME UNCHANGED <<timeline>> PROVE timeline \subseteq timeline'
  BY <1>1
<1>2. ASSUME NEW s \in Start, Clear(s) PROVE timeline \subseteq timeline'
  BY <1>2, RunningIs, RecdAssumption
     DEF Clear, RemovePid, StepInv, Alive
<1>3. ASSUME NEW n \in Note, StampEnds(n) PROVE timeline \subseteq timeline'
  BY <1>3
     DEF StampEnds
<1>4. ASSUME NEW s \in Start, \/ LockBusy(s) \/ AlreadyRecording(s)
      \/ LooksClear(s) \/ NotePid(s) \/ SeesRecording(s) \/ SeesExit(s)
      \/ GivesUp(s) \/ StartFails(s) \/ StartKilled(s)
      PROVE  timeline \subseteq timeline'
  BY <1>1, <1>4 DEF LockBusy, AlreadyRecording, LooksClear, NotePid,
     SeesRecording, SeesExit, GivesUp, StartFails, StartKilled
<1>5. ASSUME NEW r \in Rec, \/ RunByHand(r) \/ LooksForItself(r)
      \/ LooksForOthers(r) \/ Claims(r) \/ Opens(r) \/ Ticks(r)
      \/ TakesSignal(r) \/ ReadTimeline(r) \/ FinalJson(r) \/ RecorderFails(r)
      \/ Exits(r) \/ RecorderKilled(r)
      PROVE  timeline \subseteq timeline'
  BY <1>1, <1>5 DEF RunByHand, LooksForItself, LooksForOthers, Claims, Opens,
     Ticks, TakesSignal, ReadTimeline, FinalJson, RecorderFails, Exits,
     RecorderKilled
<1>6. ASSUME NEW t \in Stop, \/ StopLooks(t) \/ Signals(t) \/ StopTimesOut(t)
      \/ SeesItGone(t) \/ ReadFinal(t) \/ ReadLast(t)
      PROVE  timeline \subseteq timeline'
  BY <1>1, <1>6 DEF StopLooks, Signals, StopTimesOut, SeesItGone, ReadFinal,
     ReadLast, Answer
<1>7. ASSUME NEW n \in Note, \/ MarkLooks(n) \/ StampLooks(n)
      \/ StampLine(n) \/ StampFails(n) \/ StampAdrift(n)
      PROVE  timeline \subseteq timeline'
  BY <1>1, <1>7 DEF MarkLooks, StampLooks, StampLine, StampFails, StampAdrift,
     NoteDone
<1> QED
  BY <1>1, <1>2, <1>3, <1>4, <1>5, <1>6, <1>7
     DEF Next, StartStep, RecStep, StopStep, NoteStep, Finished, vars

LEMMA SawNext ==
  ASSUME TypeOK, TypeOK', StepInv, SawInv, TailInv, [Next]_vars
  PROVE  SawInv'
<1> SUFFICES ASSUME NEW n \in Note
             PROVE  /\ saw'[n] # None =>
                         /\ rpc'[saw'[n]] # "off"
                         /\ ~strayed' /\ Alive(saw[n])' => pid' = saw'[n]
                    /\ n \in intime' =>
                         /\ saw'[n] # None /\ npc'[n] = "done"
                         /\ ~strayed' /\ rpc'[saw'[n]] \in Unread =>
                              n \in timeline' \cup failed' \cup shared'
                    /\ npc'[n] = "adrift" /\ saw'[n] # None /\ ~strayed' =>
                         ~Alive(saw[n])'
  BY DEF SawInv
<1>1. NoteMoves(n)
  BY NoteSteps
<1>2. saw[n] \in Rec \cup {None} /\ saw'[n] \in Rec \cup {None} /\ Running \in Rec \cup {None}
  BY RunningIs DEF TypeOK
<1>3. saw'[n] # None =>
        rpc'[saw'[n]] # "off" /\ (~strayed' /\ Alive(saw[n])' => pid' = saw'[n])
  <2>1. CASE saw'[n] = saw[n]
    BY <1>2, <2>1, Forward, PidStays DEF SawInv, Onward
  <2>2. CASE saw'[n] # saw[n]
    <3>1. saw'[n] # None => saw'[n] = Running /\ UNCHANGED <<rpc, pid, strayed>>
      BY <1>1, <2>2 DEF NoteMoves
    <3> QED
      BY <1>2, <3>1, RunningIs DEF Alive
  <2> QED
    BY <2>1, <2>2
<1>4. ASSUME n \in intime'
      PROVE  saw'[n] = saw[n] /\ saw[n] # None /\ npc'[n] = "done"
  BY <1>1, <1>4 DEF NoteMoves, SawInv
<1>5. ASSUME n \in intime', ~strayed', rpc'[saw'[n]] \in Unread
      PROVE  n \in timeline' \cup failed' \cup shared'
  <2>1. saw'[n] = saw[n] /\ saw[n] \in Rec /\ saw[n] # None
    BY <1>2, <1>4, <1>5
  <2>2. ~strayed /\ rpc[saw[n]] \in Unread
    BY <1>5, <2>1, Forward, PidStays DEF Onward, Before, SawInv, Unread
  <2>3. pid = saw[n] /\ Alive(saw[n])
    BY <2>1, <2>2 DEF SawInv, Alive, Unread, Looking, Recording
  <2>4. CASE n \in intime
    BY <1>5, <2>1, <2>2, <2>3, <2>4, TimelineKept, BefellStays DEF SawInv
  <2>5. CASE n \notin intime
    <3>1. npc[n] # "adrift"
      BY <2>1, <2>2, <2>3 DEF SawInv
    <3> QED
      BY <1>1, <1>5, <2>1, <2>3, <2>5, <3>1, RunningIs DEF NoteMoves
  <2> QED
    BY <2>4, <2>5
<1>6. ASSUME npc'[n] = "adrift", saw'[n] # None, ~strayed'
      PROVE  ~Alive(saw[n])'
  <2>1. saw'[n] = saw[n] /\ saw[n] \in Rec /\ rpc[saw[n]] # "off"
    BY <1>1, <1>2, <1>6 DEF NoteMoves, SawInv
  <2>2. CASE npc[n] = "adrift"
    BY <1>6, <2>1, <2>2, Forward, PidStays DEF SawInv, Onward
  <2>3. CASE npc[n] # "adrift"
    <3>1. PICK s \in Start : Clear(s)
      BY <1>1, <1>6, <2>3 DEF NoteMoves
    <3>2. Running \in {None, s} /\ ~Alive(s) /\ ~strayed /\ s \in Rec
      BY <1>6, <3>1 DEF Clear, RemovePid, SGo, StepInv, Alive, Rec
    <3>3. ~Alive(saw[n])
      BY <1>6, <2>1, <3>2, RunningIs DEF SawInv
    <3> QED
      BY <2>1, <3>3, Forward DEF Onward
  <2> QED
    BY <2>2, <2>3
<1> QED
  BY <1>3, <1>4, <1>5, <1>6

LEMMA KeptNext ==
  ASSUME TypeOK, TypeOK', StepInv, StepInv', SawInv, SawInv', TailInv,
         NotesKept, [Next]_vars
  PROVE  NotesKept'
<1> SUFFICES ASSUME ~strayed', NEW q \in intime', q \notin failed' \cup shared',
                    wrote'[saw'[q]] # "nothing"
             PROVE  q \in kept'[saw'[q]]
  BY DEF NotesKept
<1>1. q \in Note /\ ~strayed /\ saw'[q] \in Rec /\ q \notin failed \cup shared
  BY PidStays, BefellStays DEF TypeOK, SawInv
<1>2. NoteMoves(q)
  BY <1>1, NoteSteps
<1>3. q \in intime /\ saw'[q] = saw[q]
  <2>1. rpc'[saw'[q]] \notin Unread
    BY <1>1 DEF StepInv, TypeOK, Unread, Looking, Recording
  <2> QED
    BY <1>1, <1>2, <2>1 DEF NoteMoves, SawInv
<1>4. wrote[saw[q]] # "nothing" => q \in kept[saw[q]]
  BY <1>1, <1>3 DEF NotesKept
<1>5. rpc[saw[q]] = "stops" => q \in timeline
  BY <1>1, <1>3 DEF SawInv, Unread, Recording
<1> USE DEF SGo, RGo, TGo, files, starts, papers, recs, stops, notes, past, Rec
<1>6. ASSUME UNCHANGED <<kept, wrote>> PROVE q \in kept'[saw'[q]]
  BY <1>6, <1>3, <1>4
<1>7. ASSUME NEW r \in Rec, ReadTimeline(r) PROVE q \in kept'[saw'[q]]
  BY <1>7, <1>1, <1>3, <1>4, <1>5
     DEF ReadTimeline, TypeOK
<1>8. ASSUME NEW r \in Rec, FinalJson(r) PROVE q \in kept'[saw'[q]]
  BY <1>8, <1>1, <1>3, <1>4
     DEF FinalJson, TypeOK, StepInv
<1>9. ASSUME NEW s \in Start, \/ LockBusy(s) \/ AlreadyRecording(s)
      \/ LooksClear(s) \/ Clear(s) \/ NotePid(s) \/ SeesRecording(s)
      \/ SeesExit(s) \/ GivesUp(s) \/ StartFails(s) \/ StartKilled(s)
      PROVE  q \in kept'[saw'[q]]
  BY <1>6, <1>9 DEF LockBusy, AlreadyRecording, LooksClear, Clear, NotePid,
     SeesRecording, SeesExit, GivesUp, StartFails, StartKilled
<1>10. ASSUME NEW r \in Rec, \/ RunByHand(r) \/ LooksForItself(r)
      \/ LooksForOthers(r) \/ Claims(r) \/ Opens(r) \/ Ticks(r)
      \/ TakesSignal(r) \/ RecorderFails(r) \/ Exits(r) \/ RecorderKilled(r)
      PROVE  q \in kept'[saw'[q]]
  BY <1>6, <1>10 DEF RunByHand, LooksForItself, LooksForOthers, Claims, Opens,
     Ticks, TakesSignal, RecorderFails, Exits, RecorderKilled
<1>11. ASSUME NEW t \in Stop, \/ StopLooks(t) \/ Signals(t) \/ StopTimesOut(t)
      \/ SeesItGone(t) \/ ReadFinal(t) \/ ReadLast(t)
      PROVE  q \in kept'[saw'[q]]
  BY <1>6, <1>11 DEF StopLooks, Signals, StopTimesOut, SeesItGone, ReadFinal,
     ReadLast, Answer
<1>12. ASSUME NEW n \in Note, NoteStep(n)
      PROVE  q \in kept'[saw'[q]]
  BY <1>6, <1>12 DEF NoteStep, MarkLooks, StampLooks, StampLine, StampEnds, StampFails,
     StampAdrift, NoteDone, NGo
<1> QED
  BY <1>6, <1>7, <1>8, <1>9, <1>10, <1>11, <1>12
     DEF Next, StartStep, RecStep, StopStep, NoteStep, Finished, vars

LEMMA BeforeNext ==
  ASSUME TypeOK, StepInv, BeforeInv, [Next]_vars
  PROVE  BeforeInv'
<1> USE DEF SGo, RGo, TGo, files, starts, papers, recs, stops, notes, past, Rec
<1>1. ASSUME UNCHANGED <<before, npc, timeline, tail, kept>> PROVE BeforeInv'
  BY <1>1 DEF BeforeInv
<1>2. ASSUME NEW s \in Start, Clear(s) PROVE BeforeInv'
  BY <1>2
     DEF Clear, BeforeInv, TypeOK, DropTimeline, StepInv
<1>3. ASSUME NEW r \in Rec, ReadTimeline(r) PROVE BeforeInv'
  BY <1>3
     DEF ReadTimeline, Alone, BeforeInv, TypeOK
<1>4. ASSUME NEW n \in Note, MarkLooks(n) PROVE BeforeInv'
  BY <1>4
     DEF MarkLooks, BeforeInv, TypeOK
<1>5. ASSUME NEW n \in Note, StampLooks(n) PROVE BeforeInv'
  BY <1>5
     DEF StampLooks, BeforeInv, TypeOK, NoteDone
<1>6. ASSUME NEW n \in Note, StampLine(n) PROVE BeforeInv'
  BY <1>6
     DEF StampLine, NGo, BeforeInv, TypeOK
<1>10. ASSUME NEW n \in Note, StampEnds(n) PROVE BeforeInv'
  BY <1>10
     DEF StampEnds, Alone, BeforeInv, TypeOK, NoteDone
<1>11. ASSUME NEW n \in Note, StampFails(n) \/ StampAdrift(n) PROVE BeforeInv'
  BY <1>11
     DEF StampFails, StampAdrift, BeforeInv, TypeOK, NoteDone
<1>7. ASSUME NEW s \in Start, \/ LockBusy(s) \/ AlreadyRecording(s)
      \/ LooksClear(s) \/ NotePid(s) \/ SeesRecording(s) \/ SeesExit(s)
      \/ GivesUp(s) \/ StartFails(s) \/ StartKilled(s)
      PROVE  BeforeInv'
  BY <1>1, <1>7 DEF LockBusy, AlreadyRecording, LooksClear, NotePid,
     SeesRecording, SeesExit, GivesUp, StartFails, StartKilled
<1>8. ASSUME NEW r \in Rec, \/ RunByHand(r) \/ LooksForItself(r)
      \/ LooksForOthers(r) \/ Claims(r) \/ Opens(r) \/ Ticks(r)
      \/ TakesSignal(r) \/ FinalJson(r) \/ RecorderFails(r) \/ Exits(r)
      \/ RecorderKilled(r)
      PROVE  BeforeInv'
  BY <1>1, <1>8 DEF RunByHand, LooksForItself, LooksForOthers, Claims, Opens,
     Ticks, TakesSignal, FinalJson, RecorderFails, Exits, RecorderKilled
<1>9. ASSUME NEW t \in Stop, \/ StopLooks(t) \/ Signals(t) \/ StopTimesOut(t)
      \/ SeesItGone(t) \/ ReadFinal(t) \/ ReadLast(t)
      PROVE  BeforeInv'
  BY <1>1, <1>9 DEF StopLooks, Signals, StopTimesOut, SeesItGone, ReadFinal,
     ReadLast, Answer
<1> QED
  BY <1>1, <1>2, <1>3, <1>4, <1>5, <1>6, <1>7, <1>8, <1>9,
    <1>10, <1>11
     DEF Next, StartStep, RecStep, StopStep, NoteStep, Finished, vars

-----------------------------------------------------------------------------
(* record.json *)

\* Whoever records or ends is who the pid file names.
LEMMA WriterHasPid ==
  ASSUME PidInv, ~strayed, NEW q \in Rec, rpc[q] \in Recording \cup Ending
  PROVE  pid = q /\ Alive(q)
BY DEF PidInv, Alive, Recording, Ending

\* A recorder whose start cleared the files writes there beside no other that is
\* watched.
LEMMA WatchedAlone ==
  ASSUME TypeOK, PidInv, WatchInv, ~strayed, NEW s \in Start, Alive(s), spc[s] # "failed",
         NEW q \in Rec, rpc[q] \in Recording \cup Ending
  PROVE  q \in {s} \cup Unwatched
<1>1. CASE q \in Start /\ spc[q] # "failed"
  <2>1. Alive(q)
    BY WriterHasPid
  <2> QED
    BY <1>1, <2>1, WriterHasPid, RecdAssumption DEF WatchInv, Rec
<1>2. CASE ~(q \in Start /\ spc[q] # "failed")
  BY <1>2 DEF Unwatched, Rec
<1> QED
  BY <1>1, <1>2

LEMMA UnwatchedGrows ==
  ASSUME TypeOK, [Next]_vars
  PROVE  Unwatched \subseteq Unwatched'
BY Failed DEF Unwatched

LEMMA JsonNext ==
  ASSUME TypeOK, TypeOK', StepInv, PidInv, WatchInv, JsonInv, [Next]_vars
  PROVE  JsonInv'
<1>1. JsonFrom
  BY JsonSteps
<1>2. json.of \in Rec \cup {None} /\ json'.of \in Rec \cup {None}
  BY DEF TypeOK
<1>3. json'.of = None => json'.is = "ended"
  BY <1>1, RecdAssumption DEF JsonFrom, JsonInv, NoJson
<1>4. json'.of # None => rpc'[json'.of] \in Opened
  <2>1. CASE json' = json
    BY <1>2, <2>1, Forward DEF JsonInv, Onward, Opened
  <2>2. CASE json' = NoJson
    BY <2>2 DEF NoJson
  <2> QED
    BY <1>1, <2>1, <2>2 DEF JsonFrom
<1>5. json'.of # None /\ wrote'[json'.of] = "final" => json'.is = "final"
  BY <1>1, <1>2 DEF JsonFrom, JsonInv, NoJson
<1>6. ASSUME ~strayed', NEW s \in Start, Alive(s)', spc'[s] # "failed"
      PROVE  json'.of \in {None, s} \cup Unwatched'
  <2>1. ~strayed /\ spc[s] # "failed" /\ s \in Rec /\ Unwatched \subseteq Unwatched'
    BY <1>6, PidStays, Failed, UnwatchedGrows DEF Rec
  <2>2. CASE json' = NoJson
    BY <2>2 DEF NoJson
  <2>3. CASE json' # NoJson
    <3>1. Alive(s)
      BY <1>6, <2>3, ClearsJson
    <3>2. CASE json' = json
      BY <2>1, <3>1, <3>2 DEF JsonInv
    <3>3. CASE json' # json
      <4>1. json'.of \in Rec /\ rpc[json'.of] \in Recording \cup Ending
        BY <1>1, <2>3, <3>3 DEF JsonFrom
      <4> QED
        BY <2>1, <3>1, <4>1, WatchedAlone
    <3> QED
      BY <3>2, <3>3
  <2> QED
    BY <2>2, <2>3
<1>7. ASSUME ~strayed', NEW r \in Rec, Alive(r)', wrote'[r] = "final"
      PROVE  json'.of = r
  <2>1. CASE wrote[r] # "final"
    BY <1>1, <1>7, <2>1 DEF JsonFrom
  <2>2. CASE wrote[r] = "final"
    <3>1. rpc[r] = "removes" /\ Alive(r)
      BY <1>7, <2>2, Forward DEF StepInv, Onward, Alive
    <3>2. ~strayed /\ pid = r /\ pid' = r /\ json.of = r
      BY <1>7, <2>2, <3>1, PidStays DEF PidInv, JsonInv, Ending
    <3>3. r # None
      BY RecdAssumption
    <3>4. CASE json' # json
      BY <1>1, <2>2, <3>2, <3>3, <3>4 DEF JsonFrom, PidInv
    <3> QED
      BY <3>2, <3>4
  <2> QED
    BY <2>1, <2>2
<1> QED
  BY <1>3, <1>4, <1>5, <1>6, <1>7 DEF JsonInv, Opened

-----------------------------------------------------------------------------
(* What start and stop tell *)

\* Nobody but the recorder that a stop has found is to write, as long as none
\* has crossed it.
FoundInv(t) ==
  LET r == target[t] IN
  /\ Writers \subseteq {r}
  /\ r \notin Unwatched => json.of \in {None, r} \cup Unwatched
  /\ wrote[r] = "final" => json.of = r

\* What a stop knows of a recorder it has just found.
LEMMA FindsTarget ==
  ASSUME TypeOK, PidInv, JsonInv, ~strayed, NEW t \in Stop, NEW r \in Rec,
         pid = r, Alive(r)
  PROVE  /\ Writers \subseteq {r}
         /\ r \notin Unwatched => json.of \in {None, r} \cup Unwatched
         /\ wrote[r] = "final" => json.of = r
<1>1. Writers \subseteq {r}
  BY DEF PidInv, Writers, Recording, Ending
<1>2. r \notin Unwatched => r \in Start /\ spc[r] # "failed"
  BY DEF Unwatched, Rec
<1> QED
  BY <1>1, <1>2 DEF JsonInv

LEMMA TargetNext ==
  ASSUME TypeOK, TypeOK', StepInv, PidInv, JsonInv, TargetInv, [Next]_vars
  PROVE  TargetInv'
<1> SUFFICES ASSUME NEW t \in Stop
             PROVE  /\ tpc'[t] \in {"new", "done"} => crossed'[t] = {}
                    /\ tpc'[t] \in {"found", "waits", "read"} =>
                         /\ rpc'[target'[t]] # "off"
                         /\ tpc'[t] = "read" => ~Alive(target[t])'
                         /\ ~strayed' /\ Alive(target[t])' => pid' = target'[t]
                         /\ ~strayed' /\ crossed'[t] \subseteq {target'[t]} => FoundInv(t)'
  BY DEF TargetInv, FoundInv
<1>1. StopMoves(t)
  BY StopSteps
<1>2. CASE tpc'[t] \in {"new", "done"}
  BY <1>1, <1>2 DEF StopMoves, Waiting, TargetInv, StopLooks, TypeOK
<1>3. CASE StopLooks(t)
  <2>1. CASE Running = None
    BY <1>3, <2>1 DEF StopLooks, TypeOK
  <2>2. CASE Running # None
    <3>1. /\ target'[t] = Running /\ UNCHANGED <<rpc, pid, strayed, json, wrote, spc>>
          /\ tpc'[t] = "found"
      BY <1>3, <2>2 DEF StopLooks, TypeOK, recs, papers, past, files, starts
    <3>2. Running \in Rec /\ pid = Running /\ Alive(Running)
      BY <2>2, RunningIs
    <3>3. ~strayed => FoundInv(t)'
      BY <3>1, <3>2, FindsTarget DEF FoundInv, Writers, Unwatched
    <3> QED
      BY <3>1, <3>2, <3>3 DEF Alive
  <2> QED
    BY <2>1, <2>2
<1>4. CASE Waiting(t) /\ tpc'[t] \in {"found", "waits", "read"}
  <2> DEFINE r == target[t]
  <2>1. /\ r \in Rec /\ target'[t] = r /\ crossed[t] \subseteq crossed'[t]
        /\ tpc[t] \in {"found", "waits", "read"} /\ rpc[r] # "off"
    BY <1>4 DEF Waiting, TypeOK, TargetInv
  <2>2. rpc'[r] # "off" /\ (Alive(r)' => Alive(r))
    BY <2>1, Forward DEF Onward, Alive
  <2>3. tpc'[t] = "read" => rpc'[r] \in {"off", "gone"}
    BY <1>4, <2>1, <2>2 DEF Waiting, TargetInv, Alive
  <2>4. ~strayed' /\ rpc'[r] \notin {"off", "gone"} => pid' = r
    BY <2>1, <2>2, PidStays DEF TargetInv, Alive
  <2>5. ASSUME ~strayed', crossed'[t] \subseteq {r}
        PROVE  FoundInv(t)'
    <3>1. ~strayed /\ FoundInv(t)
      BY <2>1, <2>5, PidStays DEF TargetInv, FoundInv
    <3>2. \A q \in Rec : Told(q) => q = r
      BY <2>1, <2>5 DEF Told
    <3>3. Writers' \subseteq {r}
      BY <3>1, <3>2, NewWriter DEF FoundInv, Writers
    <3>4. JsonFrom /\ Unwatched \subseteq Unwatched'
      BY JsonSteps, UnwatchedGrows
    <3>5. r \notin Unwatched' => json'.of \in {None, r} \cup Unwatched'
      BY <3>1, <3>2, <3>4 DEF JsonFrom, FoundInv, NoJson
    <3>6. wrote'[r] = "final" => json'.of = r
      BY <2>1, <3>1, <3>2, <3>4 DEF JsonFrom, FoundInv, Rec
    <3> QED
      BY <2>1, <3>3, <3>5, <3>6 DEF FoundInv
  <2>6. ~strayed' /\ crossed'[t] \subseteq {target'[t]} => FoundInv(t)'
    BY <2>1, <2>5
  <2>7. rpc'[target'[t]] # "off" /\ (tpc'[t] = "read" => ~Alive(target[t])')
    BY <2>1, <2>2, <2>3 DEF Alive
  <2>8. ~strayed' /\ Alive(target[t])' => pid' = target'[t]
    BY <2>1, <2>4 DEF Alive
  <2> QED
    BY <1>4, <2>6, <2>7, <2>8
<1> QED
  BY <1>1, <1>2, <1>3, <1>4 DEF StopMoves, Waiting

LEMMA NobodyNext ==
  ASSUME TypeOK, TypeOK', StepInv, PidInv, JsonInv, NobodyInv, [Next]_vars
  PROVE  NobodyInv'
<1> SUFFICES ASSUME NEW t \in Stop, ~strayed', tpc'[t] = "none"
             PROVE  /\ Writers' \subseteq crossed'[t]
                    /\ json'.of \notin crossed'[t] \cup {None} => ~Alive(json.of)'
  BY DEF NobodyInv
<1>1. StopMoves(t) /\ ~strayed
  BY StopSteps, PidStays
<1>2. CASE StopLooks(t)
  <2>1. Running = None /\ UNCHANGED <<rpc, json>>
    BY <1>2 DEF StopLooks, TypeOK, recs, files
  <2>2. ASSUME NEW q \in Rec PROVE rpc[q] \notin Recording \cup Ending
    BY <1>1, <2>1, RunningIs, WriterHasPid, RecdAssumption
  <2>3. Writers' = {}
    BY <2>1, <2>2 DEF Writers, Recording, Ending
  <2>4. json.of # None => ~Alive(json.of)
    BY <2>2 DEF JsonInv, TypeOK, Alive, Recording, Ending
  <2> QED
    BY <2>1, <2>3, <2>4 DEF Alive
<1>3. CASE Waiting(t)
  <2>1. tpc[t] = "none" /\ crossed[t] \subseteq crossed'[t]
    BY <1>3 DEF Waiting
  <2>2. Writers \subseteq crossed[t] /\ (json.of \notin crossed[t] \cup {None} => ~Alive(json.of))
    BY <1>1, <2>1 DEF NobodyInv
  <2>3. \A q \in Rec : Told(q) => q \in crossed'[t]
    BY <2>1 DEF Told
  <2>4. Writers' \subseteq crossed'[t]
    BY <2>1, <2>2, <2>3, NewWriter DEF Writers
  <2>5. ASSUME json'.of \notin crossed'[t] \cup {None}
        PROVE  rpc'[json'.of] \in {"off", "gone"}
    <3>1. json' = json
      BY <2>1, <2>2, <2>3, <2>5, JsonSteps DEF JsonFrom, NoJson
    <3>2. json.of \in Rec /\ rpc[json.of] # "off" /\ ~Alive(json.of)
      BY <2>1, <2>2, <2>5, <3>1 DEF JsonInv, TypeOK, Ending
    <3> QED
      BY <3>1, <3>2, Forward DEF Onward, Alive
  <2> QED
    BY <2>4, <2>5 DEF Alive
<1> QED
  BY <1>1, <1>2, <1>3 DEF StopMoves

-----------------------------------------------------------------------------
(* The theorems *)

\* No recorder runs at first, and nobody knows of one.
LEMMA InitInv ==
  Init => /\ StepInv /\ PidInv /\ WatchInv /\ CalmInv
          /\ NotesKept /\ TailInv /\ SawInv /\ BeforeInv
          /\ JsonInv /\ TargetInv /\ NobodyInv
<1> SUFFICES ASSUME Init
             PROVE  /\ StepInv /\ PidInv /\ WatchInv /\ CalmInv
                    /\ NotesKept /\ TailInv /\ SawInv /\ BeforeInv
                    /\ JsonInv /\ TargetInv /\ NobodyInv
  OBVIOUS
<1>1. /\ \A s \in Start : spc[s] = "new" /\ rpc[s] = "off" /\ before[s] = {} /\ kept[s] = {}
      /\ \A r \in Rec : rpc[r] = "off" /\ wrote[r] = "nothing" /\ kept[r] = {}
      /\ \A t \in Stop : tpc[t] = "new" /\ crossed[t] = {}
      /\ \A n \in Note : saw[n] = None
      /\ \A n \in Note : npc[n] = "new"
      /\ tail = {} /\ intime = {} /\ ~strayed /\ json = NoJson
  BY DEF Init, Rec
<1>2. StepInv /\ PidInv /\ WatchInv /\ CalmInv
  BY <1>1 DEF StepInv, PidInv, WatchInv, CalmInv, Alive, Recording, Ending, Rec
<1>3. NotesKept /\ TailInv /\ SawInv /\ BeforeInv
  BY <1>1 DEF NotesKept, TailInv, SawInv, BeforeInv
<1>4. JsonInv /\ TargetInv /\ NobodyInv
  BY <1>1 DEF JsonInv, TargetInv, NobodyInv, NoJson, Alive, Rec
<1> QED
  BY <1>2, <1>3, <1>4

\* Who records is the one the pid file names, of those somebody watches one is
\* alive at most, and only a kill, a recorder run by hand or a failed start
\* strikes a live one from the file.
THEOREM Recorders == Spec => []RecdInv
<1>1. Init => RecdInv
  BY TypeInit, InitInv DEF RecdInv
<1>2. RecdInv /\ [Next]_vars => RecdInv'
  BY TypeNext, StepNext, PidNext, WatchNext, CalmNext DEF RecdInv
<1> QED
  BY <1>1, <1>2, PTL DEF Spec

\* recd.rs:130, 206: for any number of starts, recorders run by hand, stops and
\* notes two recorders run at once only after a kill, beside one run by hand or
\* after a start that failed.
THEOREM OneRecorderRuns == Spec => []OneRecorder
<1>1. RecdInv => OneRecorder
  BY DEF RecdInv, PidInv, CalmInv, OneRecorder
<1> QED
  BY <1>1, Recorders, PTL

\* recd.rs:101-108, 134, 291-297: for any number of notes that write at once a
\* manifest has every one that was answered before its recorder read the
\* timeline, but those whose stamp failed or whose line something else came on,
\* and none from before its start.
THEOREM NotesHold == Spec => []NotesInv
<1> DEFINE Inv == NotesKept /\ TailInv /\ SawInv /\ BeforeInv
<1>1. Init => Inv
  BY InitInv
<1>2. RecdInv /\ RecdInv' /\ Inv /\ [Next]_vars => Inv'
  <2> SUFFICES ASSUME RecdInv, RecdInv', Inv, [Next]_vars PROVE Inv'
    OBVIOUS
  <2>1. TypeOK /\ TypeOK' /\ StepInv /\ StepInv'
    BY DEF RecdInv
  <2>2. TailInv' /\ SawInv' /\ BeforeInv'
    BY <2>1, TailNext, SawNext, BeforeNext
  <2>3. NotesKept'
    BY <2>1, <2>2, KeptNext
  <2> QED
    BY <2>2, <2>3
<1>3. Inv => NotesInv
  BY DEF NotesInv, BeforeInv, NoOldNotes
<1> QED
  BY <1>1, <1>2, <1>3, Recorders, PTL DEF Spec

\* What is told follows from who can have written record.json.
LEMMA Tells ==
  ASSUME TypeOK, JsonInv, TargetInv, NobodyInv
  PROVE  StopTells /\ DiedIsTrue /\ StartTells
<1>1. StopTells
  <2> SUFFICES ASSUME NEW t \in Stop, tpc[t] = "read", ~strayed,
                      crossed[t] \subseteq {target[t]}, target[t] \notin Unwatched
               PROVE  IF json.is = "final" THEN json.of \in {target[t]} \cup Unwatched
                      ELSE ~Alive(target[t]) /\ wrote[target[t]] # "final"
    BY DEF StopTells
  <2>1. /\ ~Alive(target[t]) /\ json.of \in {None, target[t]} \cup Unwatched
        /\ wrote[target[t]] = "final" => json.of = target[t]
    BY DEF TargetInv
  <2>2. target[t] \in Rec /\ target[t] # None
    BY DEF TypeOK
  <2> QED
    BY <2>1, <2>2 DEF JsonInv
<1>2. DiedIsTrue
  BY DEF DiedIsTrue, NobodyInv, JsonInv
<1>3. StartTells
  BY DEF StartTells, JsonInv, TypeOK
<1> QED
  BY <1>1, <1>2, <1>3

\* recd.rs:169, 265-288: a start answers with the recording of its own recorder,
\* a stop with the final state of the one it found, and that a recorder died is
\* said only of one that has.
THEOREM TellsTrue == Spec => []ToldInv
<1> DEFINE Inv == JsonInv /\ TargetInv /\ NobodyInv
<1>1. Init => Inv
  BY InitInv
<1>2. RecdInv /\ RecdInv' /\ Inv /\ [Next]_vars => Inv'
  <2> SUFFICES ASSUME RecdInv, RecdInv', Inv, [Next]_vars PROVE Inv'
    OBVIOUS
  <2>1. TypeOK /\ TypeOK' /\ StepInv /\ PidInv /\ WatchInv
    BY DEF RecdInv
  <2> QED
    BY <2>1, JsonNext, TargetNext, NobodyNext
<1>3. RecdInv /\ Inv => ToldInv
  BY Tells DEF RecdInv, ToldInv
<1> QED
  BY <1>1, <1>2, <1>3, Recorders, PTL DEF Spec

-----------------------------------------------------------------------------
(* The directories of the stills, for any number of recorders, names and   *)
(* files.                                                                  *)

\* Until something stray happens, who records a name holds the lock of the
\* one file that is its .active.
LEMMA OneByLock ==
  ASSUME LockedInv, NamedInv
  PROVE  OneInEach
<1> SUFFICES ASSUME ~stray, NEW r \in Recorder, NEW q \in Recorder,
                    pc[r] \in Holding, pc[q] \in Holding, name[r] = name[q]
             PROVE  r = q
  BY DEF OneInEach, OneEach
<1>1. fd[r] = active[name[r]] /\ fd[q] = active[name[q]]
  BY DEF NamedInv
<1>2. flock[fd[r]] = r /\ flock[fd[q]] = q
  BY DEF LockedInv
<1> QED
  BY <1>1, <1>2

LEMMA InitStills == StillsInit => StillsInv
<1> SUFFICES ASSUME StillsInit PROVE StillsInv
  OBVIOUS
<1>1. StillsTypeOK
  BY DEF StillsInit, StillsTypeOK, Where, Holding
<1>2. LockedInv /\ NamedInv /\ ClearedInv /\ OwnStills /\ SparedInv
  BY StillsAssumption DEF StillsInit, LockedInv, NamedInv, ClearedInv, OwnStills, SparedInv,
                          Holding, Filming
<1> QED
  BY <1>1, <1>2 DEF StillsInv

\* The end of a command.
LEMMA OverTypes ==
  ASSUME StillsTypeOK, NEW r \in Recorder, Over(r), UNCHANGED <<disk, stray>>
  PROVE  StillsTypeOK'
BY DEF StillsTypeOK, Over, Go, Release, Forget, disk, Where

\* What is opened is the .active that is there, or a file of nobody's.
LEMMA OpenFile ==
  ASSUME StillsTypeOK, LockedInv, NEW r \in Recorder, Open(r)
  PROVE  /\ name[r] \in dir
         /\ \E i \in Inode :
              /\ active' = [active EXCEPT ![name[r]] = i]
              /\ fd' = [fd EXCEPT ![r] = i]
              /\ active[name[r]] # Nothing => active[name[r]] = i
<1>1. name[r] \in Name /\ name[r] \in dir
  BY DEF Open, StillsTypeOK
<1>2. CASE active[name[r]] = Nothing
  <2>1. PICK i \in Fresh : i = CHOOSE j \in Fresh : TRUE
    BY <1>2 DEF Open
  <2>2. i \in Inode
    BY DEF Fresh
  <2> QED
    BY <1>1, <1>2, <2>1, <2>2 DEF Open
<1>3. CASE active[name[r]] # Nothing
  <2>1. active[name[r]] \in Inode
    BY <1>1, <1>3 DEF StillsTypeOK
  <2> QED
    BY <1>1, <1>3, <2>1 DEF Open
<1> QED
  BY <1>2, <1>3

\* Every step keeps the types, and files in directories that exist.
LEMMA NextTypes == StillsInv /\ [StillsNext]_stillsVars => StillsTypeOK'
<1> SUFFICES ASSUME StillsInv, [StillsNext]_stillsVars PROVE StillsTypeOK'
  OBVIOUS
<1> USE DEF StillsInv
<1>1. CASE UNCHANGED stillsVars
  BY <1>1 DEF StillsTypeOK, stillsVars, disk, mine
<1>2. ASSUME NEW r \in Recorder, Prune(r) PROVE StillsTypeOK'
  <2>1. ASSUME NEW n \in Name, Begin(r, n) PROVE StillsTypeOK'
    BY <2>1 DEF StillsTypeOK, Begin, Go, disk, Where
  <2>2. ASSUME NEW m \in Name, LookPast(r, m) PROVE StillsTypeOK'
    BY <2>2 DEF StillsTypeOK, LookPast, disk
  <2>3. ASSUME NEW m \in Name, LookFree(r, m) PROVE StillsTypeOK'
    BY <2>3 DEF StillsTypeOK, LookFree, disk
  <2>4. ASSUME NEW m \in Name, LookTakes(r, m) PROVE StillsTypeOK'
    BY <2>4 DEF StillsTypeOK, LookTakes, Go, disk, Where
  <2>5. CASE LookDrops(r)
    BY <2>5 DEF StillsTypeOK, LookDrops, Go, Release, disk, mine, Where
  <2>6. CASE Sort(r)
    BY <2>6 DEF StillsTypeOK, Sort, Go, disk, Where
  <2>7. ASSUME NEW m \in Name, Tidy(r, m) PROVE StillsTypeOK'
    BY <2>7 DEF StillsTypeOK, Tidy
  <2>8. ASSUME NEW m \in Name, Remove(r, m) PROVE StillsTypeOK'
    <3>1. \A n \in Name \ dir' : active'[n] = Nothing /\ stills'[n] = {} /\ tmps'[n] = {}
      BY <2>8 DEF StillsTypeOK, Remove
    <3>2. active' \in [Name -> Inode \cup {Nothing}] /\ stray' \in BOOLEAN
      BY <2>8 DEF StillsTypeOK, Remove
    <3> QED
      BY <2>8, <3>1, <3>2 DEF StillsTypeOK, Remove, Go, Where
  <2>9. CASE Rmdir(r)
    <3>1. \A n \in Name \ dir' : active'[n] = Nothing /\ stills'[n] = {} /\ tmps'[n] = {}
      BY <2>9 DEF StillsTypeOK, Rmdir, Empty
    <3>2. dir' \subseteq Name
      BY <2>9 DEF StillsTypeOK, Rmdir
    <3> QED
      BY <2>9, <3>1, <3>2 DEF StillsTypeOK, Rmdir, Go, Where
  <2> QED
    BY <1>2, <2>1, <2>2, <2>3, <2>4, <2>5, <2>6, <2>7, <2>8, <2>9 DEF Prune
<1>3. ASSUME NEW r \in Recorder, Record(r) PROVE StillsTypeOK'
  <2>0. pc[r] # "idle" => name[r] \in Name
    BY DEF LockedInv, StillsTypeOK
  <2>1. CASE Mkdir(r)
    BY <2>0, <2>1 DEF StillsTypeOK, Mkdir, Go, mine, Where
  <2>2. CASE Open(r)
    <3>1. PICK i \in Inode : /\ active' = [active EXCEPT ![name[r]] = i]
                             /\ fd' = [fd EXCEPT ![r] = i]
      BY <2>2, OpenFile
    <3>2. name[r] \in dir
      BY <2>2, OpenFile
    <3>3. /\ active' \in [Name -> Inode \cup {Nothing}]
          /\ fd' \in [Recorder -> Inode \cup {Nothing}]
      BY <3>1 DEF StillsTypeOK
    <3>5. pc' \in [Recorder -> Where]
      BY <2>2 DEF StillsTypeOK, Open, Go, Where
    <3>4. \A n \in Name \ dir : active'[n] = active[n]
      BY <2>0, <3>1, <3>2 DEF StillsTypeOK
    <3> QED
      BY <2>2, <3>3, <3>4, <3>5 DEF StillsTypeOK, Open, mine
  <2>3. CASE Lock(r)
    BY <2>3 DEF StillsTypeOK, LockedInv, Lock, Go, disk, mine, Where, Holding
  <2>4. CASE Refused(r) \/ BeginFails(r) \/ Close(r)
    BY <2>4, OverTypes DEF Refused, BeginFails, Close
  <2>5. CASE ClearStills(r)
    BY <2>0, <2>5 DEF StillsTypeOK, ClearStills, Go, mine, Where, Holding
  <2>6. CASE First(r)
    BY <2>0, <2>6 DEF StillsTypeOK, First, Go, mine, Where, Holding
  <2>7. CASE Write(r)
    BY <2>0, <2>7 DEF StillsTypeOK, Write, Go, mine, Where, Holding
  <2>8. CASE Rename(r)
    BY <2>0, <2>8 DEF StillsTypeOK, Rename, Go, mine, Where, Holding
  <2>9. CASE Lost(r) \/ StopStills(r)
    BY <2>9 DEF StillsTypeOK, Lost, StopStills, Go, disk, mine, Where, Holding
  <2>10. CASE Unlink(r)
    BY <2>0, <2>10 DEF StillsTypeOK, Unlink, Go, Forget, mine, Where
  <2> QED
    BY <1>3, <2>1, <2>2, <2>3, <2>4, <2>5, <2>6, <2>7, <2>8, <2>9, <2>10 DEF Record
<1>4. ASSUME NEW r \in Recorder, Kill(r) PROVE StillsTypeOK'
  BY <1>4, OverTypes DEF Kill
<1> QED
  BY <1>1, <1>2, <1>3, <1>4 DEF StillsNext

\* What closing its file does to the locks, and to nobody else's.
LEMMA ReleaseStep ==
  ASSUME StillsTypeOK, LockedInv, NEW r \in Recorder, Release(r)
  PROVE  /\ fd'[r] = Nothing
         /\ \A q \in Recorder \ {r} : fd'[q] = fd[q]
         /\ \A i \in Inode : flock'[i] # r
         /\ \A i \in Inode : flock[i] # r => flock'[i] = flock[i]
<1>1. r # Nothing
  BY StillsAssumption
<1>2. fd' = [fd EXCEPT ![r] = Nothing]
  BY DEF Release
<1>3. fd'[r] = Nothing /\ \A q \in Recorder \ {r} : fd'[q] = fd[q]
  BY <1>2 DEF StillsTypeOK
<1>4. \A i \in Inode : flock'[i] # r
  BY <1>1 DEF Release, LockedInv, StillsTypeOK
<1>5. \A i \in Inode : flock[i] # r => flock'[i] = flock[i]
  BY DEF Release
<1> QED
  BY <1>3, <1>4, <1>5

\* Whoever is done has its file closed, and the others have what they had.
LEMMA ReleaseLocked ==
  ASSUME StillsTypeOK, LockedInv, StillsTypeOK', NEW r \in Recorder, Release(r),
         pc' = [pc EXCEPT ![r] = "idle"] \/ pc' = [pc EXCEPT ![r] = "look"],
         \A q \in Recorder : pc'[q] # "idle" => name'[q] = name[q] /\ pc[q] # "idle"
  PROVE  LockedInv'
<1>1. /\ fd'[r] = Nothing
      /\ \A q \in Recorder \ {r} : fd'[q] = fd[q] /\ pc'[q] = pc[q]
      /\ \A i \in Inode : flock'[i] # r
      /\ \A i \in Inode : flock[i] # r => flock'[i] = flock[i]
  BY ReleaseStep DEF StillsTypeOK
<1>2. pc'[r] \in {"idle", "look"}
  BY DEF StillsTypeOK
<1>3. \A q \in Recorder : pc'[q] \in Holding \cup {"probe", "close"} =>
        fd'[q] # Nothing /\ flock'[fd'[q]] = q
  <2> SUFFICES ASSUME NEW q \in Recorder, pc'[q] \in Holding \cup {"probe", "close"}
               PROVE  fd'[q] # Nothing /\ flock'[fd'[q]] = q
    OBVIOUS
  <2>1. q # r
    BY <1>2 DEF Holding
  <2>2. fd[q] # Nothing /\ flock[fd[q]] = q /\ fd'[q] = fd[q]
    BY <1>1, <2>1 DEF LockedInv
  <2>3. fd[q] \in Inode
    BY <2>2 DEF StillsTypeOK
  <2> QED
    BY <1>1, <2>1, <2>2, <2>3
<1>4. \A q \in Recorder : pc'[q] = "lock" => fd'[q] # Nothing
  BY <1>1, <1>2 DEF LockedInv
<1>5. \A q \in Recorder :
        pc'[q] \in {"idle", "look", "tidy", "rmdir", "open"} => fd'[q] = Nothing
  BY <1>1 DEF LockedInv
<1>6. \A i \in Inode : flock'[i] # Nothing => fd'[flock'[i]] = i
  <2> SUFFICES ASSUME NEW i \in Inode, flock'[i] # Nothing PROVE fd'[flock'[i]] = i
    OBVIOUS
  <2>1. flock[i] # r
    BY <1>1, StillsAssumption DEF Release, StillsTypeOK
  <2>2. flock'[i] = flock[i] /\ flock[i] \in Recorder \ {r}
    BY <1>1, <2>1 DEF StillsTypeOK
  <2> QED
    BY <1>1, <2>2 DEF LockedInv
<1>7. \A q \in Recorder : pc'[q] # "idle" => name'[q] # Nothing
  BY DEF LockedInv
<1> QED
  BY <1>3, <1>4, <1>5, <1>6, <1>7 DEF LockedInv

LEMMA OverLocked ==
  ASSUME StillsTypeOK, LockedInv, StillsTypeOK', NEW r \in Recorder, Over(r)
  PROVE  LockedInv'
<1>1. Release(r) /\ pc' = [pc EXCEPT ![r] = "idle"]
  BY DEF Over, Go
<1>2. \A q \in Recorder : pc'[q] # "idle" => name'[q] = name[q] /\ pc[q] # "idle"
  BY DEF Over, Go, StillsTypeOK
<1> QED
  BY <1>1, <1>2, ReleaseLocked

\* Every step keeps who has which lock and which file open.
LEMMA NextLocked == StillsInv /\ [StillsNext]_stillsVars /\ StillsTypeOK' => LockedInv'
<1> SUFFICES ASSUME StillsTypeOK, LockedInv, [StillsNext]_stillsVars, StillsTypeOK' PROVE LockedInv'
  BY DEF StillsInv
<1>1. CASE UNCHANGED stillsVars
  BY <1>1 DEF LockedInv, stillsVars, disk, mine
<1>2. ASSUME NEW r \in Recorder, Prune(r) PROVE LockedInv'
  <2>1. ASSUME NEW n \in Name, Begin(r, n) PROVE LockedInv'
    BY <2>1, StillsAssumption DEF StillsTypeOK, LockedInv, Begin, Go, disk, Holding
  <2>2. ASSUME NEW m \in Name, LookPast(r, m) \/ LookFree(r, m) \/ Tidy(r, m)
        PROVE LockedInv'
    BY <2>2 DEF LockedInv, LookPast, LookFree, Tidy, disk
  <2>3. ASSUME NEW m \in Name, LookTakes(r, m) PROVE LockedInv'
    BY <2>3, StillsAssumption DEF StillsTypeOK, LockedInv, LookTakes, Go, disk, Holding
  <2>4. CASE LookDrops(r)
    <3>1. Release(r) /\ pc' = [pc EXCEPT ![r] = "look"]
      BY <2>4 DEF LookDrops, Go
    <3>2. \A q \in Recorder : pc'[q] # "idle" => name'[q] = name[q] /\ pc[q] # "idle"
      BY <2>4 DEF LookDrops, Go, StillsTypeOK, mine
    <3> QED
      BY <3>1, <3>2, ReleaseLocked
  <2>5. CASE Sort(r)
    <3>1. pc[r] = "look" /\ Go(r, "tidy") /\ UNCHANGED <<flock, name, fd>>
      BY <2>5 DEF Sort
    <3> QED
      BY <3>1 DEF StillsTypeOK, LockedInv, Go, Holding
  <2>6. ASSUME NEW m \in Name, Remove(r, m) PROVE LockedInv'
    BY <2>6 DEF StillsTypeOK, LockedInv, Remove, Go, Holding
  <2>7. CASE Rmdir(r)
    BY <2>7 DEF StillsTypeOK, LockedInv, Rmdir, Go, Holding
  <2> QED
    BY <1>2, <2>1, <2>2, <2>3, <2>4, <2>5, <2>6, <2>7 DEF Prune
<1>3. ASSUME NEW r \in Recorder, Record(r) PROVE LockedInv'
  <2>1. CASE Mkdir(r)
    BY <2>1 DEF StillsTypeOK, LockedInv, Mkdir, Go, mine, Holding
  <2>2. CASE Open(r)
    <3>1. PICK i \in Inode : fd' = [fd EXCEPT ![r] = i]
      BY <2>2, OpenFile
    <3>2. pc[r] = "open" /\ Go(r, "lock") /\ UNCHANGED <<flock, name>>
      BY <2>2 DEF Open, mine
    <3> QED
      BY <3>1, <3>2, StillsAssumption DEF StillsTypeOK, LockedInv, Go, Holding
  <2>3. CASE Lock(r)
    BY <2>3, StillsAssumption DEF StillsTypeOK, LockedInv, Lock, Go, disk, mine, Holding
  <2>4. CASE Refused(r) \/ BeginFails(r) \/ Close(r)
    BY <2>4, OverLocked DEF Refused, BeginFails, Close
  <2>5. CASE ClearStills(r) \/ First(r) \/ Write(r) \/ Rename(r) \/ Lost(r) \/ StopStills(r)
             \/ Unlink(r)
    <3>1. /\ pc[r] \in Holding /\ UNCHANGED <<flock, name, fd>>
          /\ \E to \in Holding \cup {"close"} : Go(r, to)
      BY <2>5 DEF ClearStills, First, Write, Rename, Lost, StopStills, Unlink, mine, Holding
    <3> QED
      BY <3>1 DEF StillsTypeOK, LockedInv, Go, Holding
  <2> QED
    BY <1>3, <2>1, <2>2, <2>3, <2>4, <2>5 DEF Record
<1>4. ASSUME NEW r \in Recorder, Kill(r) PROVE LockedInv'
  BY <1>4, OverLocked DEF Kill
<1> QED
  BY <1>1, <1>2, <1>3, <1>4 DEF StillsNext

\* A step of one recorder leaves the others where they are.
LEMMA OthersKept ==
  ASSUME StillsTypeOK, LockedInv, NEW r \in Recorder, Prune(r) \/ Record(r) \/ Kill(r)
  PROVE  /\ \A q \in Recorder \ {r} :
              /\ pc'[q] = pc[q] /\ name'[q] = name[q] /\ fd'[q] = fd[q]
              /\ look'[q] = look[q] /\ old'[q] = old[q]
         /\ ~stray' => ~stray
<1> DEFINE Kept == /\ \A q \in Recorder \ {r} :
                        /\ pc'[q] = pc[q] /\ name'[q] = name[q] /\ fd'[q] = fd[q]
                        /\ look'[q] = look[q] /\ old'[q] = old[q]
                   /\ ~stray' => ~stray
<1> SUFFICES Kept
  OBVIOUS
<1>1. CASE Prune(r)
  <2>1. ASSUME NEW m \in Name, Begin(r, m) \/ LookPast(r, m) \/ LookFree(r, m) \/ LookTakes(r, m)
        PROVE Kept
    BY <2>1 DEF StillsTypeOK, Begin, LookPast, LookFree, LookTakes, Go
  <2>2. ASSUME NEW m \in Name, Tidy(r, m) \/ Remove(r, m) PROVE Kept
    BY <2>2 DEF StillsTypeOK, Tidy, Remove, Go
  <2>3. CASE LookDrops(r)
    BY <2>3 DEF StillsTypeOK, LookDrops, Go, Release, mine
  <2>4. CASE Sort(r) \/ Rmdir(r)
    BY <2>4 DEF StillsTypeOK, Sort, Rmdir, Go
  <2> QED
    BY <1>1, <2>1, <2>2, <2>3, <2>4 DEF Prune
<1>2. CASE Over(r) /\ UNCHANGED <<disk, stray>>
  BY <1>2 DEF StillsTypeOK, Over, Go, Release
<1>3. CASE Open(r)
  <2>1. PICK i \in Inode : fd' = [fd EXCEPT ![r] = i]
    BY <1>3, OpenFile
  <2>2. Go(r, "lock") /\ UNCHANGED <<mine, stray>>
    BY <1>3 DEF Open
  <2> QED
    BY <2>1, <2>2 DEF StillsTypeOK, Go, mine
<1>4. CASE Record(r)
  <2>1. CASE \/ Mkdir(r) \/ Lock(r) \/ ClearStills(r) \/ First(r) \/ Write(r)
             \/ Rename(r) \/ Lost(r) \/ StopStills(r) \/ Unlink(r)
    BY <2>1 DEF StillsTypeOK, Mkdir, Lock, ClearStills, First, Write, Rename, Lost, StopStills,
       Unlink, Go, mine
  <2> QED
    BY <1>2, <1>3, <1>4, <2>1 DEF Record, Refused, BeginFails, Close
<1> QED
  BY <1>1, <1>2, <1>4 DEF Kill

\* A recording's file stays the .active of its directory.
LEMMA NextNamed == StillsInv /\ [StillsNext]_stillsVars /\ StillsTypeOK' => NamedInv'
<1> SUFFICES ASSUME StillsInv, [StillsNext]_stillsVars, StillsTypeOK', ~stray',
                    NEW q \in Recorder, pc'[q] \in Holding
             PROVE  active'[name'[q]] = fd'[q]
  BY DEF NamedInv
<1> USE DEF StillsInv
<1>1. CASE UNCHANGED stillsVars
  BY <1>1 DEF NamedInv, stillsVars, disk, mine
<1>2. ASSUME NEW r \in Recorder, Prune(r) \/ Record(r) \/ Kill(r)
      PROVE  active'[name'[q]] = fd'[q]
  <2>1. ~stray
    BY <1>2, OthersKept
  <2>2. q # r => pc[q] \in Holding /\ name'[q] = name[q] /\ fd'[q] = fd[q]
    BY <1>2, OthersKept
  <2>3. pc[q] \in Holding => /\ active[name[q]] = fd[q] /\ name[q] \in Name
                             /\ fd[q] \in Inode
    BY <2>1 DEF NamedInv, LockedInv, StillsTypeOK, Holding
  <2>4. CASE Prune(r)
    <3>1. q # r
      BY <2>4 DEF StillsTypeOK, Prune, Begin, LookPast, LookFree, LookTakes, LookDrops, Sort,
                  Tidy, Remove, Rmdir, Go, Holding
    <3>2. ASSUME NEW m \in Name, Remove(r, m) PROVE active'[name[q]] = active[name[q]]
      BY <2>2, <2>3, <3>1, <3>2 DEF Remove, StillsTypeOK
    <3>3. UNCHANGED active \/ \E m \in Name : Remove(r, m)
      BY <2>4 DEF Prune, Begin, LookPast, LookFree, LookTakes, LookDrops, Sort,
                  Tidy, Rmdir, disk
    <3> QED
      BY <2>2, <2>3, <3>1, <3>2, <3>3
  <2>5. CASE Over(r) /\ UNCHANGED <<disk, stray>>
    <3>1. q # r
      BY <2>5 DEF StillsTypeOK, Over, Go, Holding
    <3> QED
      BY <2>2, <2>3, <2>5, <3>1 DEF disk
  <2>6. CASE Open(r)
    <3>1. PICK i \in Inode : /\ active' = [active EXCEPT ![name[r]] = i]
                             /\ active[name[r]] # Nothing => active[name[r]] = i
      BY <2>6, OpenFile
    <3>2. q # r
      BY <2>6 DEF StillsTypeOK, Open, Go, Holding
    <3> QED
      BY <2>2, <2>3, <3>1, <3>2, StillsAssumption DEF StillsTypeOK
  <2>7. CASE Lock(r)
    BY <2>2, <2>3, <2>7 DEF StillsTypeOK, Lock, Go, disk, mine
  <2>8. CASE Mkdir(r) \/ ClearStills(r) \/ First(r) \/ Write(r) \/ Rename(r) \/ Lost(r)
             \/ StopStills(r)
    <3>1. UNCHANGED <<active, name, fd>>
      BY <2>8 DEF Mkdir, ClearStills, First, Write, Rename, Lost, StopStills, disk, mine
    <3>2. pc[q] \in Holding
      BY <2>2, <2>8 DEF StillsTypeOK, Mkdir, ClearStills, First, Write, Rename, Lost, StopStills,
         Go, Holding
    <3> QED
      BY <2>3, <3>1, <3>2
  <2>9. CASE Unlink(r)
    <3>1. q # r
      BY <2>9 DEF StillsTypeOK, Unlink, Go, Holding
    <3>2. pc[r] \in Holding
      BY <2>9 DEF Unlink, Holding
    <3>3. name[q] # name[r]
      BY <2>1, <2>2, <3>1, <3>2, OneByLock DEF OneInEach, OneEach
    <3> QED
      BY <2>2, <2>3, <2>9, <3>1, <3>3 DEF StillsTypeOK, Unlink
  <2> QED
    BY <1>2, <2>4, <2>5, <2>6, <2>7, <2>8, <2>9
    DEF Record, Kill, Refused, BeginFails, Close
<1> QED
  BY <1>1, <1>2 DEF StillsNext

\* Nobody but the recorder of a name changes the stills of that name.
LEMMA StillsKept ==
  ASSUME StillsInv, StillsTypeOK', NEW r \in Recorder, Prune(r) \/ Record(r) \/ Kill(r), ~stray',
         NEW q \in Recorder \ {r}, pc[q] \in Holding
  PROVE  stills'[name[q]] = stills[name[q]]
<1> USE DEF StillsInv
<1>1. ~stray
  BY OthersKept
<1>2. name[q] \in Name
  BY DEF LockedInv, StillsTypeOK, Holding
<1>3. ASSUME NEW m \in Name, Remove(r, m) PROVE stills'[name[q]] = stills[name[q]]
  <2>1. name[q] # m
    BY <1>3 DEF Remove
  <2> QED
    BY <1>2, <1>3, <2>1 DEF Remove, StillsTypeOK
<1>4. CASE ClearStills(r) \/ First(r) \/ Rename(r)
  <2>1. pc[r] \in Holding
    BY <1>4 DEF ClearStills, First, Rename, Holding
  <2>2. name[q] # name[r]
    BY <1>1, <2>1, OneByLock DEF OneInEach, OneEach
  <2> QED
    BY <1>2, <1>4, <2>2 DEF ClearStills, First, Rename, StillsTypeOK
<1>5. UNCHANGED stills \/ ClearStills(r) \/ First(r) \/ Rename(r) \/ \E m \in Name : Remove(r, m)
  <2>1. Prune(r) => UNCHANGED stills \/ \E m \in Name : Remove(r, m)
    BY DEF Prune, Begin, LookPast, LookFree, LookTakes, LookDrops, Sort, Tidy, Rmdir, disk
  <2>2. Record(r) => UNCHANGED stills \/ ClearStills(r) \/ First(r) \/ Rename(r)
    BY DEF Record, Mkdir, Open, Lock, Refused, BeginFails, Write, Lost, StopStills, Unlink, Close,
           disk
  <2>3. Kill(r) => UNCHANGED stills
    BY DEF Kill, disk
  <2> QED
    BY <2>1, <2>2, <2>3
<1> QED
  BY <1>3, <1>4, <1>5

\* A directory is cleared before the recording, and has its stills only.
LEMMA NextOwn == StillsInv /\ [StillsNext]_stillsVars /\ StillsTypeOK' => ClearedInv' /\ OwnStills'
<1> DEFINE Own(q) ==
      /\ pc[q] = "first" => stills[name[q]] = {}
      /\ pc[q] \in Filming \cup {"unlink"} => stills[name[q]] = {q}
<1> SUFFICES ASSUME StillsInv, [StillsNext]_stillsVars, StillsTypeOK', ~stray', NEW q \in Recorder
             PROVE  Own(q)'
  BY DEF ClearedInv, OwnStills
<1> USE DEF StillsInv
<1>1. CASE UNCHANGED stillsVars
  BY <1>1 DEF ClearedInv, OwnStills, stillsVars, disk, mine
<1>2. ASSUME NEW r \in Recorder, Prune(r) \/ Record(r) \/ Kill(r)
      PROVE  Own(q)'
  <2>1. ~stray /\ Own(q)
    BY <1>2, OthersKept DEF ClearedInv, OwnStills
  <2>2. CASE q # r
    <3>1. pc'[q] = pc[q] /\ name'[q] = name[q]
      BY <1>2, <2>2, OthersKept
    <3>2. pc[q] \in Holding => stills'[name[q]] = stills[name[q]]
      BY <1>2, <2>2, StillsKept
    <3> QED
      BY <2>1, <3>1, <3>2 DEF Holding, Filming
  <2>3. CASE q = r /\ Prune(r)
    <3>1. pc'[q] \notin {"first", "record", "rename", "unlink"}
      BY <2>3 DEF StillsTypeOK, Prune, Begin, LookPast, LookFree, LookTakes, LookDrops, Sort,
                  Tidy, Remove, Rmdir, Go
    <3> QED
      BY <3>1 DEF Filming
  <2>4. CASE q = r /\ Over(r)
    BY <2>4 DEF StillsTypeOK, Over, Go, Filming
  <2>5. CASE q = r /\ (Mkdir(r) \/ Open(r) \/ Lock(r) \/ Unlink(r))
    BY <2>5 DEF StillsTypeOK, Mkdir, Open, Lock, Unlink, Go, Filming
  <2>6. CASE q = r /\ (ClearStills(r) \/ First(r) \/ Write(r) \/ Rename(r) \/ Lost(r)
                        \/ StopStills(r))
    <3>1. name[q] \in Name /\ name'[q] = name[q]
      BY <2>6 DEF StillsTypeOK, LockedInv, ClearStills, First, Write, Rename, Lost, StopStills, mine
    <3>2. CASE ClearStills(r)
      BY <2>6, <3>1, <3>2 DEF StillsTypeOK, ClearStills, Go, Filming
    <3>3. CASE First(r)
      BY <2>1, <2>6, <3>1, <3>3 DEF StillsTypeOK, First, Go, Filming
    <3>4. CASE Rename(r)
      BY <2>1, <2>6, <3>1, <3>4 DEF StillsTypeOK, Rename, Go, Filming
    <3>5. CASE Write(r) \/ Lost(r) \/ StopStills(r)
      BY <2>1, <2>6, <3>1, <3>5 DEF StillsTypeOK, Write, Lost, StopStills, Go, disk, Filming
    <3> QED
      BY <2>6, <3>2, <3>3, <3>4, <3>5
  <2> QED
    BY <1>2, <2>2, <2>3, <2>4, <2>5, <2>6 DEF Record, Kill, Refused, BeginFails, Close
<1> QED
  BY <1>1, <1>2 DEF StillsNext

\* What is recorded is on nobody's list from before.
LEMMA NextSpared == StillsInv /\ [StillsNext]_stillsVars /\ StillsTypeOK' => SparedInv'
<1> SUFFICES ASSUME StillsInv, [StillsNext]_stillsVars, StillsTypeOK',
                    NEW p \in Recorder, NEW q \in Recorder, q \in spared'[p]
             PROVE  /\ pc'[q] \in Filming \cup {"unlink"}
                    /\ ~stray' => name'[q] \notin old'[p]
                    /\ ~stray' /\ pc'[p] \notin {"look", "probe"} => name'[q] \notin look'[p]
  BY DEF SparedInv, StillsTypeOK
<1> USE DEF StillsInv
<1>1. CASE UNCHANGED stillsVars
  BY <1>1 DEF SparedInv, stillsVars, disk, mine
<1>2. ASSUME NEW r \in Recorder, Prune(r) \/ Record(r) \/ Kill(r)
      PROVE  /\ pc'[q] \in Filming \cup {"unlink"}
             /\ ~stray' => name'[q] \notin old'[p]
             /\ ~stray' /\ pc'[p] \notin {"look", "probe"} => name'[q] \notin look'[p]
  <2>1. ~stray' => ~stray
    BY <1>2, OthersKept
  <2>2. \A o \in Recorder \ {r} : /\ pc'[o] = pc[o] /\ name'[o] = name[o]
                                   /\ look'[o] = look[o] /\ old'[o] = old[o]
    BY <1>2, OthersKept
  <2>3. q \in spared[p] => /\ pc[q] \in Filming \cup {"unlink"}
                           /\ ~stray => name[q] \notin old[p]
                           /\ ~stray /\ pc[p] \notin {"look", "probe"} => name[q] \notin look[p]
    BY DEF SparedInv
  <2>4. ASSUME NEW n \in Name, Begin(r, n)
        PROVE  /\ pc'[q] \in Filming \cup {"unlink"}
               /\ ~stray' => name'[q] \notin old'[p]
               /\ ~stray' /\ pc'[p] \notin {"look", "probe"} => name'[q] \notin look'[p]
    <3>1. p = r => pc[q] \in Filming /\ old'[p] = {} /\ pc'[p] = "look"
      BY <2>4 DEF StillsTypeOK, Begin, Go
    <3>2. p # r => q \in spared[p]
      BY <2>4 DEF StillsTypeOK, Begin
    <3>3. q # r /\ pc'[q] = pc[q] /\ name'[q] = name[q]
      BY <2>2, <2>3, <2>4, <3>1, <3>2 DEF Begin, Filming
    <3> QED
      BY <2>1, <2>2, <2>3, <3>1, <3>2, <3>3
  <2>5. ASSUME q \in spared[p], ~stray, p = r, q # r, Prune(r), \A n \in Name : ~Begin(r, n)
        PROVE  /\ name[q] \notin old'[p]
               /\ pc'[p] \notin {"look", "probe"} => name[q] \notin look'[p]
    <3>1. /\ active[name[q]] = fd[q] /\ fd[q] # Nothing /\ flock[fd[q]] = q
          /\ q # Nothing /\ pc[q] \in Holding /\ name[q] \in Name
      BY <2>3, <2>5, StillsAssumption DEF NamedInv, LockedInv, StillsTypeOK, Holding, Filming
    <3>2. ASSUME NEW m \in Name, LookPast(r, m) \/ LookFree(r, m) \/ LookTakes(r, m)
          PROVE  name[q] \notin old'[p] /\ pc'[p] \in {"look", "probe"}
      BY <2>3, <2>5, <3>1, <3>2 DEF LookPast, LookFree, LookTakes, Go, StillsTypeOK
    <3>3. CASE LookDrops(r)
      BY <2>3, <2>5, <3>3 DEF LookDrops, Go, mine, StillsTypeOK
    <3>4. CASE Sort(r)
      BY <2>3, <2>5, <3>4 DEF Sort, StillsTypeOK
    <3>5. ASSUME NEW m \in Name, Tidy(r, m)
          PROVE  name[q] \notin old'[p] /\ name[q] \notin look'[p]
      BY <2>3, <2>5, <3>5 DEF Tidy, StillsTypeOK
    <3>6. ASSUME NEW m \in Name, Remove(r, m)
          PROVE  name[q] \notin old'[p] /\ name[q] \notin look'[p]
      <4>1. name[q] # m
        BY <2>3, <2>5, <3>6 DEF Remove
      <4>2. old'[p] = old[p] \ {m} /\ look'[p] = {m}
        BY <2>5, <3>6 DEF Remove, StillsTypeOK
      <4> QED
        BY <2>3, <2>5, <4>1, <4>2
    <3>7. CASE Rmdir(r)
      BY <2>3, <2>5, <3>7 DEF Rmdir, StillsTypeOK
    <3> QED
      BY <2>5, <3>2, <3>3, <3>4, <3>5, <3>6, <3>7 DEF Prune
  <2>6. ASSUME \A n \in Name : ~Begin(r, n)
        PROVE  /\ q \in spared[p]
               /\ q = r => Write(r) \/ Rename(r) \/ Lost(r) \/ StopStills(r)
    <3>1. UNCHANGED spared \/ Forget(r)
      BY <1>2, <2>6 DEF Prune, LookPast, LookFree, LookTakes, LookDrops, Sort, Tidy, Remove,
         Rmdir, Record, Mkdir, Open, Lock, Refused, BeginFails, ClearStills, First, Write, Rename,
         Lost, StopStills, Unlink, Close, Kill, Over
    <3>2. q \in spared[p]
      BY <3>1 DEF Forget
    <3>3. ASSUME q = r PROVE ~Forget(r)
      BY <3>3 DEF Forget
    <3>4. ASSUME q = r PROVE Write(r) \/ Rename(r) \/ Lost(r) \/ StopStills(r)
      <4>1. pc[r] \in {"record", "rename", "unlink"}
        BY <2>3, <3>2, <3>4 DEF Filming
      <4>2. ~Prune(r)
        BY <2>6, <4>1 DEF Prune, LookPast, LookFree, LookTakes, LookDrops, Sort, Tidy,
           Remove, Rmdir
      <4> QED
        BY <1>2, <3>3, <3>4, <4>1, <4>2 DEF Record, Mkdir, Open, Lock, Refused, BeginFails,
           ClearStills, First, Unlink, Close, Kill, Over
    <3> QED
      BY <3>2, <3>4
  <2>7. CASE q = r /\ \A n \in Name : ~Begin(r, n)
    <3>1. Write(r) \/ Rename(r) \/ Lost(r) \/ StopStills(r)
      BY <2>6, <2>7
    <3>2. /\ pc'[r] \in Filming \cup {"unlink"} /\ UNCHANGED mine
          /\ pc[r] \notin {"look", "probe"}
      BY <3>1 DEF Write, Rename, Lost, StopStills, Go, StillsTypeOK, Filming
    <3>3. p # r => pc'[p] = pc[p]
      BY <2>2
    <3> QED
      BY <2>1, <2>3, <2>6, <2>7, <3>2, <3>3 DEF mine
  <2>8. CASE q # r /\ p = r /\ \A n \in Name : ~Begin(r, n)
    <3>1. /\ q \in spared[p] /\ pc'[q] = pc[q] /\ name'[q] = name[q]
          /\ pc[q] \in Filming \cup {"unlink"}
      BY <2>2, <2>3, <2>6, <2>8
    <3>2. CASE Prune(r)
      BY <2>1, <2>5, <2>8, <3>1, <3>2
    <3>3. CASE Over(r)
      BY <2>8, <3>1, <3>3 DEF Over, StillsTypeOK
    <3>4. CASE \/ Mkdir(r) \/ Open(r) \/ Lock(r) \/ ClearStills(r) \/ First(r)
               \/ Write(r) \/ Rename(r) \/ Lost(r) \/ StopStills(r) \/ Unlink(r)
      <4>1. UNCHANGED mine /\ pc[r] \notin {"look", "probe"}
        BY <3>4 DEF Mkdir, Open, Lock, ClearStills, First, Write, Rename, Lost, StopStills, Unlink
      <4> QED
        BY <2>1, <2>3, <2>8, <3>1, <4>1 DEF mine
    <3> QED
      BY <1>2, <3>2, <3>3, <3>4 DEF Record, Kill, Refused, BeginFails, Close
  <2>9. CASE q # r /\ p # r /\ \A n \in Name : ~Begin(r, n)
    <3>1. pc'[p] = pc[p] /\ old'[p] = old[p] /\ look'[p] = look[p]
      BY <2>2, <2>9
    <3>2. q \in spared[p] /\ pc'[q] = pc[q] /\ name'[q] = name[q]
      BY <2>2, <2>6, <2>9
    <3> QED
      BY <2>1, <2>3, <3>1, <3>2
  <2> QED
    BY <2>4, <2>7, <2>8, <2>9
<1> QED
  BY <1>1, <1>2 DEF StillsNext

\* The inductive invariant: whatever the number of recorders and names,
\* and whenever any of them is killed.
THEOREM StillsInvariance == StillsSpec => []StillsInv
<1>1. StillsInit => StillsInv
  BY InitStills
<1>2. StillsInv /\ [StillsNext]_stillsVars => StillsInv'
  BY NextTypes, NextLocked, NextNamed, NextOwn, NextSpared DEF StillsInv
<1> QED
  BY <1>1, <1>2, PTL DEF StillsSpec

\* record.rs keeps what it says of its directories well-typed, and a
\* directory that is gone has nothing in it.
THEOREM StillsTypeCorrect == StillsSpec => []StillsTypeOK
<1>1. StillsInv => StillsTypeOK
  BY DEF StillsInv
<1> QED
  BY <1>1, StillsInvariance, PTL

\* record.rs, hold_active: as long as no .active was removed between opening
\* and locking it, or from under a recording, no two recordings are made into
\* one directory.
THEOREM OneRecorderHolds == StillsSpec => []OneInEach
<1>1. StillsInv => OneInEach
  BY OneByLock DEF StillsInv
<1> QED
  BY <1>1, StillsInvariance, PTL

\* record.rs, clear_stills and prune: the directory of a recording has its
\* stills and no others until then.
THEOREM OwnStillsHold == StillsSpec => []OwnStills
<1>1. StillsInv => OwnStills
  BY DEF StillsInv
<1> QED
  BY <1>1, StillsInvariance, PTL

\* record.rs, is_active and prune: a recording in progress when a pruning
\* began loses nothing to it.
THEOREM PruneSparesAll == StillsSpec => PruneSpares
<1>1. StillsInv /\ [StillsNext]_stillsVars =>
        [\A r \in Recorder, m \in Name :
           (Remove(r, m) \/ Tidy(r, m)) /\ ~stray
             => \A q \in spared[r] : name[q] # m]_stillsVars
  <2> SUFFICES ASSUME StillsInv, NEW r \in Recorder, NEW m \in Name,
                      Remove(r, m) \/ Tidy(r, m), ~stray, NEW q \in spared[r]
               PROVE  name[q] # m
    OBVIOUS
  <2>1. m \in old[r] \/ (m \in look[r] /\ pc[r] = "tidy")
    BY DEF Remove, Tidy
  <2> QED
    BY <2>1 DEF StillsInv, SparedInv
<1> QED
  BY <1>1, StillsInvariance, PTL DEF StillsSpec, PruneSpares
=============================================================================
