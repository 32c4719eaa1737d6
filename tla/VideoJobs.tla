------------------------------- MODULE VideoJobs -------------------------------
(***************************************************************************)
(* Jobs of the video tool (pages/videotool) and the page that works on     *)
(* one of them.  A job is a directory and what was made in it; a timer     *)
(* sweeps it an hour after it was made, whatever is still at work in it.   *)
(*                                                                         *)
(* Times, progress, and what an edit consists of are left out: edits are   *)
(* numbered as the page asks for them.                                     *)
(***************************************************************************)
EXTENDS Naturals, FiniteSets

CONSTANTS
  Jobs,      \* bound: jobs ever made
  Formats,
  Handlers,  \* requests that may be under way at once
  NoJob,
  MaxEdits   \* bound: exports ever asked for

ASSUME JobsAssumption == NoJob \notin Jobs /\ MaxEdits \in Nat

VARIABLES
  jobs,    \* the registered ones
  dirs,    \* directories that exist, by their jobs
  job,     \* id -> [source, track, output]; kept by whoever still holds it
  files,   \* <<id, format>> -> the edits whose bytes are in the file
  task,    \* what every request is at
  tool,    \* the page: its job, its track, its export and what came of it
  edits    \* exports asked for so far

videoVars == <<jobs, dirs, job, files, task, tool, edits>>

NoTask == [op |-> "none"]
NoOutput == [format |-> "none", edit |-> 0]
Empty == [source |-> FALSE, track |-> FALSE, output |-> NoOutput]
Files == Jobs \X Formats

(* Asked: the edit the page waits for, or shows; 0: none.                   *)
Blank == [job |-> NoJob, track |-> FALSE, phase |-> "idle", format |-> "none", edit |-> 0]

VideoInit ==
  /\ jobs = {} /\ dirs = {} /\ edits = 0
  /\ job = [id \in Jobs |-> Empty]
  /\ files = [f \in Files |-> {}]
  /\ task = [h \in Handlers |-> NoTask]
  /\ tool = Blank

Goes(h, t) == task' = [task EXCEPT ![h] = t]
Idle(h) == task[h] = NoTask

-----------------------------------------------------------------------------
(* loadFromURL, uploadVideo: the page forgets the job before, whose export  *)
(* it hears no more of, and newJob makes another.  It does not offer this   *)
(* while it loads.                                                          *)
ResetKeepsExport == [Blank EXCEPT !.phase = tool.phase, !.edit = tool.edit, !.format = tool.format]
Reset == Blank

Loading(h) == task[h].op = "load"
Closed(t) == IF t.op = "export" THEN [t EXCEPT !.open = FALSE] ELSE t

NewJob(h, id) ==
  /\ Idle(h) /\ \A g \in Handlers : Loading(g) => ~task[g].open
  /\ id \in Jobs \ (jobs \cup dirs) /\ ~job[id].source
  /\ \A g \in Handlers : task[g] # NoTask => task[g].job # id
  /\ jobs' = jobs \cup {id} /\ dirs' = dirs \cup {id}
  /\ tool' = Reset
  /\ task' = [g \in Handlers |->
                IF g = h THEN [op |-> "load", job |-> id, open |-> TRUE] ELSE Closed(task[g])]
  /\ UNCHANGED <<job, files, edits>>

Loaded(h) ==
  /\ Loading(h) /\ task[h].job \in dirs
  /\ job' = [job EXCEPT ![task[h].job].source = TRUE]
  /\ tool' = IF task[h].open THEN [tool EXCEPT !.job = task[h].job] ELSE tool
  /\ Goes(h, NoTask)
  /\ UNCHANGED <<jobs, dirs, files, edits>>

(* A download, a copy or a probe fails, or the source is too long: the job  *)
(* is expired at once.                                                      *)
LoadFails(h) ==
  /\ Loading(h)
  /\ jobs' = jobs \ {task[h].job} /\ dirs' = dirs \ {task[h].job}
  /\ files' = [f \in Files |-> IF f[1] = task[h].job THEN {} ELSE files[f]]
  /\ Goes(h, NoTask)
  /\ UNCHANGED <<job, tool, edits>>

-----------------------------------------------------------------------------
(* uploadAudioTrack; the page offers no other while one is under way.       *)
SendTrack(h) ==
  /\ Idle(h) /\ tool.job # NoJob /\ \A g \in Handlers : task[g].op # "track"
  /\ tool.job \in jobs
  /\ Goes(h, [op |-> "track", job |-> tool.job])
  /\ UNCHANGED <<jobs, dirs, job, files, tool, edits>>

TrackDone(h) ==
  /\ task[h].op = "track" /\ Goes(h, NoTask)
  /\ \/ /\ task[h].job \in dirs
        /\ job' = [job EXCEPT ![task[h].job].track = TRUE]
        /\ tool' = [tool EXCEPT !.track = TRUE]
     \/ UNCHANGED <<job, tool>>
  /\ UNCHANGED <<jobs, dirs, files, edits>>

-----------------------------------------------------------------------------
(* startExport, which is not offered while one runs; exportJob reads the    *)
(* job under its lock and starts ffmpeg, which empties the file of that     *)
(* format.                                                                  *)
Export(h, format) ==
  /\ Idle(h) /\ tool.job # NoJob /\ tool.phase # "running" /\ edits < MaxEdits
  /\ edits' = edits + 1
  /\ Goes(h, [op |-> "export", job |-> tool.job, format |-> format, edit |-> edits + 1,
            open |-> TRUE, at |-> "asked"])
  /\ tool' = [tool EXCEPT !.phase = "running", !.format = format, !.edit = edits + 1]
  /\ UNCHANGED <<jobs, dirs, job, files>>

Told(h, phase) == tool' = IF task[h].open THEN [tool EXCEPT !.phase = phase] ELSE tool

Encode(h) ==
  LET t == task[h]
  IN  /\ t.op = "export" /\ t.at = "asked"
      /\ t.job \in jobs /\ t.job \in dirs /\ job[t.job].source
      /\ files' = [files EXCEPT ![<<t.job, t.format>>] = {t.edit}]
      /\ Goes(h, [t EXCEPT !.at = "running"])
      /\ UNCHANGED <<jobs, dirs, job, tool, edits>>

(* Expired, not loaded yet, or ffmpeg fails; a closed stream kills it.      *)
ExportFails(h) ==
  LET t == task[h]
  IN  /\ t.op = "export"
      /\ files' = IF t.at = "running" /\ t.job \in dirs
                  THEN [files EXCEPT ![<<t.job, t.format>>] = @ \cup {t.edit}] ELSE files
      /\ Told(h, "error")
      /\ Goes(h, NoTask)
      /\ UNCHANGED <<jobs, dirs, job, edits>>

(* ffmpeg has written its file, which may be gone; the output is set, and   *)
(* whoever still listens is told.  Mutant: the format of the file asked for *)
(* first stays.                                                             *)
OutputOf(t) == [format |-> t.format, edit |-> t.edit]
FirstOutput(t) == IF job[t.job].output = NoOutput THEN OutputOf(t) ELSE job[t.job].output
Output(t) == OutputOf(t)

Exported(h) ==
  LET t == task[h]
  IN  /\ t.op = "export" /\ t.at = "running"
      /\ files' = IF t.job \in dirs THEN [files EXCEPT ![<<t.job, t.format>>] = @ \cup {t.edit}] ELSE files
      /\ job' = [job EXCEPT ![t.job].output = Output(t)]
      /\ Told(h, "done")
      /\ Goes(h, NoTask)
      /\ UNCHANGED <<jobs, dirs, edits>>

-----------------------------------------------------------------------------
(* The page loses the connection of a load or an export and takes it for    *)
(* failed; the request goes on until it notices.                            *)
Lose(h) ==
  LET t == task[h]
  IN  /\ t.op \in {"load", "export"} /\ t.open
      /\ Goes(h, [t EXCEPT !.open = FALSE])
      /\ tool' = IF t.op = "export" THEN [tool EXCEPT !.phase = "error"] ELSE tool
      /\ UNCHANGED <<jobs, dirs, job, files, edits>>

(* expireJob, by its timer: the job is forgotten, then its directory goes.  *)
Expire(id) ==
  /\ id \in jobs
  /\ jobs' = jobs \ {id}
  /\ UNCHANGED <<dirs, job, files, task, tool, edits>>

RemoveAll(id) ==
  /\ id \in dirs \ jobs
  /\ dirs' = dirs \ {id}
  /\ files' = [f \in Files |-> IF f[1] = id THEN {} ELSE files[f]]
  /\ UNCHANGED <<jobs, job, task, tool, edits>>

-----------------------------------------------------------------------------
Making ==
  \E h \in Handlers :
    \/ \E id \in Jobs : NewJob(h, id)
    \/ Loaded(h) \/ LoadFails(h) \/ SendTrack(h) \/ TrackDone(h)
Exporting ==
  \E h \in Handlers :
    \/ \E format \in Formats : Export(h, format)
    \/ Encode(h) \/ ExportFails(h) \/ Exported(h)
Expiring == \E id \in Jobs : Expire(id) \/ RemoveAll(id)

VideoNext == Making \/ Exporting \/ Expiring \/ \E h \in Handlers : Lose(h)

VideoSpec == VideoInit /\ [][VideoNext]_videoVars

-----------------------------------------------------------------------------
(* Properties.                                                             *)

Writers(f) == {h \in Handlers : task[h].op = "export" /\ task[h].at = "running" /\ f = <<task[h].job, task[h].format>>}

(* What the page offers for download, while its job lasts, is the export it *)
(* was told is complete: that file, whole and written by nobody else        *)
(* (exportJob, downloadResult: "the same id then downloads").               *)
DoneDownloads ==
  tool.phase = "done" /\ tool.job \in jobs \cap dirs =>
    LET output == job[tool.job].output IN
    /\ output = [format |-> tool.format, edit |-> tool.edit]
    /\ files[<<tool.job, output.format>>] = {output.edit}
    /\ Writers(<<tool.job, output.format>>) = {}

(* Whatever was lost, what the page calls complete has been exported.       *)
DoneHasFile ==
  tool.phase = "done" /\ tool.job \in jobs \cap dirs =>
    LET output == job[tool.job].output IN
    output # NoOutput /\ files[<<tool.job, output.format>>] # {}

(* A track the page shows is in its job, and an export that is asked to mix *)
(* it in does (uploadAudioTrack; exportJob drops a track it has not).       *)
TrackShownIsThere == tool.track /\ tool.job # NoJob => job[tool.job].track
================================================================================
