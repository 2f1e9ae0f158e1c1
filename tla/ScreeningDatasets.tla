------------------------- MODULE ScreeningDatasets -------------------------
(***************************************************************************)
(* The dataset file of an organisation, which the screening provider       *)
(* searches, and the delta tracks it is built from.  A track says which    *)
(* version of an object entered the dataset, or that the object left it.   *)
(* A periodic job merges the last unfiled track of each object into the    *)
(* previous file, then files all the tracks in the transaction that        *)
(* records the new file.                                                   *)
(*                                                                         *)
(* A file is written under a new name, and exists once its writer is       *)
(* closed: the code closes it after that transaction, ignores the error,   *)
(* and a crash in between loses what was written.  The next build reads    *)
(* the file recorded last and fails when it does not exist.  The delta     *)
(* file that is written beside it is left out.                             *)
(***************************************************************************)
EXTENDS ObjectVersions

CONSTANTS MaxBuilds    \* bound: builds of a dataset file

VARIABLES
  tracks,      \* delta tracks of the objects
  dataset,     \* the version of each object in the file recorded last, 0 if it is not there
  stored,      \* that file exists: its writer was closed
  build,       \* local variables of the last build
  builds       \* counter of the bound

buildVars == <<dataset, stored, build, builds>>
datasetVars == <<tracks, buildVars>>

IdleBuild == [pc |-> "idle", now |-> 0, content |-> [o \in Objects |-> 0]]

DatasetsInit ==
  /\ tracks = {}
  /\ dataset = [o \in Objects |-> 0]
  /\ stored = TRUE
  /\ build = IdleBuild
  /\ builds = 0

-----------------------------------------------------------------------------
(* Tracks.                                                                 *)

\* created_at is the start of the transaction; it is late when a build that took
\* its own time in between may have overlooked it.
Track(o, version, at) ==
  [object |-> o, version |-> version, at |-> at, filed |-> FALSE,
   late |-> at < build.now]

\* ON CONFLICT DO NOTHING: one track of an addition or an update per version.
WithTrack(o, version, at) ==
  IF \E t \in tracks : t.object = o /\ t.version = version THEN tracks
  ELSE tracks \cup {Track(o, version, at)}

\* Version 0 stands for a deletion, which nothing makes unique.
WithDeletion(o, at) == tracks \cup {Track(o, 0, at)}

TracksOf(o) == {t \in tracks : t.object = o}

\* The latest of some tracks by created_at.
Latest(some) == CHOOSE t \in some : \A other \in some : other.at <= t.at

-----------------------------------------------------------------------------
(* CreateFullDatasetWorker: an advisory lock lets one build run.           *)

StartBuild ==
  /\ build.pc = "idle" /\ builds < MaxBuilds
  /\ builds' = builds + 1
  /\ clock' = Now
  /\ build' = [build EXCEPT !.pc = "list", !.now = Now]
  /\ UNCHANGED <<table, ingest, monitored, tasks, faults, tracks, dataset, stored>>

\* The tracks a build looks at.
Unfiled == {t \in tracks : ~t.filed /\ t.at < build.now}

LastUnfiled(o) == Latest({t \in Unfiled : t.object = o})

\* The file recorded last is opened first: without it the job fails.
NoPreviousFile ==
  /\ build.pc = "list" /\ ~stored
  /\ build' = [build EXCEPT !.pc = "idle"]
  /\ UNCHANGED <<ingestionVars, tracks, dataset, stored, builds>>

\* Without a track there is nothing to do.
ListTracks ==
  /\ build.pc = "list" /\ stored
  /\ build' = IF Unfiled = {} THEN [build EXCEPT !.pc = "idle"]
              ELSE [build EXCEPT !.pc = "commit", !.content = [o \in Objects |->
                IF \E t \in Unfiled : t.object = o THEN LastUnfiled(o).version
                ELSE dataset[o]]]
  /\ UNCHANGED <<ingestionVars, tracks, dataset, stored, builds>>

\* Mutant: every track is filed.
Mutant_FileAll == {[t EXCEPT !.filed = TRUE] : t \in tracks}

\* UpdateDeltaTracksDatasetFileId.
Filed == {[t EXCEPT !.filed = @ \/ t.at < build.now] : t \in tracks}

\* The transaction: the new file is recorded and its tracks are filed.
CommitBuild ==
  /\ build.pc = "commit"
  /\ dataset' = build.content
  /\ stored' = FALSE
  /\ tracks' = Filed
  /\ build' = [build EXCEPT !.pc = "close"]
  /\ UNCHANGED <<ingestionVars, builds>>

\* The deferred Close of the writer: the file comes to exist.
CloseFile ==
  /\ build.pc = "close"
  /\ stored' = TRUE
  /\ build' = [build EXCEPT !.pc = "idle"]
  /\ UNCHANGED <<ingestionVars, tracks, dataset, builds>>

\* An error or a crash.  Before the commit the next job starts again from the file
\* recorded last; after it that file, the new one, is lost.
BuildFails ==
  /\ build.pc /= "idle" /\ Fault
  /\ build' = [build EXCEPT !.pc = "idle"]
  /\ UNCHANGED <<table, clock, ingest, monitored, tasks, tracks, dataset, stored, builds>>

BuildStep ==
  \/ StartBuild \/ NoPreviousFile \/ ListTracks \/ CommitBuild \/ CloseFile \/ BuildFails

=============================================================================
