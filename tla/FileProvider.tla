---------------------------- MODULE FileProvider ----------------------------
(***************************************************************************)
(* FileProvider.Run of internal/provider/file/file.go: it loads the routes *)
(* file, watches it and loads it again after every write.  A load is a     *)
(* Publish(File) of ConfigPipeline, so that version n of the file is what  *)
(* the n-th load finds; what Check makes of it is given by contents.       *)
(*                                                                         *)
(* The watch is on the file, not on its name (fsnotify on Linux): a file   *)
(* that is replaced by a rename takes the watch with it, and with it all   *)
(* further events.  Events that wait are as good as one, since each only   *)
(* makes the provider load what is there then.                             *)
(***************************************************************************)
EXTENDS ConfigPipeline

VARIABLES
    reader,   \* control point of Run
    watch,    \* the watch: none yet, on the file, or lost with a replaced file
    changed,  \* whether the file is not what was loaded last
    event     \* whether a Write event waits

fileVars == <<reader, watch, changed, event>>

FileTypeOK ==
    /\ reader \in {"load", "add", "select", "waiting", "stopped"}
    /\ watch \in {"none", "file", "lost"}
    /\ changed \in BOOLEAN /\ event \in BOOLEAN

FileInit == reader = "load" /\ watch = "none" /\ changed = TRUE /\ event = FALSE

-----------------------------------------------------------------------------
(* Run *)

\* Mutant: Run returns when the file does not load.
ReturnOnError == IF published'[File] \in bad THEN "stopped" ELSE "select"

AfterLoad == "select"

\* The first load; its message is sent before anything is watched.
LoadFile ==
    /\ reader = "load"
    /\ Publish(File)
    /\ reader' = "add" /\ changed' = FALSE
    /\ UNCHANGED <<watch, event>>

\* NewWatcher and Add.  If either fails, Run only waits for the end of the process.
AddWatch ==
    /\ reader = "add" /\ held[File] = 0
    /\ \/ reader' = "select" /\ watch' = "file"
       \/ reader' = "waiting" /\ UNCHANGED watch
    /\ UNCHANGED <<vars, changed, event>>

\* A Write event: load and send.  What is written between the two, or while the send
\* waits for room, makes an event of its own.
Reload ==
    /\ reader = "select" /\ event
    /\ Publish(File)
    /\ reader' = AfterLoad
    /\ event' = FALSE /\ changed' = FALSE
    /\ UNCHANGED watch

\* ctx.Done() in the select, or after a watch that could not be added.
StopReader ==
    /\ shutdown /\ held[File] = 0
    /\ reader \in {"select", "waiting"}
    /\ reader' = "stopped"
    /\ UNCHANGED <<vars, watch, changed, event>>

-----------------------------------------------------------------------------
(* The file *)

\* Bound: every load finds one of MaxVersion versions.
MayChange == changed \/ published[File] < MaxVersion

\* One write to the file as it is.  An editor may need several: it may truncate the file
\* first, and what a load finds in between is a version as well.
WriteFile ==
    /\ MayChange
    /\ changed' = TRUE
    /\ event' = (event \/ watch = "file")
    /\ UNCHANGED <<vars, reader, watch>>

\* Another file takes the name.
ReplaceFile ==
    /\ MayChange
    /\ changed' = TRUE
    /\ watch' = IF watch = "file" THEN "lost" ELSE watch
    /\ UNCHANGED <<vars, reader, event>>

FileStep == LoadFile \/ AddWatch \/ Reload \/ StopReader \/ WriteFile \/ ReplaceFile

-----------------------------------------------------------------------------
(* Properties *)

\* The file changed where Run could not see it: between the first load and the watch, or
\* after the watch was lost or could not be added.
Missed == changed /\ ~event /\ reader # "load"

\* Every version that Run could see is loaded in the end, broken ones before it, a full
\* channel and a first load that is still being sent notwithstanding (file.go:355-399).
FileIsLoaded ==
    <>[](main = "running" /\ ~shutdown /\ ~Missed) => <>[](~changed)
=============================================================================
