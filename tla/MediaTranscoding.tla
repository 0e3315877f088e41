--------------------------- MODULE MediaTranscoding ---------------------------
(***************************************************************************)
(* The on-demand AAC transcodes (src/src/transcode.rs and their handlers   *)
(* in src/src/api/media.rs): direct streams, HLS renditions and prepared   *)
(* downloads.  A request is one HTTP request, one step of it is what the   *)
(* handler does between two awaits; the steps of ffmpeg, of the task that  *)
(* reaps it, and of a file-system call that outlives its handler are their *)
(* own.  A rendition (item, file hash, profile) is one output path, shared *)
(* by every request for it through the generation coordinator.             *)
(*                                                                         *)
(* A client that disconnects drops the handler at whichever await it is:   *)
(* the generation guard and the slot are released and ffmpeg is killed     *)
(* (kill_on_drop), but a rename or a removal already handed to the         *)
(* blocking pool still runs to its end.                                    *)
(***************************************************************************)
EXTENDS TranscodeAdmission

CONSTANTS
  HlsRenditions,        \* output directories of HLS manifests and segments
  DownloadRenditions,   \* output files of prepared downloads
  Direct,               \* what a direct stream asks for: no output path
  NoRequest, NoRendition

Renditions == HlsRenditions \cup DownloadRenditions

ASSUME RenditionsDistinct ==
  /\ HlsRenditions \cap DownloadRenditions = {}
  /\ Direct \notin Renditions
  /\ NoRendition \notin Renditions \cup {Direct}
  /\ NoRequest \notin Requests

VARIABLES
  pc,           \* where each request's handler is
  rendition,    \* what each request asked for
  generations,  \* HlsGenerationCoordinator: the request holding each guard
  done,         \* requests whose generation guard has been dropped
  waitsOn,      \* the generation a waiting request subscribed to
  proc,         \* the ffmpeg process of each request
  usable,       \* requests whose ffmpeg has written a usable manifest
  output,       \* what is at each rendition's output path
  reaper,       \* the background task that waits for a request's ffmpeg
  orphan        \* a file-system call that outlived its handler

handlerVars == <<pc, rendition, waitsOn>>
guardVars == <<generations, done>>
processVars == <<proc, usable>>
fileVars == <<output, orphan>>
vars == <<admissionVars, handlerVars, guardVars, processVars, fileVars, reaper>>

Finished == {"served", "rejected", "failed", "cancelled"}

(* The handler states in which a request holds its generation guard. *)
Guarded == {"recheck", "spawn", "generate", "probe", "rename", "reprobe",
            "clear", "rename_again"}

Absent == [by |-> NoRequest, manifest |-> FALSE]

(* What is at an output path: the request that generated it, and whether   *)
(* its manifest (its file, for a download) is there.  A directory without  *)
(* a manifest is what an interrupted removal leaves.                       *)
Output == [by : Requests, manifest : BOOLEAN] \cup {Absent}

MediaTypeOK ==
  /\ AdmissionTypeOK
  /\ pc \in [Requests -> {"idle", "lookup", "read", "join", "waiting",
                          "stream"} \cup Guarded \cup Finished]
  /\ rendition \in [Requests -> Renditions \cup {Direct, NoRendition}]
  /\ waitsOn \in [Requests -> Requests \cup {NoRequest}]
  /\ generations \in [Renditions -> Requests \cup {NoRequest}]
  /\ done \subseteq Requests
  /\ proc \in [Requests -> {"none", "running", "killed", "ok", "err"}]
  /\ usable \subseteq Requests
  /\ output \in [Renditions -> Output]
  /\ reaper \in [Requests -> {"none", "stream", "temp", "output",
                             "cleanup", "rmdir"}]
  /\ orphan \in [Requests -> {"none", "rename", "clear", "cleared"}]

MediaInit ==
  /\ AdmissionInit
  /\ pc = [r \in Requests |-> "idle"]
  /\ rendition = [r \in Requests |-> NoRendition]
  /\ waitsOn = [r \in Requests |-> NoRequest]
  /\ generations = [k \in Renditions |-> NoRequest]
  /\ done = {}
  /\ proc = [r \in Requests |-> "none"]
  /\ usable = {}
  /\ output = [k \in Renditions |-> Absent]
  /\ reaper = [r \in Requests |-> "none"]
  /\ orphan = [r \in Requests |-> "none"]

-----------------------------------------------------------------------------
Goto(r, state) == pc' = [pc EXCEPT ![r] = state]

Exists(k) == output[k].manifest

IsHls(r) == rendition[r] \in HlsRenditions

(* path_is_file on the output path, false for a direct stream's none. *)
Published(r) == \E k \in Renditions : k = rendition[r] /\ Exists(k)

(* A guard that goes without waking anybody, for the mutants. *)
DropGuardSilently(r) ==
  /\ generations' = [k \in Renditions |->
                       IF generations[k] = r THEN NoRequest ELSE generations[k]]
  /\ UNCHANGED done

(* Drop of HlsGenerationGuard, if the request has one: the waiters of its   *)
(* channel are woken and its entry goes, in one critical section.           *)
DropGuard(r) ==
  /\ done' = done \cup {r}
  /\ generations' = [k \in Renditions |->
                       IF generations[k] = r THEN NoRequest ELSE generations[k]]

(* A handler ends with its guard and without a slot. *)
EndGuarded(r, state) == Goto(r, state) /\ DropGuard(r)

Kill(r) == proc' = [proc EXCEPT ![r] = IF @ = "running" THEN "killed" ELSE @]

-----------------------------------------------------------------------------
(* The handlers up to the slot. *)

(* A request arrives; a direct stream goes straight for a slot. *)
Arrive(r, k) ==
  /\ pc[r] = "idle"
  /\ rendition' = [rendition EXCEPT ![r] = k]
  /\ Goto(r, IF k = Direct THEN "recheck" ELSE "lookup")
  /\ UNCHANGED <<admissionVars, waitsOn, guardVars, processVars, fileVars, reaper>>

(* The head of the loop: serve what is there already. *)
Lookup(r) ==
  /\ pc[r] = "lookup"
  /\ Goto(r, IF Exists(rendition[r]) THEN "read" ELSE "join")
  /\ UNCHANGED <<admissionVars, rendition, waitsOn, guardVars, processVars,
                 fileVars, reaper>>

(* The file may have gone since path_is_file saw it: a 404. *)
Read(r) ==
  /\ pc[r] = "read"
  /\ Goto(r, IF Exists(rendition[r]) THEN "served" ELSE "failed")
  /\ UNCHANGED <<admissionVars, rendition, waitsOn, guardVars, processVars,
                 fileVars, reaper>>

(* A coordinator that starts a generation whoever holds it, for the mutants. *)
JoinAlwaysStarts(r) ==
  /\ pc[r] = "join"
  /\ Goto(r, "recheck")
  /\ generations' = [generations EXCEPT ![rendition[r]] = r]
  /\ UNCHANGED <<admissionVars, rendition, waitsOn, done, processVars,
                 fileVars, reaper>>

JoinOrStart(r) ==
  /\ pc[r] = "join"
  /\ LET holder == generations[rendition[r]] IN
       \/ /\ holder = NoRequest
          /\ generations' = [generations EXCEPT ![rendition[r]] = r]
          /\ Goto(r, "recheck")
          /\ UNCHANGED waitsOn
       \/ /\ holder # NoRequest
          /\ waitsOn' = [waitsOn EXCEPT ![r] = holder]
          /\ Goto(r, "waiting")
          /\ UNCHANGED generations
  /\ UNCHANGED <<admissionVars, rendition, done, processVars, fileVars, reaper>>

(* A woken waiter goes round the loop again. *)
Wake(r) ==
  /\ pc[r] = "waiting"
  /\ waitsOn[r] \in done
  /\ waitsOn' = [waitsOn EXCEPT ![r] = NoRequest]
  /\ Goto(r, "lookup")
  /\ UNCHANGED <<admissionVars, rendition, guardVars, processVars, fileVars, reaper>>

(* The holder looks once more, then asks for a slot: 503 at once when there *)
(* is none.  A direct stream has neither guard nor output.                  *)
Admit(r) ==
  /\ pc[r] = "recheck"
  /\ \/ /\ Published(r)
        /\ EndGuarded(r, "read")
        /\ UNCHANGED admissionVars
     \/ /\ ~Published(r)
        /\ TryAcquire(r)
        /\ Goto(r, "spawn")
        /\ UNCHANGED guardVars
     \/ /\ ~Published(r)
        /\ Exhausted
        /\ EndGuarded(r, "rejected")
        /\ UNCHANGED admissionVars
  /\ UNCHANGED <<rendition, waitsOn, processVars, fileVars, reaper>>

(* The temporary path is prepared and ffmpeg started; either may fail. *)
Spawn(r) ==
  /\ pc[r] = "spawn"
  /\ \/ /\ proc' = [proc EXCEPT ![r] = "running"]
        /\ Goto(r, IF rendition[r] = Direct THEN "stream" ELSE "generate")
        /\ UNCHANGED <<admissionVars, guardVars>>
     \/ /\ SlotDrop(r)
        /\ EndGuarded(r, "failed")
        /\ UNCHANGED proc
  /\ UNCHANGED <<rendition, waitsOn, usable, fileVars, reaper>>

-----------------------------------------------------------------------------
(* Direct streams. *)

(* A stream whose slot goes around its destructor, for the mutants. *)
StreamDropForgetsSlot(r) ==
  /\ pc[r] = "stream"
  /\ slots' = slots \ {r}
  /\ Kill(r)
  /\ Goto(r, "served")
  /\ UNCHANGED <<limit, in_use, rendition, waitsOn, guardVars, usable, fileVars, reaper>>

(* Drop of DirectAacTranscodeStream.  ffmpeg has exited: the slot goes.     *)
(* It runs and the client read to the end of its output: a task waits for   *)
(* it and keeps the slot.  It runs and the client left: it is killed and    *)
(* the slot goes at once.                                                   *)
StreamDrop(r) ==
  /\ pc[r] = "stream"
  /\ \/ /\ proc[r] \in {"ok", "err"}
        /\ SlotDrop(r)
        /\ UNCHANGED <<proc, reaper>>
     \/ /\ proc[r] = "running"
        /\ reaper' = [reaper EXCEPT ![r] = "stream"]
        /\ UNCHANGED <<admissionVars, proc>>
     \/ /\ proc[r] = "running"
        /\ SlotDrop(r)
        /\ Kill(r)
        /\ UNCHANGED reaper
  /\ Goto(r, "served")
  /\ UNCHANGED <<rendition, waitsOn, guardVars, usable, fileVars>>

-----------------------------------------------------------------------------
(* ffmpeg. *)

(* A manifest with a segment behind it appears in the temporary directory. *)
WriteManifest(r) ==
  /\ proc[r] = "running"
  /\ IsHls(r)
  /\ r \notin usable
  /\ usable' = usable \cup {r}
  /\ UNCHANGED <<admissionVars, handlerVars, guardVars, proc, fileVars, reaper>>

(* ffmpeg exits; one that was told to die may still have been successful. *)
Exit(r) ==
  /\ proc[r] \in {"running", "killed"}
  /\ \E status \in {"ok", "err"} : proc' = [proc EXCEPT ![r] = status]
  /\ UNCHANGED <<admissionVars, handlerVars, guardVars, usable, fileVars, reaper>>

-----------------------------------------------------------------------------
(* Prepared downloads: published only once ffmpeg has succeeded. *)

(* The slot is given back before the result is looked at. *)
DownloadExited(r) ==
  /\ pc[r] = "generate"
  /\ rendition[r] \in DownloadRenditions
  /\ proc[r] \in {"ok", "err"}
  /\ SlotDrop(r)
  /\ IF proc[r] = "ok"
       THEN Goto(r, "rename") /\ UNCHANGED guardVars
       ELSE EndGuarded(r, "failed")
  /\ UNCHANGED <<rendition, waitsOn, processVars, fileVars, reaper>>

(* Renaming a file replaces what is at the path. *)
DownloadPublish(r) ==
  /\ pc[r] = "rename"
  /\ rendition[r] \in DownloadRenditions
  /\ \/ /\ output' = [output EXCEPT ![rendition[r]] = [by |-> r, manifest |-> TRUE]]
        /\ EndGuarded(r, "read")
     \/ /\ EndGuarded(r, "failed")
        /\ UNCHANGED output
  /\ UNCHANGED <<admissionVars, rendition, waitsOn, processVars, orphan, reaper>>

-----------------------------------------------------------------------------
(* HLS renditions: published while ffmpeg still writes. *)

(* wait_for_initial_hls_manifest: the manifest is read before the process  *)
(* is looked at, so a failure may be seen before a manifest just written.  *)
ManifestReady(r) ==
  /\ pc[r] = "generate"
  /\ IsHls(r)
  /\ \/ /\ r \in usable
        /\ Goto(r, "probe")
        /\ UNCHANGED <<admissionVars, guardVars>>
     \/ /\ proc[r] = "err" \/ (proc[r] = "ok" /\ r \notin usable)
        /\ SlotDrop(r)
        /\ EndGuarded(r, "failed")
  /\ UNCHANGED <<rendition, waitsOn, processVars, fileVars, reaper>>

(* Somebody else's rendition is in place: this ffmpeg is killed, and a task *)
(* waits for it, keeps its slot and then removes the temporary directory.   *)
YieldToPublished(r) ==
  /\ Exists(rendition[r])
  /\ Kill(r)
  /\ reaper' = [reaper EXCEPT ![r] = "temp"]
  /\ EndGuarded(r, "served")
  /\ UNCHANGED <<admissionVars, output>>

(* Renaming a directory succeeds only onto nothing or an empty directory.  *)
(* The client is served the manifest read before, and a task keeps the     *)
(* slot until ffmpeg has ended.                                            *)
MoveIntoPlace(r) ==
  /\ ~Exists(rendition[r])
  /\ output' = [output EXCEPT ![rendition[r]] = [by |-> r, manifest |-> TRUE]]
  /\ reaper' = [reaper EXCEPT ![r] = "output"]
  /\ EndGuarded(r, "served")
  /\ UNCHANGED <<admissionVars, proc>>

(* An error after ffmpeg has started: it is killed as its handle drops. *)
Abandon(r) ==
  /\ Kill(r)
  /\ SlotDrop(r)
  /\ EndGuarded(r, "failed")
  /\ UNCHANGED <<output, reaper>>

(* A published rendition that nobody waits for, for the mutants. *)
HlsPublishUnreaped(r) ==
  /\ IsHls(r)
  /\ pc[r] = "probe"
  /\ ~Exists(rendition[r])
  /\ output' = [output EXCEPT ![rendition[r]] = [by |-> r, manifest |-> TRUE]]
  /\ EndGuarded(r, "served")
  /\ UNCHANGED <<admissionVars, rendition, waitsOn, processVars, orphan, reaper>>

HlsPublish(r) ==
  /\ IsHls(r)
  /\ \/ /\ pc[r] \in {"probe", "reprobe"}
        /\ YieldToPublished(r)
     \/ /\ pc[r] = "probe"
        /\ ~Exists(rendition[r])
        /\ Goto(r, "rename")
        /\ UNCHANGED <<admissionVars, guardVars, proc, output, reaper>>
     \/ /\ pc[r] \in {"rename", "rename_again"}
        /\ MoveIntoPlace(r)
     \/ /\ pc[r] = "rename"
        /\ Goto(r, "reprobe")
        /\ UNCHANGED <<admissionVars, guardVars, proc, output, reaper>>
     \/ /\ pc[r] = "reprobe"
        /\ ~Exists(rendition[r])
        /\ Goto(r, "clear")
        /\ UNCHANGED <<admissionVars, guardVars, proc, output, reaper>>
     \/ /\ pc[r] = "clear"
        /\ output' = [output EXCEPT ![rendition[r]] = Absent]
        /\ Goto(r, "rename_again")
        /\ UNCHANGED <<admissionVars, guardVars, proc, reaper>>
     \/ /\ pc[r] \in {"clear", "rename_again"}
        /\ Abandon(r)
  /\ UNCHANGED <<rendition, waitsOn, usable, orphan>>

-----------------------------------------------------------------------------
(* What runs beside the handlers. *)

(* A task that cleans up after a success too, for the mutants. *)
ReapAlwaysCleans(r) ==
  /\ reaper[r] \in {"stream", "temp", "output"}
  /\ proc[r] \in {"ok", "err"}
  /\ SlotDrop(r)
  /\ reaper' = [reaper EXCEPT ![r] = IF @ = "output" THEN "cleanup" ELSE "none"]
  /\ UNCHANGED <<handlerVars, guardVars, processVars, fileVars>>

(* The task that waits for ffmpeg: the slot goes first, then, when ffmpeg   *)
(* failed, the directory it was told to clean up.                           *)
Reap(r) ==
  /\ reaper[r] \in {"stream", "temp", "output"}
  /\ proc[r] \in {"ok", "err"}
  /\ SlotDrop(r)
  /\ reaper' = [reaper EXCEPT ![r] =
                   IF @ = "output" /\ proc[r] = "err" THEN "cleanup" ELSE "none"]
  /\ UNCHANGED <<handlerVars, guardVars, processVars, fileVars>>

(* remove_dir_all: the contents of whatever is at the path, then the        *)
(* directory unless it has been filled again.                               *)
CleanUp(r) ==
  /\ LET k == rendition[r] IN
       \/ /\ reaper[r] = "cleanup"
          /\ output' = [output EXCEPT ![k].manifest = FALSE]
          /\ reaper' = [reaper EXCEPT ![r] = "rmdir"]
       \/ /\ reaper[r] = "rmdir"
          /\ output' = [output EXCEPT ![k] = IF Exists(k) THEN @ ELSE Absent]
          /\ reaper' = [reaper EXCEPT ![r] = "none"]
  /\ UNCHANGED <<admissionVars, handlerVars, guardVars, processVars, orphan>>

(* The client disconnects and the handler is dropped at its await. *)
Cancel(r) ==
  /\ pc[r] \notin {"idle", "stream"} \cup Finished
  /\ EndGuarded(r, "cancelled")
  /\ IF r \in slots THEN SlotDrop(r) ELSE UNCHANGED admissionVars
  /\ Kill(r)
  /\ orphan' = [orphan EXCEPT ![r] =
                   CASE pc[r] \in {"rename", "rename_again"} -> "rename"
                     [] pc[r] = "clear" -> "clear"
                     [] OTHER -> "none"]
  /\ UNCHANGED <<rendition, waitsOn, usable, output, reaper>>

(* The blocking pool ends a call whose handler is gone ("cleared" remembers *)
(* a removal that was).                                                     *)
OrphanRuns(r) ==
  /\ orphan[r] \in {"rename", "clear"}
  /\ orphan' = [orphan EXCEPT ![r] = IF @ = "clear" THEN "cleared" ELSE "none"]
  /\ \/ /\ orphan[r] = "rename"
        /\ IsHls(r) => ~Exists(rendition[r])
        /\ output' = [output EXCEPT ![rendition[r]] = [by |-> r, manifest |-> TRUE]]
     \/ /\ orphan[r] = "clear"
        /\ output' = [output EXCEPT ![rendition[r]] = Absent]
     \/ UNCHANGED output
  /\ UNCHANGED <<admissionVars, handlerVars, guardVars, processVars, reaper>>

-----------------------------------------------------------------------------
HandlerStep(r) ==
  \/ Lookup(r) \/ Read(r) \/ JoinOrStart(r) \/ Wake(r) \/ Admit(r) \/ Spawn(r)
  \/ StreamDrop(r) \/ DownloadExited(r) \/ DownloadPublish(r)
  \/ ManifestReady(r) \/ HlsPublish(r)

BackgroundStep(r) == Exit(r) \/ Reap(r) \/ CleanUp(r) \/ OrphanRuns(r)

ChangeLimit(l) ==
  /\ l # limit
  /\ SetLimit(l)
  /\ UNCHANGED <<handlerVars, guardVars, processVars, fileVars, reaper>>

MediaNext ==
  \/ \E r \in Requests, k \in Renditions \cup {Direct} : Arrive(r, k)
  \/ \E r \in Requests : HandlerStep(r)
  \/ \E r \in Requests : WriteManifest(r)
  \/ \E r \in Requests : BackgroundStep(r)
  \/ \E r \in Requests : Cancel(r)
  \/ \E l \in Limits : ChangeLimit(l)

MediaSpec == MediaInit /\ [][MediaNext]_vars

(* The runtime polls every handler and task that can move, ffmpeg ends on  *)
(* its finite input, and the client of a stream reads it out or leaves.    *)
(* Nothing makes a client arrive or disconnect, nor ffmpeg write.          *)
MediaFairness ==
  \A r \in Requests : WF_vars(HandlerStep(r)) /\ WF_vars(BackgroundStep(r))

MediaFairSpec == MediaSpec /\ MediaFairness

-----------------------------------------------------------------------------
(* The ffmpeg processes that count against the limit: one that has not been *)
(* told to die holds a slot, whatever became of the request it was started  *)
(* for.                                                                     *)
RunningHoldsSlot == \A r \in Requests : proc[r] = "running" => r \in slots

(* One generation per rendition: whoever is between its second look and its *)
(* publication holds the guard of its rendition, and nobody else does, even *)
(* when handlers are dropped half-way.                                      *)
OneGeneration ==
  \A r \in Requests :
    (pc[r] \in Guarded /\ rendition[r] # Direct)
      <=> (\E k \in Renditions : generations[k] = r)

(* No wake-up is lost: what a waiter waits for is either still registered   *)
(* (and will be dropped) or done already.                                   *)
WaiterWillWake ==
  \A r \in Requests : pc[r] = "waiting" =>
    \/ waitsOn[r] \in done
    \/ generations[rendition[r]] = waitsOn[r]

(* What is published is complete, its ffmpeg has succeeded, whatever was    *)
(* cancelled on the way.  Only an HLS rendition may be published before, if *)
(* its ffmpeg is watched by a task that removes it on failure -- unless the *)
(* request that made it was dropped while its rename was in flight: then    *)
(* nobody watches it.                                                       *)
RenditionIsWatched ==
  \A k \in Renditions : Exists(k) =>
    LET r == output[k].by IN
      \/ proc[r] = "ok"
      \/ k \in HlsRenditions /\ (reaper[r] \in {"output", "cleanup"} \/ pc[r] = "cancelled")

(* A rendition published by a handler that ran to its end is never          *)
(* overwritten, and is removed only when its own ffmpeg failed -- or by a   *)
(* removal that outlived the handler that had asked for it.                 *)
RenditionIsKept ==
  [][\A k \in HlsRenditions :
       Exists(k) /\ output'[k] # output[k] =>
         \/ output'[k].by = output[k].by /\ proc[output[k].by] = "err"
         \/ pc[output[k].by] = "cancelled"
         \/ \E r \in Requests : orphan[r] \in {"clear", "cleared"} /\ rendition[r] = k]_vars

(* Every request that arrived is answered, or its client has gone. *)
EveryRequestEnds ==
  \A r \in Requests : (pc[r] # "idle") ~> (pc[r] \in Finished)
===============================================================================
