------------------------------ MODULE Subtitles ------------------------------
(***************************************************************************)
(* web-svc/subtitles: the text tracks of a video, converted to WebVTT once *)
(* and kept in a cache directory of their own.                             *)
(*                                                                         *)
(* A caller is one call of VTT: a request for a track, or the conversion   *)
(* that the track list starts in the background.  Callers of the same      *)
(* version of the video share one ffmpeg run.  Meanwhile the video may be  *)
(* replaced or removed, the cache be deleted, clients go away, the tools   *)
(* fail, and web-svc crash.                                                *)
(*                                                                         *)
(* A version stands for a path, a size and a modification time, and for    *)
(* the hash of them that names its cache directory.                        *)
(***************************************************************************)
EXTENDS Naturals, FiniteSets

CONSTANTS
  Callers,
  Versions,    \* of the video
  Streams,     \* Streams[v]: subtitle streams of v
  Tracks,      \* Tracks[v]: those of them that are text
  All,         \* VTT's ordinal -1
  Gone,        \* there is no video
  NoDir, NoCaller, Nothing,
  MaxTroubles  \* bound: replacements, clears, faults and crashes together

Ordinals == UNION {Streams[v] : v \in Versions}

\* A cache directory: the version that ffmpeg read, the tracks, and whether
\* the marker is there.
Dirs == [of : Versions \cup {Gone, Nothing}, tracks : SUBSET Ordinals, done : BOOLEAN]

ASSUME NamesAssumption ==
  /\ \A v \in Versions : Tracks[v] \subseteq Streams[v]
  /\ All \notin Ordinals /\ Gone \notin Versions /\ Nothing \notin Versions
  /\ NoCaller \notin Callers /\ NoDir \notin Dirs

ASSUME BoundAssumption == MaxTroubles \in Nat

VARIABLES
  file,      \* the version that is on disk
  available, \* ffmpeg and ffprobe were found by New
  dirs,      \* dirs[k]: the cache directory k
  inflight,  \* inflight[k]: the caller whose conversion k waits for
  pc,        \* pc[c]: where a call is
  ordinal,   \* ordinal[c]: the track it asks for
  key,       \* key[c]: cacheKey
  tmp,       \* tmp[c]: the temporary directory of its conversion
  waits,     \* waits[c]: whose conversion it waits for
  err,       \* err[c]: call.err of its conversion: "none" while it runs
  answer,    \* answer[c]: what the call returns, and the directory it is from
  during,    \* history: during[c]: versions on disk since its cacheKey
  swapped,   \* history: keys whose conversion read another version
  replacements, clears, faults, crashes  \* what has been done to the video,
             \* deletions of the cache, failures of ffprobe, ffmpeg or the disk,
             \* and crashes of web-svc, so far

cache   == <<dirs, inflight>>
call    == <<ordinal, key, tmp, waits, err, answer>>
history == <<during, swapped>>
budgets == <<replacements, clears, faults, crashes>>
vars == <<file, available, cache, pc, call, history, budgets>>

NoAnswer == [is |-> "none", dir |-> NoDir]

Init ==
  /\ file \in Versions /\ available \in BOOLEAN
  /\ dirs = [k \in Versions |-> NoDir]
  /\ inflight = [k \in Versions |-> NoCaller]
  /\ pc = [c \in Callers |-> "idle"]
  /\ ordinal = [c \in Callers |-> All] /\ key = [c \in Callers |-> Nothing]
  /\ tmp = [c \in Callers |-> NoDir] /\ waits = [c \in Callers |-> NoCaller]
  /\ err = [c \in Callers |-> "none"] /\ answer = [c \in Callers |-> NoAnswer]
  /\ during = [c \in Callers |-> {}] /\ swapped = {}
  /\ replacements = 0 /\ clears = 0 /\ faults = 0 /\ crashes = 0

MoreTrouble == replacements + clears + faults + crashes < MaxTroubles

Fault == MoreTrouble /\ faults' = faults + 1

Goto(c, p) == pc' = [pc EXCEPT ![c] = p]

\* The call returns.
Return(c, is, dir) ==
  /\ answer' = [answer EXCEPT ![c] = [is |-> is, dir |-> dir]]
  /\ Goto(c, "done")

Done(k) == dirs[k] # NoDir /\ dirs[k].done

-----------------------------------------------------------------------------
(* The handlers, and VTT up to the conversion *)

\* videoSubtitles: the list of tracks, and Warm in the background if there are
\* any; nothing without the tools, or when ffprobe fails.
VideoSubtitles(c) ==
  /\ pc[c] = "idle"
  /\ ordinal' = [ordinal EXCEPT ![c] = All]
  /\ LET listed == available /\ file # Gone /\ Tracks[file] # {}
     IN  \/ listed /\ Goto(c, "key") /\ UNCHANGED <<answer, faults>>
         \/ ~listed /\ Return(c, "empty", NoDir) /\ UNCHANGED faults
         \/ listed /\ Fault /\ Return(c, "empty", NoDir)
  /\ UNCHANGED <<file, available, cache, key, tmp, waits, err, history,
                 replacements, clears, crashes>>

VideoSubtitleFile(c, n) ==
  /\ pc[c] = "idle"
  /\ ordinal' = [ordinal EXCEPT ![c] = n]
  /\ IF available THEN Goto(c, "key") /\ UNCHANGED answer
                  ELSE Return(c, "absent", NoDir)
  /\ UNCHANGED <<file, available, cache, key, tmp, waits, err, history, budgets>>

\* A mutant: the key is of the path alone.
KeyOfPath(v) == CHOOSE k \in Versions : TRUE

KeyOf(v) == v

CacheKey(c) ==
  /\ pc[c] = "key"
  /\ IF file = Gone
     THEN Return(c, "error", NoDir) /\ UNCHANGED <<key, during>>
     ELSE /\ key' = [key EXCEPT ![c] = KeyOf(file)]
          /\ during' = [during EXCEPT ![c] = {file}]
          /\ Goto(c, "look") /\ UNCHANGED answer
  /\ UNCHANGED <<file, available, cache, ordinal, tmp, waits, err, swapped,
                 budgets>>

\* The done marker is looked for outside the lock.
Look(c) ==
  /\ pc[c] = "look"
  /\ Goto(c, IF Done(key[c]) THEN "serve" ELSE "convert")
  /\ UNCHANGED <<file, available, cache, call, history, budgets>>

\* The track is there, or the file has no such track.
Serve(c) ==
  /\ pc[c] = "serve"
  /\ LET dir == dirs[key[c]]
     IN  Return(c, IF ordinal[c] = All THEN "converted"
                   ELSE IF dir # NoDir /\ ordinal[c] \in dir.tracks THEN "file"
                   ELSE "absent", dir)
  /\ UNCHANGED <<file, available, cache, ordinal, key, tmp, waits, err, history,
                 budgets>>

-----------------------------------------------------------------------------
(* convert: one conversion of a key at a time *)

Join(c) ==
  /\ pc[c] = "convert" /\ inflight[key[c]] # NoCaller
  /\ waits' = [waits EXCEPT ![c] = inflight[key[c]]]
  /\ Goto(c, "wait")
  /\ UNCHANGED <<file, available, cache, ordinal, key, tmp, err, answer, history,
                 budgets>>

\* A mutant: nobody looks whether a conversion is under way.
LeadAlways(c) ==
  /\ pc[c] = "convert"
  /\ inflight' = [inflight EXCEPT ![key[c]] = c]
  /\ Goto(c, "probe")
  /\ UNCHANGED <<file, available, dirs, call, history, budgets>>

Lead(c) ==
  /\ pc[c] = "convert" /\ inflight[key[c]] = NoCaller
  /\ inflight' = [inflight EXCEPT ![key[c]] = c]
  /\ Goto(c, "probe")
  /\ UNCHANGED <<file, available, dirs, call, history, budgets>>

\* call.done is closed.
Wake(c) ==
  /\ pc[c] = "wait" /\ pc[waits[c]] \notin {"probe", "ffmpeg", "publish", "end", "close"}
  /\ IF err[waits[c]] = "ok" THEN Goto(c, "serve") /\ UNCHANGED answer
                             ELSE Return(c, "error", NoDir)
  /\ UNCHANGED <<file, available, cache, ordinal, key, tmp, waits, err, history,
                 budgets>>

\* The client goes away; Warm has none, and a conversion goes on without it.
Cancel(c) ==
  /\ pc[c] = "wait" /\ ordinal[c] # All
  /\ Return(c, "cancelled", NoDir)
  /\ UNCHANGED <<file, available, cache, ordinal, key, tmp, waits, err, history,
                 budgets>>

\* A mutant: a failed conversion stays in flight.
EndOnlyOk(c) ==
  /\ pc[c] = "end"
  /\ inflight' = IF err[c] = "ok" THEN [inflight EXCEPT ![key[c]] = NoCaller]
                                  ELSE inflight
  /\ Goto(c, IF err[c] = "ok" THEN "close" ELSE "end")
  /\ UNCHANGED <<file, available, dirs, call, history, budgets>>

\* The conversion is over, and the next caller starts another one ...
End(c) ==
  /\ pc[c] = "end"
  /\ inflight' = [inflight EXCEPT ![key[c]] = NoCaller]
  /\ Goto(c, "close")
  /\ UNCHANGED <<file, available, dirs, call, history, budgets>>

\* ... and those who wait for this one are told.
Close(c) ==
  /\ pc[c] = "close"
  /\ IF err[c] = "ok" THEN Goto(c, "serve") /\ UNCHANGED answer
                      ELSE Return(c, "error", NoDir)
  /\ UNCHANGED <<file, available, cache, ordinal, key, tmp, waits, err, history,
                 budgets>>

-----------------------------------------------------------------------------
(* runFFmpeg *)

\* runFFmpeg returns; the temporary directory is removed if it is still there.
Converted(c, result) ==
  /\ err' = [err EXCEPT ![c] = result]
  /\ tmp' = [tmp EXCEPT ![c] = NoDir]
  /\ Goto(c, "end")

MarkSwapped(c) == swapped' = IF file = key[c] THEN swapped ELSE swapped \cup {key[c]}

\* The text tracks, and a temporary directory.
Probe(c) ==
  /\ pc[c] = "probe"
  /\ file # Gone
  /\ tmp' = [tmp EXCEPT ![c] = [of |-> Nothing, tracks |-> Tracks[file], done |-> FALSE]]
  /\ MarkSwapped(c)
  /\ Goto(c, "ffmpeg")
  /\ UNCHANGED <<file, available, cache, ordinal, key, waits, err, answer, during,
                 budgets>>

ProbeFails(c) ==
  /\ pc[c] = "probe"
  /\ \/ file = Gone /\ UNCHANGED faults
     \/ Fault
  /\ Converted(c, "error")
  /\ UNCHANGED <<file, available, cache, ordinal, key, waits, answer, history,
                 replacements, clears, crashes>>

\* ffmpeg can map the streams it is told to, and write the temporary directory;
\* without tracks it is not run.
CanConvert(c) ==
  /\ tmp[c] # NoDir
  /\ tmp[c].tracks = {} \/ (file # Gone /\ tmp[c].tracks \subseteq Streams[file])

FFmpeg(c) ==
  /\ pc[c] = "ffmpeg"
  /\ CanConvert(c)
  /\ tmp' = [tmp EXCEPT ![c] = [of |-> file, tracks |-> @.tracks, done |-> TRUE]]
  /\ MarkSwapped(c)
  /\ Goto(c, "publish")
  /\ UNCHANGED <<file, available, cache, ordinal, key, waits, err, answer, during,
                 budgets>>

FFmpegFails(c) ==
  /\ pc[c] = "ffmpeg"
  /\ \/ ~CanConvert(c) /\ UNCHANGED faults
     \/ Fault
  /\ Converted(c, "error")
  /\ UNCHANGED <<file, available, cache, ordinal, key, waits, answer, history,
                 replacements, clears, crashes>>

\* A mutant: a directory that is there already is an error.
PublishFirst(c) ==
  /\ pc[c] = "publish"
  /\ LET free == tmp[c] # NoDir /\ dirs[key[c]] = NoDir
     IN  /\ dirs' = IF free THEN [dirs EXCEPT ![key[c]] = tmp[c]] ELSE dirs
         /\ Converted(c, IF free THEN "ok" ELSE "error")
  /\ UNCHANGED <<file, available, inflight, ordinal, key, waits, answer, history,
                 budgets>>

\* The rename.  It fails when the directory is there; if that one is done, all
\* is well: another conversion of this key was faster.
Publish(c) ==
  /\ pc[c] = "publish"
  /\ LET free == tmp[c] # NoDir /\ dirs[key[c]] = NoDir
     IN  /\ dirs' = IF free THEN [dirs EXCEPT ![key[c]] = tmp[c]] ELSE dirs
         /\ Converted(c, IF free \/ Done(key[c]) THEN "ok" ELSE "error")
  /\ UNCHANGED <<file, available, inflight, ordinal, key, waits, answer, history,
                 budgets>>

-----------------------------------------------------------------------------
(* What else happens *)

\* The video is replaced, removed, or an old version put back.
Replace(v) ==
  /\ v # file
  /\ MoreTrouble /\ replacements' = replacements + 1
  /\ file' = v
  /\ during' = [c \in Callers |-> IF pc[c] \in {"idle", "key", "done"} \/ v = Gone
                                  THEN during[c] ELSE during[c] \cup {v}]
  /\ UNCHANGED <<available, cache, pc, call, swapped, clears, faults, crashes>>

\* The cache is deleted, but for a directory in which a file is in use: that
\* one loses its done marker or stays whole.
ClearCache ==
  /\ MoreTrouble /\ clears' = clears + 1
  /\ \E inUse \in {{}} \cup {{k} : k \in {k \in Versions : Done(k)}} : \E marker \in BOOLEAN :
       dirs' = [k \in Versions |->
                  IF k \in inUse
                  THEN [of |-> dirs[k].of, tracks |-> dirs[k].tracks, done |-> marker]
                  ELSE NoDir]
  /\ tmp' = [c \in Callers |-> NoDir]
  /\ UNCHANGED <<file, available, inflight, pc, ordinal, key, waits, err, answer,
                 history, replacements, faults, crashes>>

\* web-svc stops and starts again, with or without the tools.
Crash ==
  /\ \E c \in Callers : pc[c] \notin {"idle", "done"}
  /\ MoreTrouble /\ crashes' = crashes + 1
  /\ available' \in BOOLEAN
  /\ inflight' = [k \in Versions |-> NoCaller]
  /\ pc' = [c \in Callers |-> IF pc[c] = "idle" THEN "idle" ELSE "done"]
  /\ tmp' = [c \in Callers |-> NoDir] /\ waits' = [c \in Callers |-> NoCaller]
  /\ UNCHANGED <<file, dirs, ordinal, key, err, answer, history, replacements,
                 clears, faults>>

-----------------------------------------------------------------------------
Convert(c) ==
  \/ Probe(c) \/ ProbeFails(c) \/ FFmpeg(c) \/ FFmpegFails(c) \/ Publish(c)
  \/ End(c) \/ Close(c)

VTT(c) ==
  \/ CacheKey(c) \/ Look(c) \/ Serve(c)
  \/ Join(c) \/ Lead(c) \/ Wake(c) \/ Convert(c)

Next ==
  \/ \E c \in Callers :
       \/ VideoSubtitles(c) \/ VTT(c) \/ Cancel(c)
       \/ \E n \in Ordinals : VideoSubtitleFile(c, n)
  \/ \E v \in Versions \cup {Gone} : Replace(v)
  \/ ClearCache \/ Crash

Spec == Init /\ [][Next]_vars

\* A call goes on by itself, and the tools end within their timeouts.
FairSpec == Spec /\ \A c \in Callers : WF_vars(VTT(c))

-----------------------------------------------------------------------------
(* Properties *)

Places == {"idle", "key", "look", "serve", "convert", "wait", "probe", "ffmpeg",
           "publish", "end", "close", "done"}

Outcomes == {"none", "empty", "absent", "converted", "file", "error",
             "cancelled"}

TypeOK ==
  /\ file \in Versions \cup {Gone} /\ available \in BOOLEAN
  /\ dirs \in [Versions -> Dirs \cup {NoDir}]
  /\ inflight \in [Versions -> Callers \cup {NoCaller}]
  /\ pc \in [Callers -> Places]
  /\ ordinal \in [Callers -> Ordinals \cup {All}]
  /\ key \in [Callers -> Versions \cup {Nothing}]
  /\ tmp \in [Callers -> Dirs \cup {NoDir}]
  /\ waits \in [Callers -> Callers \cup {NoCaller}]
  /\ err \in [Callers -> {"none", "ok", "error"}]
  /\ answer \in [Callers -> [is : Outcomes, dir : Dirs \cup {NoDir}]]
  /\ during \in [Callers -> SUBSET Versions] /\ swapped \subseteq Versions
  /\ replacements \in Nat /\ clears \in Nat /\ faults \in Nat /\ crashes \in Nat

\* "Concurrent callers for the same file share one ffmpeg run"
\* (subtitles.go:149-151): no two conversions of one key at a time, whoever
\* looked for the done marker when.
OneConversion ==
  \A c, d \in Callers :
    /\ pc[c] \in {"probe", "ffmpeg", "publish", "end"}
    /\ pc[d] \in {"probe", "ffmpeg", "publish", "end"}
    /\ key[c] = key[d]
    => c = d

\* "Replacing a video never serves stale subtitles" (subtitles.go:128-129): the
\* track that is served is of a version that was on disk during the call, and
\* one that is refused is none of the version asked for -- unless the video was
\* replaced between the key and the conversion, which then is kept under a key
\* that is not its own, or the cache was deleted under the call.
NeverStale ==
  \A c \in Callers :
    key[c] \notin swapped =>
      /\ answer[c].is = "file" => answer[c].dir.of \in during[c]
      /\ answer[c].is = "absent" /\ key[c] # Nothing /\ clears = 0 =>
           ordinal[c] \notin Tracks[key[c]]

\* A second conversion of what was converted in the meantime is no failure
\* (subtitles.go:234-239): a caller is told of an error only when a tool or the
\* disk failed, the video was changed, or the cache deleted.
ErrorHasCause ==
  faults = 0 /\ replacements = 0 /\ clears = 0 =>
    \A c \in Callers : answer[c].is # "error"

\* Every call returns, whichever conversion it waits for and however that one
\* ends, also after the client of the conversion has gone (subtitles.go:191-192).
EveryCallReturns == \A c \in Callers : pc[c] = "key" ~> pc[c] = "done"
=============================================================================
