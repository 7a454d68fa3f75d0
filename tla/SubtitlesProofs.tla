-------------------------- MODULE SubtitlesProofs --------------------------
(***************************************************************************)
(* For any callers, versions of the video and bounds: one conversion of a  *)
(* key at a time, no stale track, and no error without a cause.            *)
(***************************************************************************)
EXTENDS Subtitles, TLAPS

\* A call has its key from CacheKey on, and answers at the end.
Keyed ==
  \A c \in Callers :
    /\ pc[c] \in {"idle", "key"} => key[c] = Nothing
    /\ pc[c] \notin {"idle", "key", "done"} => key[c] \in Versions
    /\ key[c] \in Versions => key[c] \in during[c]
    /\ pc[c] # "done" => answer[c] = NoAnswer

Busy(c) == pc[c] \in {"probe", "ffmpeg", "publish", "end"}

\* The callers in a conversion are those that are in flight.
InFlight ==
  /\ \A c \in Callers : Busy(c) => inflight[key[c]] = c
  /\ \A k \in Versions :
       inflight[k] # NoCaller => Busy(inflight[k]) /\ key[inflight[k]] = k

\* A waiter waits for a conversion of its own key, which is under way or has
\* an outcome.
Waiting ==
  /\ \A c \in Callers : pc[c] \in {"end", "close"} => err[c] # "none"
  /\ \A c \in Callers :
       pc[c] = "wait" =>
         /\ waits[c] \in Callers /\ key[waits[c]] = key[c]
         /\ Busy(waits[c]) \/ pc[waits[c]] = "close" \/ err[waits[c]] # "none"

\* What is in the cache, and in a directory on its way there, is of the
\* version that the key names, unless the video was swapped.
Faithful ==
  /\ \A k \in Versions :
       dirs[k] # NoDir =>
         /\ k \notin swapped => dirs[k].of = k /\ dirs[k].tracks = Tracks[k]
         /\ clears = 0 => dirs[k].done
  /\ \A c \in Callers :
       pc[c] \in {"ffmpeg", "publish"} =>
         /\ tmp[c] # NoDir /\ key[c] \notin swapped => tmp[c].tracks = Tracks[key[c]]
         /\ clears = 0 => tmp[c] # NoDir
  /\ \A c \in Callers :
       pc[c] = "publish" /\ tmp[c] # NoDir =>
         tmp[c].done /\ (key[c] \notin swapped => tmp[c].of = key[c])

\* Without a deletion, what was converted is there.
Present ==
  /\ \A c \in Callers : err[c] = "ok" => key[c] \in Versions
  /\ clears = 0 =>
       \A c \in Callers :
         err[c] = "ok" \/ pc[c] = "serve" => dirs[key[c]] # NoDir

\* While nothing happens to the tools, the video and the cache.
Undisturbed == faults = 0 /\ replacements = 0 /\ clears = 0

NoError ==
  Undisturbed =>
    /\ file \in Versions
    /\ \A c \in Callers :
         /\ err[c] # "error" /\ answer[c].is # "error"
         /\ key[c] \in Versions => key[c] = file
         /\ tmp[c] # NoDir => tmp[c].tracks \subseteq Streams[file]

IInv ==
  /\ TypeOK /\ Keyed /\ InFlight /\ Waiting /\ Faithful /\ Present /\ NeverStale
  /\ NoError

-----------------------------------------------------------------------------

\* The video is there, nothing is cached, and nobody calls.
LEMMA InitIInv == Init => IInv
<1> SUFFICES ASSUME Init PROVE IInv
  OBVIOUS
<1>1. TypeOK
  BY DEF Init, TypeOK, Places, Outcomes, NoAnswer
<1>2. Keyed /\ InFlight /\ Waiting /\ Faithful /\ Present
  BY NamesAssumption DEF Init, Keyed, InFlight, Busy, Waiting, Faithful, Present
<1>3. NeverStale /\ NoError
  BY NamesAssumption DEF Init, NeverStale, NoError, NoAnswer
<1>4. QED
  BY <1>1, <1>2, <1>3 DEF IInv

\* What a return does to the types.
LEMMA ReturnTypes ==
  ASSUME TypeOK, NEW c \in Callers, NEW is \in Outcomes,
         NEW dir \in Dirs \cup {NoDir}, Return(c, is, dir)
  PROVE  /\ pc' \in [Callers -> Places]
         /\ answer' \in [Callers -> [is : Outcomes, dir : Dirs \cup {NoDir}]]
<1>1. [is |-> is, dir |-> dir] \in [is : Outcomes, dir : Dirs \cup {NoDir}]
  OBVIOUS
<1>2. "done" \in Places
  BY DEF Places
<1>3. QED
  BY <1>1, <1>2 DEF TypeOK, Return, Goto

\* A call goes from one place to another.
LEMMA GotoTypes ==
  ASSUME TypeOK, NEW c \in Callers, NEW p \in Places, Goto(c, p)
  PROVE  pc' \in [Callers -> Places]
  BY DEF TypeOK, Goto

LEMMA Ends ==
  /\ {"empty", "absent", "converted", "file", "error", "cancelled"}
       \subseteq Outcomes
  /\ {"idle", "key", "look", "serve", "convert", "wait", "probe", "ffmpeg",
      "publish", "end", "close", "done"} = Places
  BY DEF Outcomes, Places

LEMMA FaultType ==
  ASSUME TypeOK, UNCHANGED faults \/ Fault PROVE faults' \in Nat
<1>1. faults \in Nat
  BY DEF TypeOK
<1>2. CASE Fault
  BY <1>1, <1>2 DEF Fault
<1>3. QED
  BY <1>1, <1>2

\* Every step keeps the types of the variables.
LEMMA NextTypeOK == TypeOK /\ Keyed /\ [Next]_vars => TypeOK'
<1> SUFFICES ASSUME TypeOK, Keyed, [Next]_vars PROVE TypeOK'
  OBVIOUS
<1> USE NamesAssumption
<1>1. ASSUME NEW c \in Callers, VideoSubtitles(c) PROVE TypeOK'
  <2>1. CASE Goto(c, "key") /\ UNCHANGED <<answer, faults>>
    BY <1>1, <2>1, GotoTypes, Ends DEF TypeOK, VideoSubtitles, cache, history
  <2>2. CASE Return(c, "empty", NoDir) /\ (UNCHANGED faults \/ Fault)
    <3>1. /\ pc' \in [Callers -> Places]
          /\ answer' \in [Callers -> [is : Outcomes, dir : Dirs \cup {NoDir}]]
      BY <2>2, ReturnTypes, Ends
    <3>2. QED
      BY <1>1, <2>2, <3>1, FaultType DEF TypeOK, VideoSubtitles, cache, history
  <2>3. QED
    BY <1>1, <2>1, <2>2 DEF VideoSubtitles
<1>2. ASSUME NEW c \in Callers, NEW n \in Ordinals, VideoSubtitleFile(c, n)
      PROVE  TypeOK'
  BY <1>2, ReturnTypes, GotoTypes, Ends
  DEF TypeOK, VideoSubtitleFile, cache, history, budgets
<1>3. ASSUME NEW c \in Callers, CacheKey(c) PROVE TypeOK'
  <2>1. CASE file = Gone
    <3>1. /\ pc' \in [Callers -> Places]
          /\ answer' \in [Callers -> [is : Outcomes, dir : Dirs \cup {NoDir}]]
      BY <1>3, <2>1, ReturnTypes, Ends DEF CacheKey
    <3>2. QED
      BY <1>3, <2>1, <3>1 DEF TypeOK, CacheKey, cache, budgets
  <2>2. CASE file # Gone
    <3>1. file \in Versions /\ {file} \in SUBSET Versions
      BY <2>2 DEF TypeOK
    <3>2. pc' \in [Callers -> Places]
      BY <1>3, <2>2, GotoTypes, Ends DEF CacheKey
    <3>3. during' \in [Callers -> SUBSET Versions]
      BY <1>3, <2>2, <3>1 DEF TypeOK, CacheKey
    <3>4. QED
      BY <1>3, <2>2, <3>1, <3>2, <3>3 DEF TypeOK, CacheKey, KeyOf, cache, budgets
  <2>3. QED
    BY <2>1, <2>2
<1>4. ASSUME NEW c \in Callers, Look(c) PROVE TypeOK'
  BY <1>4, GotoTypes, Ends DEF TypeOK, Look, cache, call, history, budgets
<1>5. ASSUME NEW c \in Callers, Serve(c) PROVE TypeOK'
  <2>1. key[c] \in Versions
    BY <1>5, Ends DEF Serve, Keyed
  <2>2. dirs[key[c]] \in Dirs \cup {NoDir}
    BY <2>1 DEF TypeOK
  <2>3. QED
    BY <1>5, <2>2, ReturnTypes, Ends DEF TypeOK, Serve, cache, history, budgets
<1>6. ASSUME NEW c \in Callers, Join(c) PROVE TypeOK'
  <2>1. key[c] \in Versions
    BY <1>6 DEF Join, Keyed
  <2>2. QED
    BY <1>6, <2>1, GotoTypes, Ends DEF TypeOK, Join, cache, history, budgets
<1>7. ASSUME NEW c \in Callers, Lead(c) PROVE TypeOK'
  BY <1>7, GotoTypes, Ends DEF TypeOK, Lead, call, history, budgets
<1>8. ASSUME NEW c \in Callers, Wake(c) \/ Cancel(c) \/ Close(c) PROVE TypeOK'
  <2>1. /\ pc' \in [Callers -> Places]
        /\ answer' \in [Callers -> [is : Outcomes, dir : Dirs \cup {NoDir}]]
    BY <1>8, ReturnTypes, GotoTypes, Ends DEF TypeOK, Wake, Cancel, Close
  <2>2. QED
    BY <1>8, <2>1 DEF TypeOK, Wake, Cancel, Close, cache, history, budgets
<1>9. ASSUME NEW c \in Callers, Probe(c) PROVE TypeOK'
  <2>1. key[c] \in Versions /\ file \in Versions
    BY <1>9 DEF Probe, Keyed, TypeOK
  <2>2. Tracks[file] \subseteq Ordinals
    BY <2>1 DEF Ordinals
  <2>3. [of |-> Nothing, tracks |-> Tracks[file], done |-> FALSE] \in Dirs
    BY <2>2 DEF Dirs
  <2>4. QED
    BY <1>9, <2>1, <2>3, GotoTypes, Ends
    DEF TypeOK, Probe, MarkSwapped, cache, budgets
<1>10. ASSUME NEW c \in Callers, ProbeFails(c) \/ FFmpegFails(c) PROVE TypeOK'
  <2>1. Converted(c, "error") /\ (UNCHANGED faults \/ Fault)
    BY <1>10 DEF ProbeFails, FFmpegFails
  <2>2. /\ pc' \in [Callers -> Places] /\ faults' \in Nat
        /\ err' \in [Callers -> {"none", "ok", "error"}]
        /\ tmp' \in [Callers -> Dirs \cup {NoDir}]
    BY <2>1, GotoTypes, FaultType, Ends DEF TypeOK, Converted
  <2>3. QED
    BY <1>10, <2>2 DEF TypeOK, ProbeFails, FFmpegFails, cache, history
<1>11. ASSUME NEW c \in Callers, FFmpeg(c) PROVE TypeOK'
  <2>1. key[c] \in Versions /\ tmp[c] \in Dirs
    BY <1>11 DEF FFmpeg, CanConvert, Keyed, TypeOK
  <2>2. [of |-> file, tracks |-> tmp[c].tracks, done |-> TRUE] \in Dirs
    BY <2>1 DEF Dirs, TypeOK
  <2>3. QED
    BY <1>11, <2>1, <2>2, GotoTypes, Ends
    DEF TypeOK, FFmpeg, MarkSwapped, cache, budgets
<1>12. ASSUME NEW c \in Callers, Publish(c) PROVE TypeOK'
  BY <1>12, GotoTypes, Ends DEF TypeOK, Publish, Converted, Keyed, history, budgets
<1>13. ASSUME NEW c \in Callers, End(c) PROVE TypeOK'
  BY <1>13, GotoTypes, Ends DEF TypeOK, End, call, history, budgets
<1>14. ASSUME NEW v \in Versions \cup {Gone}, Replace(v) PROVE TypeOK'
  <2>1. during' \in [Callers -> SUBSET Versions]
    BY <1>14 DEF TypeOK, Replace
  <2>2. QED
    BY <1>14, <2>1 DEF TypeOK, Replace, cache, call
<1>15. CASE ClearCache
  <2>1. dirs' \in [Versions -> Dirs \cup {NoDir}]
    BY <1>15 DEF TypeOK, ClearCache, Done, Dirs
  <2>2. QED
    BY <1>15, <2>1 DEF TypeOK, ClearCache, history
<1>16. CASE Crash
  <2>1. pc' \in [Callers -> Places]
    BY <1>16, Ends DEF Crash
  <2>2. QED
    BY <1>16, <2>1 DEF TypeOK, Crash, history
<1>17. CASE UNCHANGED vars
  BY <1>17 DEF TypeOK, vars, cache, call, history, budgets
<1>18. QED
  BY <1>1, <1>2, <1>3, <1>4, <1>5, <1>6, <1>7, <1>8, <1>9, <1>10, <1>11, <1>12,
     <1>13, <1>14, <1>15, <1>16, <1>17 DEF Next, VTT, Convert

\* A call gets its key once, from the version that is then on disk.
LEMMA NextKeyed == TypeOK /\ Keyed /\ [Next]_vars => Keyed'
<1> SUFFICES ASSUME TypeOK, Keyed, [Next]_vars PROVE Keyed'
  OBVIOUS
<1> USE NamesAssumption DEF TypeOK, Keyed
<1>1. ASSUME NEW c \in Callers, VideoSubtitles(c) PROVE Keyed'
  BY <1>1 DEF VideoSubtitles, Return, Goto, history
<1>2. ASSUME NEW c \in Callers, NEW n \in Ordinals, VideoSubtitleFile(c, n)
      PROVE  Keyed'
  BY <1>2 DEF VideoSubtitleFile, Return, Goto, history
<1>3. ASSUME NEW c \in Callers, CacheKey(c) PROVE Keyed'
  BY <1>3 DEF CacheKey, KeyOf, Return, Goto
<1>4. ASSUME NEW c \in Callers, Look(c) \/ Lead(c) \/ End(c) PROVE Keyed'
  BY <1>4 DEF Look, Lead, End, Goto, call, history
<1>5. ASSUME NEW c \in Callers, Serve(c) PROVE Keyed'
  BY <1>5 DEF Serve, Return, Goto, history
<1>6. ASSUME NEW c \in Callers, Join(c) \/ Probe(c) \/ FFmpeg(c) PROVE Keyed'
  BY <1>6 DEF Join, Probe, FFmpeg, Goto, history
<1>7. ASSUME NEW c \in Callers, Wake(c) \/ Cancel(c) \/ Close(c) PROVE Keyed'
  BY <1>7 DEF Wake, Cancel, Close, Return, Goto, history
<1>8. ASSUME NEW c \in Callers, ProbeFails(c) \/ FFmpegFails(c) \/ Publish(c)
      PROVE  Keyed'
  BY <1>8 DEF ProbeFails, FFmpegFails, Publish, Converted, Goto, history
<1>9. ASSUME NEW v \in Versions \cup {Gone}, Replace(v) PROVE Keyed'
  BY <1>9 DEF Replace, call
<1>10. CASE ClearCache
  BY <1>10 DEF ClearCache, history
<1>11. CASE Crash
  BY <1>11 DEF Crash, history
<1>12. CASE UNCHANGED vars
  BY <1>12 DEF vars, call, history
<1>13. QED
  BY <1>1, <1>2, <1>3, <1>4, <1>5, <1>6, <1>7, <1>8, <1>9, <1>10, <1>11, <1>12
  DEF Next, VTT, Convert

\* A step that leaves alone what is in flight, and who is in a conversion of
\* what.
LEMMA SameFlights ==
  ASSUME InFlight, inflight' = inflight,
         \A d \in Callers : Busy(d)' <=> Busy(d),
         \A d \in Callers : Busy(d) => key'[d] = key[d],
         TypeOK
  PROVE  InFlight'
<1>1. ASSUME NEW d \in Callers, Busy(d)' PROVE inflight'[key'[d]] = d
  BY <1>1 DEF InFlight, Busy
<1>2. ASSUME NEW k \in Versions, inflight'[k] # NoCaller
      PROVE  (Busy(inflight[k]) /\ key[inflight[k]] = k)'
  <2>1. inflight[k] \in Callers
    BY <1>2 DEF TypeOK
  <2>2. QED
    BY <1>2, <2>1 DEF InFlight, Busy
<1>3. QED
  BY <1>1, <1>2 DEF InFlight, Busy

\* Lead takes a key that is free, End frees it again, and nothing else moves a
\* caller into or out of a conversion.
LEMMA NextInFlight == TypeOK /\ Keyed /\ InFlight /\ [Next]_vars => InFlight'
<1> SUFFICES ASSUME TypeOK, Keyed, InFlight, [Next]_vars PROVE InFlight'
  OBVIOUS
<1>1. ASSUME NEW c \in Callers, NEW p \in Places, Goto(c, p),
             ~Busy(c), p \notin {"probe", "ffmpeg", "publish", "end"}
      PROVE  \A d \in Callers : Busy(d)' <=> Busy(d)
  BY <1>1 DEF TypeOK, Goto, Busy
<1>2. ASSUME NEW c \in Callers,
             \/ VideoSubtitles(c) \/ \E n \in Ordinals : VideoSubtitleFile(c, n)
             \/ Look(c) \/ Serve(c) \/ Join(c) \/ Wake(c) \/ Cancel(c) \/ Close(c)
      PROVE  InFlight'
  <2>1. /\ ~Busy(c) /\ inflight' = inflight /\ key' = key
        /\ \E p \in Places : Goto(c, p) /\ p \notin {"probe", "ffmpeg", "publish", "end"}
    BY <1>2, Ends DEF VideoSubtitles, VideoSubtitleFile, Look, Serve, Join, Wake,
                      Cancel, Close, Return, Busy, cache, call
  <2>2. QED
    BY <1>1, <2>1, SameFlights
<1>3. ASSUME NEW c \in Callers, CacheKey(c) PROVE InFlight'
  <2>1. /\ ~Busy(c) /\ inflight' = inflight
        /\ \A d \in Callers : Busy(d) => key'[d] = key[d]
    BY <1>3 DEF TypeOK, CacheKey, Busy, cache
  <2>2. \E p \in Places : Goto(c, p) /\ p \notin {"probe", "ffmpeg", "publish", "end"}
    BY <1>3, Ends DEF CacheKey, Return
  <2>3. QED
    BY <1>1, <2>1, <2>2, SameFlights
<1>4. ASSUME NEW c \in Callers,
             Probe(c) \/ ProbeFails(c) \/ FFmpeg(c) \/ FFmpegFails(c) \/ Publish(c)
      PROVE  InFlight'
  <2>1. /\ Busy(c) /\ inflight' = inflight /\ key' = key
        /\ \E p \in {"ffmpeg", "publish", "end"} : Goto(c, p)
    BY <1>4 DEF Probe, ProbeFails, FFmpeg, FFmpegFails, Publish, Converted, Busy,
                cache
  <2>2. \A d \in Callers : Busy(d)' <=> Busy(d)
    BY <2>1 DEF TypeOK, Goto, Busy
  <2>3. QED
    BY <2>1, <2>2, SameFlights
<1>5. ASSUME NEW c \in Callers, Lead(c) PROVE InFlight'
  <2>1. key[c] \in Versions
    BY <1>5 DEF Keyed, Lead
  <2>2. QED
    BY <1>5, <2>1, NamesAssumption DEF TypeOK, Keyed, InFlight, Busy, Lead, Goto, call
<1>6. ASSUME NEW c \in Callers, End(c) PROVE InFlight'
  <2>1. key[c] \in Versions
    BY <1>6 DEF Keyed, End
  <2>2. QED
    BY <1>6, <2>1, NamesAssumption DEF TypeOK, Keyed, InFlight, Busy, End, Goto, call
<1>7. ASSUME NEW v \in Versions \cup {Gone}, Replace(v) PROVE InFlight'
  BY <1>7, SameFlights DEF Replace, Busy, cache, call
<1>8. CASE ClearCache
  BY <1>8, SameFlights DEF ClearCache, Busy
<1>9. CASE Crash
  BY <1>9 DEF Crash, InFlight, Busy
<1>10. CASE UNCHANGED vars
  BY <1>10, SameFlights DEF vars, Busy, cache, call
<1>11. QED
  BY <1>2, <1>3, <1>4, <1>5, <1>6, <1>7, <1>8, <1>9, <1>10 DEF Next, VTT, Convert

\* The conversion ends.
Ending(c) == ProbeFails(c) \/ FFmpegFails(c) \/ Publish(c)

\* An outcome comes before the end of a conversion, and stays.
LEMMA NextWaiting ==
  TypeOK /\ Keyed /\ InFlight /\ Waiting /\ [Next]_vars => Waiting'
<1> SUFFICES ASSUME TypeOK, Keyed, InFlight, Waiting, [Next]_vars PROVE Waiting'
  OBVIOUS
<1> USE NamesAssumption DEF Waiting, Busy
<1>1. ASSUME NEW c \in Callers,
             VideoSubtitles(c) \/ \E n \in Ordinals : VideoSubtitleFile(c, n)
      PROVE  Waiting'
  <2>1. pc[c] = "idle" /\ \E p \in {"key", "done"} : Goto(c, p)
    BY <1>1 DEF VideoSubtitles, VideoSubtitleFile, Return
  <2>2. UNCHANGED <<key, waits, err>>
    BY <1>1 DEF VideoSubtitles, VideoSubtitleFile
  <2>3. QED
    BY <2>1, <2>2 DEF TypeOK, Goto
<1>2. ASSUME NEW c \in Callers, CacheKey(c) PROVE Waiting'
  <2>1. /\ pc[c] = "key" /\ \E p \in {"look", "done"} : Goto(c, p)
        /\ UNCHANGED <<waits, err>>
        /\ \A d \in Callers \ {c} : key'[d] = key[d]
    BY <1>2 DEF TypeOK, CacheKey, Return
  <2>2. \A d \in Callers : pc[d] = "wait" => waits[d] # c
    BY <2>1 DEF Keyed
  <2>3. QED
    BY <2>1, <2>2 DEF TypeOK, Goto
<1>3. ASSUME NEW c \in Callers, Look(c) \/ Serve(c) \/ Wake(c) \/ Cancel(c) \/ Close(c)
      PROVE  Waiting'
  <2>1. /\ pc[c] \in {"look", "serve", "wait", "close"}
        /\ \E p \in {"serve", "convert", "done"} : Goto(c, p)
    BY <1>3 DEF Look, Serve, Wake, Cancel, Close, Return
  <2>2. UNCHANGED <<key, waits, err>>
    BY <1>3 DEF Look, Serve, Wake, Cancel, Close, call
  <2>3. QED
    BY <2>1, <2>2 DEF TypeOK, Goto
<1>4. ASSUME NEW c \in Callers, Join(c) PROVE Waiting'
  <2>1. key[c] \in Versions
    BY <1>4 DEF Keyed, Join
  <2>2. /\ inflight[key[c]] \in Callers /\ Busy(inflight[key[c]])
        /\ key[inflight[key[c]]] = key[c]
    BY <1>4, <2>1 DEF TypeOK, InFlight, Join
  <2>3. /\ pc' = [pc EXCEPT ![c] = "wait"] /\ UNCHANGED <<key, err>>
        /\ waits' = [waits EXCEPT ![c] = inflight[key[c]]]
        /\ pc[c] = "convert"
    BY <1>4 DEF Join, Goto
  <2>4. inflight[key[c]] # c
    BY <2>2, <2>3
  <2>5. ASSUME NEW d \in Callers, pc'[d] \in {"end", "close"} PROVE err'[d] # "none"
    BY <2>3, <2>5 DEF TypeOK
  <2>6. ASSUME NEW d \in Callers, pc'[d] = "wait", d # c
        PROVE  /\ waits'[d] \in Callers /\ key'[waits'[d]] = key'[d]
               /\ \/ pc'[waits'[d]] \in {"probe", "ffmpeg", "publish", "end", "close"}
                  \/ err'[waits'[d]] # "none"
    BY <2>3, <2>6 DEF TypeOK
  <2>7. /\ waits'[c] \in Callers /\ key'[waits'[c]] = key'[c]
        /\ pc'[waits'[c]] \in {"probe", "ffmpeg", "publish", "end", "close"}
    BY <2>2, <2>3, <2>4 DEF TypeOK
  <2>8. QED
    BY <2>5, <2>6, <2>7
<1>5. ASSUME NEW c \in Callers, Lead(c) \/ End(c) PROVE Waiting'
  <2>1. /\ UNCHANGED <<key, waits, err>>
        /\ \/ pc[c] = "convert" /\ Goto(c, "probe")
           \/ pc[c] = "end" /\ Goto(c, "close")
    BY <1>5 DEF Lead, End, call
  <2>2. QED
    BY <2>1 DEF TypeOK, Goto
<1>6. ASSUME NEW c \in Callers, Probe(c) \/ FFmpeg(c) PROVE Waiting'
  BY <1>6 DEF TypeOK, Probe, FFmpeg, Goto
<1>7. ASSUME NEW c \in Callers, Ending(c) PROVE Waiting'
  <2>1. /\ Goto(c, "end") /\ UNCHANGED <<key, waits>>
        /\ \E r \in {"ok", "error"} : err' = [err EXCEPT ![c] = r]
    BY <1>7 DEF Ending, ProbeFails, FFmpegFails, Publish, Converted
  <2>2. QED
    BY <2>1 DEF TypeOK, Goto
<1>8. ASSUME NEW v \in Versions \cup {Gone}, Replace(v) PROVE Waiting'
  BY <1>8 DEF Replace, call
<1>9. CASE ClearCache
  BY <1>9 DEF ClearCache
<1>10. CASE Crash
  BY <1>10 DEF Crash
<1>11. CASE UNCHANGED vars
  BY <1>11 DEF vars, call
<1>12. QED
  BY <1>1, <1>2, <1>3, <1>4, <1>5, <1>6, <1>7, <1>8, <1>9, <1>10, <1>11
  DEF Next, VTT, Convert, Ending

\* A step that leaves the cache and the temporary directories in use alone.
LEMMA SameCache ==
  ASSUME Faithful, UNCHANGED <<dirs, swapped, clears>>,
         \A d \in Callers :
           pc'[d] \in {"ffmpeg", "publish"} =>
             pc[d] = pc'[d] /\ key'[d] = key[d] /\ tmp'[d] = tmp[d]
  PROVE  Faithful'
  BY DEF Faithful

\* What ffprobe and ffmpeg read is of the key's version, or the key is marked
\* as swapped; the rename puts that into an empty place.
LEMMA NextFaithful ==
  TypeOK /\ Keyed /\ Faithful /\ [Next]_vars => Faithful'
<1> SUFFICES ASSUME TypeOK, Keyed, Faithful, [Next]_vars PROVE Faithful'
  OBVIOUS
<1>1. ASSUME NEW c \in Callers,
             \/ VideoSubtitles(c) \/ \E n \in Ordinals : VideoSubtitleFile(c, n)
             \/ Look(c) \/ Serve(c) \/ Join(c) \/ Lead(c) \/ Wake(c) \/ Cancel(c)
             \/ End(c) \/ Close(c)
      PROVE  Faithful'
  <2>1. \E p \in Places \ {"ffmpeg", "publish"} : Goto(c, p)
    BY <1>1, Ends DEF VideoSubtitles, VideoSubtitleFile, Look, Serve, Join, Lead,
                      Wake, Cancel, End, Close, Return
  <2>2. UNCHANGED <<dirs, swapped, clears, key, tmp>>
    BY <1>1 DEF VideoSubtitles, VideoSubtitleFile, Look, Serve, Join, Lead,
                Wake, Cancel, End, Close, cache, call, history, budgets
  <2>3. QED
    BY <2>1, <2>2, SameCache DEF TypeOK, Goto
<1>2. ASSUME NEW c \in Callers, CacheKey(c) PROVE Faithful'
  <2>1. \E p \in {"look", "done"} : Goto(c, p)
    BY <1>2 DEF CacheKey, Return
  <2>2. /\ UNCHANGED <<dirs, swapped, clears, tmp>>
        /\ \A d \in Callers \ {c} : key'[d] = key[d]
    BY <1>2 DEF TypeOK, CacheKey, cache, budgets
  <2>3. QED
    BY <2>1, <2>2, SameCache DEF TypeOK, Goto
<1>3. ASSUME NEW c \in Callers, ProbeFails(c) \/ FFmpegFails(c) PROVE Faithful'
  <2>1. /\ Goto(c, "end") /\ tmp' = [tmp EXCEPT ![c] = NoDir]
        /\ UNCHANGED <<dirs, swapped, clears, key>>
    BY <1>3 DEF ProbeFails, FFmpegFails, Converted, cache, history
  <2>2. QED
    BY <2>1, SameCache DEF TypeOK, Goto
<1>4. ASSUME NEW c \in Callers, Probe(c) PROVE Faithful'
  <2>1. /\ key[c] \in Versions /\ file \in Versions
        /\ UNCHANGED <<dirs, clears, key>>
        /\ pc' = [pc EXCEPT ![c] = "ffmpeg"]
        /\ tmp' = [tmp EXCEPT ![c] = [of |-> Nothing, tracks |-> Tracks[file],
                                      done |-> FALSE]]
    BY <1>4 DEF TypeOK, Keyed, Probe, Goto, cache, budgets
  <2>2. /\ swapped \subseteq swapped'
        /\ key[c] \notin swapped' => file = key[c]
    BY <1>4 DEF Probe, MarkSwapped
  <2>3. [of |-> Nothing, tracks |-> Tracks[file], done |-> FALSE] # NoDir
    <3>1. Tracks[file] \subseteq Ordinals
      BY <2>1, NamesAssumption DEF Ordinals
    <3>2. [of |-> Nothing, tracks |-> Tracks[file], done |-> FALSE] \in Dirs
      BY <3>1 DEF Dirs
    <3>3. QED
      BY <3>2, NamesAssumption
  <2>4. QED
    BY <2>1, <2>2, <2>3 DEF TypeOK, Faithful
<1>5. ASSUME NEW c \in Callers, FFmpeg(c) PROVE Faithful'
  <2> DEFINE dir == [of |-> file, tracks |-> tmp[c].tracks, done |-> TRUE]
  <2>1. /\ key[c] \in Versions /\ pc[c] = "ffmpeg" /\ tmp[c] # NoDir
        /\ UNCHANGED <<dirs, clears, key>>
        /\ pc' = [pc EXCEPT ![c] = "publish"]
        /\ tmp' = [tmp EXCEPT ![c] = dir]
    BY <1>5 DEF TypeOK, Keyed, FFmpeg, CanConvert, Goto, cache, budgets
  <2>2. /\ swapped \subseteq swapped'
        /\ key[c] \notin swapped' => file = key[c]
    BY <1>5 DEF FFmpeg, MarkSwapped
  <2>3. dir # NoDir
    <3>1. tmp[c] \in Dirs /\ file \in Versions \cup {Gone}
      BY <2>1 DEF TypeOK
    <3>2. dir \in Dirs
      BY <3>1 DEF Dirs
    <3>3. QED
      BY <3>2, NamesAssumption
  <2>4. key[c] \notin swapped' => dir.tracks = Tracks[key[c]] /\ dir.of = key[c]
    BY <2>1, <2>2 DEF Faithful
  <2>5. dir.done
    OBVIOUS
  <2> HIDE DEF dir
  <2>6. tmp'[c] = dir /\ \A d \in Callers \ {c} : tmp'[d] = tmp[d] /\ pc'[d] = pc[d]
    BY <2>1 DEF TypeOK
  <2>7. \A k \in Versions :
          dirs'[k] # NoDir =>
            /\ k \notin swapped' => dirs'[k].of = k /\ dirs'[k].tracks = Tracks[k]
            /\ clears' = 0 => dirs'[k].done
    BY <2>1, <2>2 DEF Faithful
  <2>8. ASSUME NEW d \in Callers, pc'[d] \in {"ffmpeg", "publish"}
        PROVE  /\ tmp'[d] # NoDir /\ key'[d] \notin swapped' =>
                    tmp'[d].tracks = Tracks[key'[d]]
               /\ clears' = 0 => tmp'[d] # NoDir
    BY <2>1, <2>2, <2>3, <2>4, <2>6, <2>8 DEF Faithful
  <2>9. ASSUME NEW d \in Callers, pc'[d] = "publish", tmp'[d] # NoDir
        PROVE  tmp'[d].done /\ (key'[d] \notin swapped' => tmp'[d].of = key'[d])
    BY <2>1, <2>2, <2>4, <2>5, <2>6, <2>9 DEF Faithful
  <2>10. QED
    BY <2>7, <2>8, <2>9 DEF Faithful
<1>6. ASSUME NEW c \in Callers, Publish(c) PROVE Faithful'
  <2>1. /\ key[c] \in Versions /\ pc[c] = "publish"
        /\ UNCHANGED <<swapped, clears, key>>
        /\ pc' = [pc EXCEPT ![c] = "end"] /\ tmp' = [tmp EXCEPT ![c] = NoDir]
        /\ \/ UNCHANGED dirs
           \/ tmp[c] # NoDir /\ dirs' = [dirs EXCEPT ![key[c]] = tmp[c]]
    BY <1>6 DEF Keyed, Publish, Converted, Goto, history, budgets
  <2>2. tmp[c] # NoDir =>
          /\ tmp[c].done
          /\ key[c] \notin swapped => tmp[c].of = key[c] /\ tmp[c].tracks = Tracks[key[c]]
    BY <2>1 DEF Faithful
  <2>3. clears = 0 => tmp[c] # NoDir
    BY <2>1 DEF Faithful
  <2>4. ASSUME NEW k \in Versions, dirs'[k] # NoDir
        PROVE  /\ k \notin swapped => dirs'[k].of = k /\ dirs'[k].tracks = Tracks[k]
               /\ clears = 0 => dirs'[k].done
    <3>1. CASE dirs'[k] = dirs[k]
      BY <2>4, <3>1 DEF Faithful
    <3>2. CASE k = key[c] /\ tmp[c] # NoDir /\ dirs'[k] = tmp[c]
      BY <2>2, <3>2
    <3>3. QED
      BY <2>1, <3>1, <3>2 DEF TypeOK
  <2>5. \A d \in Callers :
          pc'[d] \in {"ffmpeg", "publish"} => pc'[d] = pc[d] /\ tmp'[d] = tmp[d]
    BY <2>1 DEF TypeOK
  <2>6. QED
    BY <2>1, <2>4, <2>5 DEF Faithful
<1>7. ASSUME NEW v \in Versions \cup {Gone}, Replace(v) PROVE Faithful'
  BY <1>7, SameCache DEF Replace, cache, call
<1>8. CASE ClearCache
  <2>1. /\ clears' = clears + 1 /\ UNCHANGED <<swapped, pc, key>>
        /\ tmp' = [d \in Callers |-> NoDir]
        /\ \A k \in Versions :
             dirs'[k] # NoDir =>
               /\ dirs[k] # NoDir
               /\ dirs'[k].of = dirs[k].of /\ dirs'[k].tracks = dirs[k].tracks
    BY <1>8 DEF ClearCache, Done, history
  <2>2. clears' # 0
    BY <2>1 DEF TypeOK
  <2>3. QED
    BY <2>1, <2>2 DEF Faithful
<1>9. CASE Crash
  <2>1. \A d \in Callers : pc'[d] \notin {"ffmpeg", "publish"}
    BY <1>9 DEF Crash
  <2>2. QED
    BY <1>9, <2>1, SameCache DEF Crash, history
<1>10. CASE UNCHANGED vars
  BY <1>10, SameCache DEF vars, cache, call, history, budgets
<1>11. QED
  BY <1>1, <1>2, <1>3, <1>4, <1>5, <1>6, <1>7, <1>8, <1>9, <1>10
  DEF Next, VTT, Convert

\* Without a deletion, a directory stays, and who serves from one found it,
\* made it, or was told of it.
LEMMA NextPresent ==
  TypeOK /\ Keyed /\ Waiting /\ Faithful /\ Present /\ [Next]_vars => Present'
<1> SUFFICES ASSUME TypeOK, Keyed, Waiting, Faithful, Present, [Next]_vars
             PROVE  Present'
  OBVIOUS
<1> USE NamesAssumption
<1>1. ASSUME UNCHANGED <<dirs, clears, key, err>>,
             \A d \in Callers : pc'[d] = "serve" => pc[d] = "serve"
      PROVE  Present'
  BY <1>1 DEF Present
<1>2. ASSUME NEW c \in Callers,
             \/ VideoSubtitles(c) \/ \E n \in Ordinals : VideoSubtitleFile(c, n)
             \/ Serve(c) \/ Join(c) \/ Lead(c) \/ Cancel(c) \/ End(c)
             \/ Probe(c) \/ FFmpeg(c)
      PROVE  Present'
  <2>1. \E p \in Places \ {"serve"} : Goto(c, p)
    BY <1>2, Ends DEF VideoSubtitles, VideoSubtitleFile, Serve, Join, Lead,
                      Cancel, End, Probe, FFmpeg, Return
  <2>2. UNCHANGED <<dirs, clears, key, err>>
    BY <1>2 DEF VideoSubtitles, VideoSubtitleFile, Serve, Join, Lead,
                Cancel, End, Probe, FFmpeg, cache, call, budgets
  <2>3. QED
    BY <1>1, <2>1, <2>2 DEF TypeOK, Goto
<1>3. ASSUME NEW c \in Callers, Look(c) PROVE Present'
  <2>1. /\ UNCHANGED <<dirs, clears, key, err>>
        /\ pc'[c] = "serve" => dirs[key[c]] # NoDir
        /\ \A d \in Callers \ {c} : pc'[d] = pc[d]
    BY <1>3 DEF TypeOK, Look, Goto, Done, cache, call, budgets
  <2>2. QED
    BY <2>1 DEF Present
<1>4. ASSUME NEW c \in Callers, CacheKey(c) PROVE Present'
  <2>1. /\ UNCHANGED <<dirs, clears, err>> /\ key[c] = Nothing
        /\ \A d \in Callers \ {c} : key'[d] = key[d] /\ pc'[d] = pc[d]
        /\ pc'[c] # "serve"
    BY <1>4 DEF TypeOK, Keyed, CacheKey, Return, Goto, cache, budgets
  <2>2. err[c] # "ok"
    BY <2>1 DEF Present
  <2>3. QED
    BY <2>1, <2>2 DEF Present
<1>5. ASSUME NEW c \in Callers, Close(c) PROVE Present'
  <2>1. /\ UNCHANGED <<dirs, clears, key, err>>
        /\ pc'[c] = "serve" => err[c] = "ok"
        /\ \A d \in Callers \ {c} : pc'[d] = pc[d]
    BY <1>5 DEF TypeOK, Close, Return, Goto, cache, budgets
  <2>2. QED
    BY <2>1 DEF Present
<1>6. ASSUME NEW c \in Callers, Wake(c) PROVE Present'
  <2>1. /\ UNCHANGED <<dirs, clears, key, err>>
        /\ pc'[c] = "serve" => err[waits[c]] = "ok"
        /\ \A d \in Callers \ {c} : pc'[d] = pc[d]
        /\ waits[c] \in Callers /\ key[waits[c]] = key[c]
    BY <1>6 DEF TypeOK, Waiting, Wake, Return, Goto, cache, budgets
  <2>2. QED
    BY <2>1 DEF Present
<1>7. ASSUME NEW c \in Callers, ProbeFails(c) \/ FFmpegFails(c) PROVE Present'
  <2>1. /\ UNCHANGED <<dirs, clears, key>>
        /\ err' = [err EXCEPT ![c] = "error"] /\ pc' = [pc EXCEPT ![c] = "end"]
    BY <1>7 DEF ProbeFails, FFmpegFails, Converted, Goto, cache
  <2>2. \A d \in Callers :
          /\ err'[d] = "ok" => err[d] = "ok"
          /\ pc'[d] = "serve" => pc[d] = "serve"
    BY <2>1 DEF TypeOK
  <2>3. QED
    BY <2>1, <2>2 DEF Present
<1>8. ASSUME NEW c \in Callers, Publish(c) PROVE Present'
  <2>1. key[c] \in Versions
    BY <1>8 DEF Keyed, Publish
  <2>2. /\ UNCHANGED <<clears, key>> /\ pc' = [pc EXCEPT ![c] = "end"]
        /\ \E r \in {"ok", "error"} :
             /\ err' = [err EXCEPT ![c] = r]
             /\ r = "ok" => dirs'[key[c]] # NoDir
        /\ \A k \in Versions : dirs[k] # NoDir => dirs'[k] # NoDir
    BY <1>8, <2>1 DEF TypeOK, Publish, Converted, Goto, Done, budgets
  <2>3. \A d \in Callers :
          /\ pc'[d] = "serve" => pc[d] = "serve"
          /\ err'[d] = "ok" => err[d] = "ok" \/ (d = c /\ dirs'[key[c]] # NoDir)
    BY <2>2 DEF TypeOK
  <2>4. \A d \in Callers : pc[d] = "serve" => key[d] \in Versions
    BY DEF Keyed
  <2>5. QED
    BY <2>1, <2>2, <2>3, <2>4 DEF Present
<1>9. ASSUME NEW v \in Versions \cup {Gone}, Replace(v) PROVE Present'
  BY <1>1, <1>9 DEF Replace, cache, call
<1>10. CASE ClearCache
  <2>1. clears' # 0 /\ UNCHANGED <<err, key>>
    BY <1>10 DEF TypeOK, ClearCache
  <2>2. QED
    BY <2>1 DEF Present
<1>11. CASE Crash
  BY <1>1, <1>11 DEF Crash
<1>12. CASE UNCHANGED vars
  BY <1>1, <1>12 DEF vars, cache, call, budgets
<1>13. QED
  BY <1>2, <1>3, <1>4, <1>5, <1>6, <1>7, <1>8, <1>9, <1>10, <1>11, <1>12
  DEF Next, VTT, Convert

\* What is served is of the directory that the key names.
LEMMA NextNeverStale ==
  TypeOK /\ Keyed /\ Faithful /\ Present /\ NeverStale /\ [Next]_vars => NeverStale'
<1> SUFFICES ASSUME TypeOK, Keyed, Faithful, Present, NeverStale, [Next]_vars
             PROVE  NeverStale'
  OBVIOUS
<1>1. ASSUME NEW c \in Callers, VideoSubtitles(c) PROVE NeverStale'
  <2>1. /\ UNCHANGED <<swapped, clears, during, key>> /\ answer[c] = NoAnswer
        /\ answer'[c] = NoAnswer \/ answer'[c].is = "empty"
        /\ \A d \in Callers \ {c} : answer'[d] = answer[d] /\ ordinal'[d] = ordinal[d]
    BY <1>1 DEF TypeOK, Keyed, VideoSubtitles, Return, history
  <2>2. QED
    BY <2>1 DEF NeverStale, NoAnswer
<1>2. ASSUME NEW c \in Callers, NEW n \in Ordinals, VideoSubtitleFile(c, n)
      PROVE  NeverStale'
  <2>1. /\ UNCHANGED <<swapped, clears, during, key>> /\ answer[c] = NoAnswer
        /\ answer'[c] = NoAnswer \/ answer'[c].is = "absent"
        /\ key[c] = Nothing
        /\ \A d \in Callers \ {c} : answer'[d] = answer[d] /\ ordinal'[d] = ordinal[d]
    BY <1>2 DEF TypeOK, Keyed, VideoSubtitleFile, Return, history, budgets
  <2>2. QED
    BY <2>1 DEF NeverStale, NoAnswer
<1>3. ASSUME NEW c \in Callers, CacheKey(c) PROVE NeverStale'
  <2>1. /\ UNCHANGED <<swapped, clears, ordinal>> /\ answer[c] = NoAnswer
        /\ answer'[c] = NoAnswer \/ answer'[c].is = "error"
        /\ \A d \in Callers \ {c} :
             answer'[d] = answer[d] /\ key'[d] = key[d] /\ during'[d] = during[d]
    BY <1>3 DEF TypeOK, Keyed, CacheKey, Return, budgets
  <2>2. QED
    BY <2>1 DEF NeverStale, NoAnswer
<1>4. ASSUME UNCHANGED <<clears, during, key, ordinal, answer>>,
             swapped \subseteq swapped'
      PROVE  NeverStale'
  BY <1>4 DEF NeverStale
<1>5. ASSUME NEW c \in Callers,
             \/ Look(c) \/ Join(c) \/ Lead(c) \/ End(c) \/ Probe(c) \/ FFmpeg(c)
             \/ Publish(c) \/ ProbeFails(c) \/ FFmpegFails(c)
      PROVE  NeverStale'
  BY <1>4, <1>5 DEF Look, Join, Lead, End, Probe, FFmpeg, Publish, ProbeFails,
                    FFmpegFails, MarkSwapped, call, history, budgets
<1>6. ASSUME NEW c \in Callers, Wake(c) \/ Cancel(c) \/ Close(c) PROVE NeverStale'
  <2>1. /\ UNCHANGED <<swapped, clears, during, key, ordinal>>
        /\ answer'[c] = answer[c] \/ answer'[c].is \in {"error", "cancelled"}
        /\ \A d \in Callers \ {c} : answer'[d] = answer[d]
    BY <1>6 DEF TypeOK, Wake, Cancel, Close, Return, history, budgets
  <2>2. QED
    BY <2>1 DEF NeverStale
<1>7. ASSUME NEW c \in Callers, Serve(c) PROVE NeverStale'
  <2>1. /\ key[c] \in Versions /\ key[c] \in during[c]
    BY <1>7 DEF Keyed, Serve
  <2>2. clears = 0 => dirs[key[c]] # NoDir
    BY <1>7 DEF Present, Serve
  <2>3. dirs[key[c]] # NoDir /\ key[c] \notin swapped =>
          dirs[key[c]].of = key[c] /\ dirs[key[c]].tracks = Tracks[key[c]]
    BY <2>1 DEF Faithful
  <2>4. /\ UNCHANGED <<swapped, clears, during, key, ordinal>>
        /\ answer'[c].is = "file" =>
             /\ dirs[key[c]] # NoDir /\ answer'[c].dir = dirs[key[c]]
        /\ answer'[c].is = "absent" =>
             (dirs[key[c]] # NoDir => ordinal[c] \notin dirs[key[c]].tracks)
        /\ \A d \in Callers \ {c} : answer'[d] = answer[d]
    BY <1>7 DEF TypeOK, Serve, Return, history, budgets
  <2>5. QED
    BY <2>1, <2>2, <2>3, <2>4 DEF NeverStale
<1>8. ASSUME NEW v \in Versions \cup {Gone}, Replace(v) PROVE NeverStale'
  <2>1. /\ UNCHANGED <<swapped, clears, key, ordinal, answer>>
        /\ \A d \in Callers : during[d] \subseteq during'[d]
    BY <1>8 DEF Replace, call
  <2>2. QED
    BY <2>1 DEF NeverStale
<1>9. CASE ClearCache
  <2>1. /\ UNCHANGED <<swapped, during, key, ordinal, answer>> /\ clears' # 0
    BY <1>9 DEF TypeOK, ClearCache, history
  <2>2. QED
    BY <2>1 DEF NeverStale
<1>10. CASE Crash
  BY <1>4, <1>10 DEF Crash, history
<1>11. CASE UNCHANGED vars
  BY <1>4, <1>11 DEF vars, call, history, budgets
<1>12. QED
  BY <1>1, <1>2, <1>3, <1>5, <1>6, <1>7, <1>8, <1>9, <1>10, <1>11
  DEF Next, VTT, Convert

\* Without faults, replacements and deletions, every conversion succeeds.
LEMMA NextNoError ==
  TypeOK /\ Keyed /\ Waiting /\ Faithful /\ NoError /\ [Next]_vars => NoError'
<1> SUFFICES ASSUME TypeOK, Keyed, Waiting, Faithful, NoError, [Next]_vars,
                    Undisturbed'
             PROVE  /\ file' \in Versions
                    /\ \A c \in Callers :
                         /\ err'[c] # "error" /\ answer'[c].is # "error"
                         /\ key'[c] \in Versions => key'[c] = file'
                         /\ tmp'[c] # NoDir => tmp'[c].tracks \subseteq Streams[file']
  BY DEF NoError
<1> DEFINE Goal ==
      /\ file' \in Versions
      /\ \A c \in Callers :
           /\ err'[c] # "error" /\ answer'[c].is # "error"
           /\ key'[c] \in Versions => key'[c] = file'
           /\ tmp'[c] # NoDir => tmp'[c].tracks \subseteq Streams[file']
<1> USE NamesAssumption DEF Undisturbed
<1>1. ~Fault
  BY DEF Fault, TypeOK
<1>2. ASSUME Undisturbed, UNCHANGED <<file, key, err, tmp>>,
             \A d \in Callers : answer'[d] = answer[d] \/ answer'[d].is # "error"
      PROVE  Goal
  BY <1>2 DEF NoError
<1>3. ASSUME NEW c \in Callers, VideoSubtitles(c) \/ Serve(c) \/ Cancel(c)
      PROVE  Goal
  <2>1. \A d \in Callers : answer'[d] = answer[d] \/ answer'[d].is # "error"
    BY <1>3 DEF TypeOK, VideoSubtitles, Serve, Cancel, Return
  <2>2. Undisturbed /\ UNCHANGED <<file, key, err, tmp>>
    BY <1>1, <1>3 DEF VideoSubtitles, Serve, Cancel, history, budgets
  <2>3. QED
    BY <1>2, <2>1, <2>2
<1>4. ASSUME NEW c \in Callers, NEW n \in Ordinals, VideoSubtitleFile(c, n)
      PROVE  Goal
  <2>1. \A d \in Callers : answer'[d] = answer[d] \/ answer'[d].is # "error"
    BY <1>4 DEF TypeOK, VideoSubtitleFile, Return
  <2>2. Undisturbed /\ UNCHANGED <<file, key, err, tmp>>
    BY <1>4 DEF VideoSubtitleFile, budgets
  <2>3. QED
    BY <1>2, <2>1, <2>2
<1>5. ASSUME NEW c \in Callers, CacheKey(c) PROVE Goal
  <2>1. Undisturbed /\ UNCHANGED <<file, err, tmp>>
    BY <1>5 DEF CacheKey, budgets
  <2>2. file \in Versions /\ file # Gone
    BY <2>1 DEF NoError
  <2>3. UNCHANGED answer /\ key' = [key EXCEPT ![c] = file]
    BY <1>5, <2>2 DEF CacheKey, KeyOf
  <2>4. QED
    BY <2>1, <2>2, <2>3 DEF TypeOK, NoError
<1>6. ASSUME NEW c \in Callers, Look(c) \/ Join(c) \/ Lead(c) \/ End(c) PROVE Goal
  BY <1>2, <1>6 DEF Look, Join, Lead, End, call, budgets
<1>7. ASSUME NEW c \in Callers, Wake(c) \/ Close(c) PROVE Goal
  <2>1. Undisturbed /\ UNCHANGED <<file, key, err, tmp>>
    BY <1>7 DEF Wake, Close, budgets
  <2>2. \A d \in Callers : err[d] \in {"none", "ok"}
    BY <2>1 DEF TypeOK, NoError
  <2>3. CASE Wake(c)
    <3>1. err[waits[c]] = "ok"
      BY <2>2, <2>3 DEF Wake, Waiting, Busy
    <3>2. QED
      BY <1>2, <2>1, <2>3, <3>1 DEF Wake
  <2>4. CASE Close(c)
    <3>1. err[c] = "ok"
      BY <2>2, <2>4 DEF Close, Waiting
    <3>2. QED
      BY <1>2, <2>1, <2>4, <3>1 DEF Close
  <2>5. QED
    BY <1>7, <2>3, <2>4
<1>8. ASSUME NEW c \in Callers, Probe(c) PROVE Goal
  <2>1. Undisturbed /\ UNCHANGED <<file, key, err, answer>>
    BY <1>8 DEF Probe, budgets
  <2>2. file \in Versions /\ Tracks[file] \subseteq Streams[file]
    BY <2>1 DEF NoError
  <2>3. tmp' = [tmp EXCEPT ![c] = [of |-> Nothing, tracks |-> Tracks[file],
                                   done |-> FALSE]]
    BY <1>8 DEF Probe
  <2>4. QED
    BY <2>1, <2>2, <2>3 DEF TypeOK, NoError
<1>9. ASSUME NEW c \in Callers, ProbeFails(c) PROVE FALSE
  <2>1. file = Gone /\ Undisturbed
    BY <1>1, <1>9 DEF ProbeFails
  <2>2. QED
    BY <2>1 DEF NoError
<1>10. ASSUME NEW c \in Callers, FFmpeg(c) PROVE Goal
  <2>1. Undisturbed /\ UNCHANGED <<file, key, err, answer>> /\ tmp[c] # NoDir
    BY <1>10 DEF FFmpeg, CanConvert, budgets
  <2>2. tmp[c].tracks \subseteq Streams[file]
    BY <2>1 DEF NoError
  <2>3. tmp' = [tmp EXCEPT ![c] = [of |-> file, tracks |-> tmp[c].tracks,
                                   done |-> TRUE]]
    BY <1>10 DEF FFmpeg, TypeOK
  <2>4. QED
    BY <2>1, <2>2, <2>3 DEF TypeOK, NoError
<1>11. ASSUME NEW c \in Callers, FFmpegFails(c) PROVE FALSE
  <2>1. ~CanConvert(c) /\ Undisturbed /\ pc[c] = "ffmpeg"
    BY <1>1, <1>11 DEF FFmpegFails
  <2>2. tmp[c] # NoDir
    BY <2>1 DEF Faithful
  <2>3. file # Gone /\ tmp[c].tracks \subseteq Streams[file]
    BY <2>1, <2>2 DEF NoError
  <2>4. QED
    BY <2>1, <2>2, <2>3 DEF CanConvert
<1>12. ASSUME NEW c \in Callers, Publish(c) PROVE Goal
  <2>1. /\ Undisturbed /\ UNCHANGED <<file, key, answer>>
        /\ pc[c] = "publish" /\ key[c] \in Versions
    BY <1>12 DEF Publish, Keyed, budgets
  <2>2. tmp[c] # NoDir
    BY <2>1 DEF Faithful
  <2>3. dirs[key[c]] # NoDir => Done(key[c])
    BY <2>1 DEF Faithful, Done
  <2>4. /\ err' = [err EXCEPT ![c] = "ok"] /\ tmp' = [tmp EXCEPT ![c] = NoDir]
    BY <1>12, <2>2, <2>3 DEF Publish, Converted
  <2>5. QED
    BY <2>1, <2>4 DEF TypeOK, NoError
<1>13. ASSUME NEW v \in Versions \cup {Gone}, Replace(v) PROVE FALSE
  BY <1>13 DEF Replace, TypeOK
<1>14. ~ClearCache
  BY DEF ClearCache, TypeOK
<1>15. CASE Crash
  <2>1. /\ Undisturbed /\ UNCHANGED <<file, key, err, answer>>
        /\ tmp' = [d \in Callers |-> NoDir]
    BY <1>15 DEF Crash
  <2>2. QED
    BY <2>1 DEF NoError
<1>16. CASE UNCHANGED vars
  BY <1>2, <1>16 DEF vars, call, budgets
<1>17. QED
  BY <1>3, <1>4, <1>5, <1>6, <1>7, <1>8, <1>9, <1>10, <1>11, <1>12, <1>13, <1>14,
     <1>15, <1>16 DEF Next, VTT, Convert

LEMMA NextIInv == IInv /\ [Next]_vars => IInv'
  BY NextTypeOK, NextKeyed, NextInFlight, NextWaiting, NextFaithful, NextPresent,
     NextNeverStale, NextNoError DEF IInv

LEMMA Invariance == Spec => []IInv
  BY InitIInv, NextIInv, PTL DEF Spec

-----------------------------------------------------------------------------

\* The callers, the cache and the directories keep their shape (VTT, convert).
THEOREM TypeCorrect == Spec => []TypeOK
<1>1. IInv => TypeOK
  BY DEF IInv
<1>2. QED
  BY <1>1, Invariance, PTL

\* However many callers look for the done marker, and whenever: no two
\* conversions of one key at a time (convert and its in-flight map).
THEOREM OneConversionHolds == Spec => []OneConversion
<1>1. IInv => OneConversion
  BY DEF IInv, Keyed, InFlight, Busy, OneConversion
<1>2. QED
  BY <1>1, Invariance, PTL

\* A served track is of a version that was on disk during the call, and a
\* refused one is none of it (VTT, cacheKey, the rename of runFFmpeg).
THEOREM NeverStaleHolds == Spec => []NeverStale
<1>1. IInv => NeverStale
  BY DEF IInv
<1>2. QED
  BY <1>1, Invariance, PTL

\* A caller is told of an error only when a tool failed, or the video or the
\* cache was changed (the failed rename of runFFmpeg is none).
THEOREM ErrorHasCauseHolds == Spec => []ErrorHasCause
<1>1. IInv => ErrorHasCause
  BY DEF IInv, NoError, Undisturbed, ErrorHasCause
<1>2. QED
  BY <1>1, Invariance, PTL
=============================================================================
