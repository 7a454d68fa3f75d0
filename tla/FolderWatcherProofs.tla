------------------------ MODULE FolderWatcherProofs ------------------------
(***************************************************************************)
(* For any files, contents and bounds: what the checkpoint has, in memory  *)
(* or on disk, has been published, whichever goroutine marked it, and no   *)
(* content is published more often than it was written without a cause.    *)
(***************************************************************************)
EXTENDS FolderWatcher, FiniteSetTheorems, TLAPS

\* A goroutine inside handleFile has a file and what it read from it; what it
\* marks it has published.
Handling ==
  /\ \A t \in Threads :
       pc[t] \in {"check", "publish", "mark", "save"} =>
         file[t] \in Files /\ data[t] \in Contents
  /\ \A t \in Threads : pc[t] = "mark" => pubs[Stimulus(file[t], data[t])] > 0

\* Nothing runs, and the checkpoint is not loaded, before Start.
Off ==
  pc["events"] = "off" => (\A t \in Threads : pc[t] = "off") /\ hash = NoEntries

\* The goroutines that have found a content of f new, and not marked it.
Holds(t, f)      == pc[t] \in {"publish", "mark"} /\ file[t] = f
Publishing(f, v) == {t \in Threads : pc[t] = "publish" /\ file[t] = f /\ data[t] = v}
Rival(f, v)      == \E t \in Threads : Holds(t, f) /\ data[t] # v
Known(f, v)      == hash[f] = v \/ \E t \in Threads : Holds(t, f) /\ data[t] = v

\* The content there is will be found new once more, for all that is under way:
\* nobody has it, or a goroutine may mark another one after it.
Due(f, v) == IF content[f] = v /\ (Rival(f, v) \/ ~Known(f, v)) THEN 1 ELSE 0

\* Every stimulus of a content, published, about to be or still due, is paid
\* for by a write of it or by one of the causes.
Accounted ==
  \A f \in Files, v \in Contents :
    pubs[Stimulus(f, v)] + Cardinality(Publishing(f, v)) + Due(f, v)
      <= written[Stimulus(f, v)] + crashes + faults + overlaps[f]

IInv == TypeOK /\ Handling /\ MarkedIsPublished /\ Off /\ Accounted

-----------------------------------------------------------------------------

LEMMA StimulusType ==
  \A f \in Files, v \in Contents : Stimulus(f, v) \in Stimuli
  BY DEF Stimuli

LEMMA PointsAre ==
  Points = {"off", "wait", "list", "scan", "check", "publish", "mark", "save"}
  BY DEF Points

LEMMA ThreadsFinite == IsFiniteSet(Threads)
<1>1. IsFiniteSet({"first"})
  BY FS_Singleton
<1>2. IsFiniteSet({"first"} \cup {"events"})
  BY <1>1, FS_AddElement
<1>3. IsFiniteSet(({"first"} \cup {"events"}) \cup {"reconcile"})
  BY <1>2, FS_AddElement
<1>4. QED
  BY <1>3 DEF Threads

LEMMA OthersType ==
  ASSUME NEW t \in Threads PROVE Cardinality(Others(t)) \in Nat
<1>1. Others(t) \subseteq Threads
  BY DEF Others
<1>2. QED
  BY <1>1, ThreadsFinite, FS_Subset, FS_CardinalityType

LEMMA PublishingType ==
  ASSUME NEW f, NEW v
  PROVE  IsFiniteSet(Publishing(f, v)) /\ Cardinality(Publishing(f, v)) \in Nat
<1>1. Publishing(f, v) \subseteq Threads
  BY DEF Publishing
<1>2. QED
  BY <1>1, ThreadsFinite, FS_Subset, FS_CardinalityType

\* Return keeps the types of what it sets.
LEMMA ReturnTypes ==
  ASSUME TypeOK, NEW t \in Threads, Return(t)
  PROVE  /\ pc' \in [Threads -> Points]
         /\ file' \in [Threads -> Files \cup {NoFile}]
         /\ data' \in [Threads -> Contents \cup {Empty}]
  BY PointsAre DEF TypeOK, Return

LEMMA EnqueueTypes ==
  ASSUME TypeOK, NEW f \in Files, Enqueue(f)
  PROVE  events' \in Seq(Files) /\ Len(events') <= QueueSize
  BY BoundsAssumption DEF TypeOK, Enqueue

LEMMA NextFileTypes ==
  ASSUME TypeOK, NEW t \in Threads, NEW f \in Files, Next1(t, f)
  PROVE  /\ todo' \in [Threads -> SUBSET Files]
         /\ events' \in Seq(Files) /\ Len(events') <= QueueSize
<1>1. CASE UNCHANGED events
  BY <1>1 DEF TypeOK, Next1
<1>2. CASE events # <<>> /\ events' = Tail(events) /\ UNCHANGED todo
  BY <1>2, BoundsAssumption DEF TypeOK
<1>3. QED
  BY <1>1, <1>2 DEF Next1

\* Nothing is published, and the directory is empty.
LEMMA InitIInv == Init => IInv
<1> SUFFICES ASSUME Init PROVE IInv
  OBVIOUS
<1>1. TypeOK
  <2>1. events \in Seq(Files) /\ Len(events) <= QueueSize
    BY BoundsAssumption DEF Init
  <2>2. /\ content \in [Files -> Contents \cup {Absent, Empty}]
        /\ disk \in [Files -> Contents \cup {NoEntry}] /\ hash = disk
        /\ todo \in [Threads -> SUBSET Files]
        /\ file \in [Threads -> Files \cup {NoFile}]
        /\ data \in [Threads -> Contents \cup {Empty}]
    BY DEF Init, NoEntries
  <2>3. pc \in [Threads -> Points]
    BY PointsAre DEF Init
  <2>4. /\ pubs \in [Stimuli -> Nat] /\ written = pubs
        /\ overlaps \in [Files -> Nat]
        /\ changes \in 0..MaxChanges /\ crashes \in 0..MaxCrashes
        /\ faults \in 0..MaxFaults
    BY BoundsAssumption DEF Init
  <2>5. QED
    BY <2>1, <2>2, <2>3, <2>4 DEF Init, TypeOK
<1>2. Handling
  BY DEF Init, Handling
<1>3. MarkedIsPublished
  BY NamesAssumption DEF Init, MarkedIsPublished, NoEntries
<1>4. Off
  BY DEF Init, Off
<1>5. Accounted
  <2> SUFFICES ASSUME NEW f \in Files, NEW v \in Contents
               PROVE  pubs[Stimulus(f, v)] + Cardinality(Publishing(f, v)) + Due(f, v)
                        <= written[Stimulus(f, v)] + crashes + faults + overlaps[f]
    BY DEF Accounted
  <2>1. Publishing(f, v) = {} /\ Due(f, v) = 0
    BY NamesAssumption DEF Init, Publishing, Due
  <2>2. Cardinality(Publishing(f, v)) = 0
    BY <2>1, FS_EmptySet
  <2>3. QED
    BY <2>1, <2>2, StimulusType DEF Init
<1>6. QED
  BY <1>1, <1>2, <1>3, <1>4, <1>5 DEF IInv

\* Every step keeps the types of the variables.
LEMMA NextTypeOK == TypeOK /\ Handling /\ [Next]_vars => TypeOK'
<1> SUFFICES ASSUME TypeOK, Handling, [Next]_vars PROVE TypeOK'
  OBVIOUS
<1> USE BoundsAssumption, PointsAre
    DEF files, queue, checkpoint, threads, history, budgets
<1>1. CASE MakeDir
  BY <1>1 DEF TypeOK, MakeDir
<1>2. ASSUME NEW f \in Files, Create(f) PROVE TypeOK'
  <2>1. events' \in Seq(Files) /\ Len(events') <= QueueSize
    BY <1>2, EnqueueTypes DEF Create
  <2>2. QED
    BY <1>2, <2>1 DEF TypeOK, Create, Change
<1>3. ASSUME NEW f \in Files, NEW v \in Contents, Write(f, v) PROVE TypeOK'
  <2>1. written' \in [Stimuli -> Nat]
    BY <1>3, StimulusType DEF TypeOK, Write
  <2>2. QED
    BY <1>3, <2>1 DEF TypeOK, Write, Change
<1>4. ASSUME NEW f \in Files, NEW g \in Files, Rename(f, g) PROVE TypeOK'
  <2>1. written' \in [Stimuli -> Nat]
    BY <1>4, StimulusType DEF TypeOK, Rename
  <2>2. events' \in Seq(Files) /\ Len(events') <= QueueSize
    BY <1>4, EnqueueTypes DEF Rename
  <2>3. content' \in [Files -> Contents \cup {Absent, Empty}]
    BY <1>4 DEF TypeOK, Rename
  <2>4. /\ UNCHANGED <<dir, watched, checkpoint, threads, pubs, overlaps, crashes,
                       faults>>
        /\ changes' \in 0..MaxChanges
    BY <1>4 DEF TypeOK, Rename, Change
  <2>5. QED
    BY <2>1, <2>2, <2>3, <2>4 DEF TypeOK
<1>5. ASSUME NEW f \in Files, Delete(f) PROVE TypeOK'
  BY <1>5 DEF TypeOK, Delete, Change
<1>6. ASSUME NEW t \in Threads, NEW f \in Files, Skip(t, f) PROVE TypeOK'
  <2>1. /\ todo' \in [Threads -> SUBSET Files]
        /\ events' \in Seq(Files) /\ Len(events') <= QueueSize
    BY <1>6, NextFileTypes DEF Skip
  <2>2. QED
    BY <1>6, <2>1, ReturnTypes DEF TypeOK, Skip
<1>7. ASSUME NEW t \in Threads, NEW f \in Files, Read(t, f) PROVE TypeOK'
  <2>1. /\ todo' \in [Threads -> SUBSET Files]
        /\ events' \in Seq(Files) /\ Len(events') <= QueueSize
    BY <1>7, NextFileTypes DEF Read
  <2>2. QED
    BY <1>7, <2>1 DEF TypeOK, Read
<1>8. ASSUME NEW t \in Threads, Seen(t) PROVE TypeOK'
  BY <1>8, ReturnTypes DEF TypeOK, Seen
<1>9. ASSUME NEW t \in Threads, New(t) PROVE TypeOK'
  <2>1. overlaps' \in [Files -> Nat]
    BY <1>9, OthersType DEF TypeOK, Handling, New
  <2>2. QED
    BY <1>9, <2>1 DEF TypeOK, New
<1>10. ASSUME NEW t \in Threads, Publish(t) PROVE TypeOK'
  <2>1. pubs' \in [Stimuli -> Nat]
    BY <1>10, StimulusType DEF TypeOK, Handling, Publish, CountPublished
  <2>2. QED
    BY <1>10, <2>1 DEF TypeOK, Publish
<1>11. ASSUME NEW t \in Threads, PublishFails(t) PROVE TypeOK'
  <2>1. file[t] \in Files /\ data[t] \in Contents
    BY <1>11 DEF Handling, PublishFails
  <2>2. pubs' \in [Stimuli -> Nat]
    BY <1>11, <2>1, StimulusType DEF TypeOK, PublishFails, CountPublished
  <2>3. QED
    BY <1>11, <2>2, ReturnTypes DEF TypeOK, PublishFails, Fault
<1>12. ASSUME NEW t \in Threads, Mark(t) PROVE TypeOK'
  <2>1. hash' \in [Files -> Contents \cup {NoEntry}]
    BY <1>12 DEF TypeOK, Handling, Mark
  <2>2. CASE mu' = t /\ disk' = NoEntries /\ pc' = [pc EXCEPT ![t] = "save"]
             /\ UNCHANGED <<file, data, faults>>
    BY <1>12, <2>1, <2>2 DEF TypeOK, Mark, NoEntries
  <2>3. CASE Fault /\ Return(t) /\ UNCHANGED <<mu, disk>>
    BY <1>12, <2>1, <2>3, ReturnTypes DEF TypeOK, Mark, Fault
  <2>4. QED
    BY <1>12, <2>2, <2>3 DEF Mark
<1>13. ASSUME NEW t \in Threads, Save(t) PROVE TypeOK'
  BY <1>13, ReturnTypes DEF TypeOK, Save, Fault, NoFault
<1>14. ASSUME NEW t \in Threads, List(t) PROVE TypeOK'
  BY <1>14 DEF TypeOK, List
<1>15. ASSUME NEW t \in Threads, EndScan(t) PROVE TypeOK'
  BY <1>15 DEF TypeOK, EndScan
<1>16. CASE Tick
  BY <1>16 DEF TypeOK, Tick, Threads
<1>17. CASE Start
  BY <1>17 DEF TypeOK, Start
<1>18. CASE Crash
  <2>1. events' \in Seq(Files) /\ Len(events') <= QueueSize
    BY <1>18 DEF Crash
  <2>2. /\ hash' \in [Files -> Contents \cup {NoEntry}]
        /\ pc' \in [Threads -> Points]
        /\ todo' \in [Threads -> SUBSET Files]
        /\ file' \in [Threads -> Files \cup {NoFile}]
        /\ data' \in [Threads -> Contents \cup {Empty}]
    BY <1>18 DEF Crash, NoEntries
  <2>3. /\ UNCHANGED <<files, disk, history, changes, faults>>
        /\ watched' = FALSE /\ mu' = NoThread
    BY <1>18 DEF Crash
  <2>4. crashes' \in 0..MaxCrashes
    BY <1>18 DEF TypeOK, Crash
  <2>5. QED
    BY <2>1, <2>2, <2>3, <2>4 DEF TypeOK
<1>19. CASE UNCHANGED vars
  BY <1>19 DEF TypeOK, vars
<1>20. QED
  BY <1>1, <1>2, <1>3, <1>4, <1>5, <1>6, <1>7, <1>8, <1>9, <1>10, <1>11, <1>12,
     <1>13, <1>14, <1>15, <1>16, <1>17, <1>18, <1>19 DEF Next, Loop, HandleFile

\* A goroutine keeps its file and data until it returns, and marks after it has
\* published.
LEMMA NextHandling ==
  TypeOK /\ Handling /\ [Next]_vars =>
    Handling' /\ \A s \in Stimuli : pubs'[s] >= pubs[s]
<1> SUFFICES ASSUME TypeOK, Handling, [Next]_vars
             PROVE  Handling' /\ \A s \in Stimuli : pubs'[s] >= pubs[s]
  OBVIOUS
<1>0. /\ pc \in [Threads -> Points] /\ pubs \in [Stimuli -> Nat]
      /\ file \in [Threads -> Files \cup {NoFile}]
      /\ data \in [Threads -> Contents \cup {Empty}]
      /\ pubs' \in [Stimuli -> Nat]
  BY NextTypeOK DEF TypeOK
<1> DEFINE Goal == Handling' /\ \A s \in Stimuli : pubs'[s] >= pubs[s]
<1>1. ASSUME UNCHANGED <<pc, file, data, pubs>> PROVE Goal
  BY <1>0, <1>1 DEF Handling
<1>2. ASSUME NEW t \in Threads, Return(t), UNCHANGED pubs PROVE Goal
  BY <1>0, <1>2 DEF Handling, Return
<1>3. ASSUME UNCHANGED <<file, data, pubs>>,
             \A u \in Threads :
               \/ pc'[u] = pc[u]
               \/ pc'[u] \in {"off", "wait", "list", "scan"}
               \/ pc'[u] = "publish" /\ pc[u] = "check"
               \/ pc'[u] = "save" /\ pc[u] = "mark"
      PROVE  Goal
  BY <1>0, <1>3 DEF Handling
<1>4. ASSUME MakeDir \/ \E f \in Files :
               \/ Create(f) \/ Delete(f)
               \/ \E v \in Contents : Write(f, v)
               \/ \E g \in Files : Rename(f, g)
      PROVE  Goal
  BY <1>1, <1>4 DEF MakeDir, Create, Delete, Write, Rename, threads, history
<1>5. ASSUME NEW t \in Threads, Seen(t) \/ (\E f \in Files : Skip(t, f)) PROVE Goal
  BY <1>2, <1>5 DEF Seen, Skip, history
<1>6. ASSUME NEW t \in Threads, NEW f \in Files, Read(t, f) PROVE Goal
  BY <1>0, <1>6 DEF Handling, Read, history
<1>7. ASSUME NEW t \in Threads, New(t) \/ List(t) \/ EndScan(t) PROVE Goal
  BY <1>0, <1>3, <1>7 DEF New, List, EndScan, history
<1>8. ASSUME NEW t \in Threads, Publish(t) PROVE Goal
  <2>1. /\ file[t] \in Files /\ data[t] \in Contents
        /\ pc' = [pc EXCEPT ![t] = "mark"] /\ UNCHANGED <<file, data>>
    BY <1>8 DEF Handling, Publish
  <2>2. Stimulus(file[t], data[t]) \in Stimuli
    BY <2>1, StimulusType
  <2>3. /\ pubs'[Stimulus(file[t], data[t])] > 0
        /\ \A s \in Stimuli : pubs'[s] >= pubs[s]
    BY <1>0, <1>8, <2>2 DEF Publish, CountPublished
  <2>4. \A u \in Threads : pc[u] = "mark" => Stimulus(file[u], data[u]) \in Stimuli
    BY StimulusType DEF Handling
  <2>5. \A u \in Threads : pc'[u] = "mark" => pubs'[Stimulus(file[u], data[u])] > 0
    BY <1>0, <2>1, <2>3, <2>4 DEF Handling
  <2>6. QED
    BY <1>0, <2>1, <2>3, <2>5 DEF Handling
<1>9. ASSUME NEW t \in Threads, PublishFails(t) PROVE Goal
  <2>1. file[t] \in Files /\ data[t] \in Contents
    BY <1>9 DEF Handling, PublishFails
  <2>2. Stimulus(file[t], data[t]) \in Stimuli
    BY <2>1, StimulusType
  <2>3. \A s \in Stimuli : pubs'[s] >= pubs[s]
    BY <1>0, <1>9, <2>2 DEF PublishFails, CountPublished
  <2>4. \A u \in Threads : pc[u] = "mark" => pubs'[Stimulus(file[u], data[u])] > 0
    <3>1. \A u \in Threads : pc[u] = "mark" => Stimulus(file[u], data[u]) \in Stimuli
      BY StimulusType DEF Handling
    <3>2. QED
      BY <1>0, <2>3, <3>1 DEF Handling
  <2>5. Return(t)
    BY <1>9 DEF PublishFails
  <2>6. QED
    BY <1>0, <2>3, <2>4, <2>5 DEF Handling, Return
<1>10. ASSUME NEW t \in Threads, Mark(t) PROVE Goal
  <2>1. UNCHANGED pubs /\ pc[t] = "mark"
    BY <1>10 DEF Mark, history
  <2>2. CASE Return(t)
    BY <1>2, <2>1, <2>2
  <2>3. CASE pc' = [pc EXCEPT ![t] = "save"] /\ UNCHANGED <<file, data>>
    BY <1>0, <1>3, <2>1, <2>3
  <2>4. QED
    BY <1>10, <2>2, <2>3 DEF Mark
<1>11. ASSUME NEW t \in Threads, Save(t) PROVE Goal
  BY <1>2, <1>11 DEF Save, history
<1>12. CASE Tick \/ Start
  BY <1>0, <1>3, <1>12 DEF Tick, Start, history
<1>13. CASE Crash
  BY <1>0, <1>13 DEF Handling, Crash, history
<1>14. CASE UNCHANGED vars
  BY <1>1, <1>14 DEF vars, threads, history
<1>15. QED
  BY <1>4, <1>5, <1>6, <1>7, <1>8, <1>9, <1>10, <1>11, <1>12, <1>13, <1>14
  DEF Next, Loop, HandleFile

\* An entry of the checkpoint is set by Mark, or read from what Mark wrote.
LEMMA NextMarkedIsPublished == IInv /\ [Next]_vars => MarkedIsPublished'
<1> SUFFICES ASSUME IInv, [Next]_vars,
                    NEW f \in Files, NEW v \in {disk'[f], hash'[f]} \cap Contents
             PROVE  pubs'[Stimulus(f, v)] > 0
  BY DEF MarkedIsPublished
<1>1. /\ Stimulus(f, v) \in Stimuli
      /\ pubs'[Stimulus(f, v)] >= pubs[Stimulus(f, v)]
      /\ pubs[Stimulus(f, v)] \in Nat /\ pubs'[Stimulus(f, v)] \in Nat
  BY StimulusType, NextHandling, NextTypeOK DEF IInv, TypeOK
<1>2. CASE pubs[Stimulus(f, v)] > 0
  BY <1>1, <1>2
<1>3. CASE v \in {disk[f], hash[f]}
  BY <1>2, <1>3 DEF IInv, MarkedIsPublished
<1>4. ASSUME NEW t \in Threads, Mark(t) PROVE pubs[Stimulus(f, v)] > 0
  <2>1. CASE v \in {disk[f], hash[f]}
    BY <2>1 DEF IInv, MarkedIsPublished
  <2>2. CASE v \notin {disk[f], hash[f]}
    <3>1. disk' \in {disk, NoEntries} /\ hash' = [hash EXCEPT ![file[t]] = data[t]]
      BY <1>4 DEF Mark
    <3>2. f = file[t] /\ v = data[t]
      BY <2>2, <3>1, NamesAssumption DEF IInv, TypeOK, NoEntries
    <3>3. QED
      BY <1>4, <3>2 DEF IInv, Handling, Mark
  <2>3. QED
    BY <2>1, <2>2
<1>5. CASE ~\E t \in Threads : Mark(t)
  <2>1. disk'[f] \in {disk[f], hash[f], NoEntry}
    BY <1>5 DEF Next, Loop, HandleFile, MakeDir, Create, Write, Rename, Delete, Skip,
                Read, Seen, New, Publish, PublishFails, Save, List, EndScan, Tick,
                Start, Crash, vars, checkpoint
  <2>2. hash'[f] \in {disk[f], hash[f], NoEntry}
    BY <1>5 DEF Next, Loop, HandleFile, MakeDir, Create, Write, Rename, Delete, Skip,
                Read, Seen, New, Publish, PublishFails, Save, List, EndScan, Tick,
                Start, Crash, vars, checkpoint, NoEntries
  <2>3. QED
    BY <1>3, <2>1, <2>2, NamesAssumption
<1>6. QED
  BY <1>2, <1>4, <1>5

\* Only Crash turns the service off, and then all of it.
LEMMA NextOff == TypeOK /\ Off /\ [Next]_vars => Off'
<1> SUFFICES ASSUME TypeOK, Off, [Next]_vars, pc'["events"] = "off"
             PROVE  (\A t \in Threads : pc'[t] = "off") /\ hash' = NoEntries
  BY DEF Off
<1>1. pc \in [Threads -> Points] /\ "events" \in Threads
  BY DEF TypeOK, Threads
<1>2. ASSUME NEW t \in Threads, pc[t] # "off", pc' = [pc EXCEPT ![t] = pc'[t]],
             t = "events" => pc'[t] # "off"
      PROVE  FALSE
  <2>1. pc["events"] = "off"
    BY <1>1, <1>2
  <2>2. QED
    BY <1>2, <2>1 DEF Off
<1>3. CASE UNCHANGED <<pc, hash>>
  BY <1>3 DEF Off
<1>4. ASSUME NEW t \in Threads, Loop(t) PROVE FALSE
  <2>1. /\ pc[t] # "off" /\ pc' = [pc EXCEPT ![t] = pc'[t]]
        /\ t = "events" => pc'[t] # "off"
    BY <1>1, <1>4 DEF Loop, HandleFile, Skip, Next1, Read, Seen, New, Publish,
                      PublishFails, Mark, Save, List, EndScan, Return
  <2>2. QED
    BY <1>2, <2>1
<1>5. CASE Tick
  <2>1. pc' = [pc EXCEPT !["reconcile"] = "list"] /\ pc["reconcile"] # "off"
    BY <1>5 DEF Tick
  <2>2. "reconcile" \in Threads
    BY DEF Threads
  <2>3. pc["events"] = "off"
    BY <1>1, <2>1
  <2>4. QED
    BY <2>1, <2>2, <2>3 DEF Off
<1>6. CASE Start
  BY <1>1, <1>6 DEF Start
<1>7. CASE Crash
  BY <1>7 DEF Crash
<1>8. CASE MakeDir \/ \E f \in Files :
             \/ Create(f) \/ Delete(f)
             \/ \E v \in Contents : Write(f, v)
             \/ \E g \in Files : Rename(f, g)
  BY <1>3, <1>8 DEF MakeDir, Create, Delete, Write, Rename, threads, checkpoint
<1>9. QED
  BY <1>3, <1>4, <1>5, <1>6, <1>7, <1>8 DEF Next, vars, threads, checkpoint

\* A goroutine enters or leaves the set of those that publish.
LEMMA PublishingChange ==
  ASSUME NEW f, NEW v, NEW t \in Threads,
         \A u \in Threads \ {t} :
           u \in Publishing(f, v)' <=> u \in Publishing(f, v)
  PROVE  Cardinality(Publishing(f, v)') = Cardinality(Publishing(f, v))
           + (IF t \in Publishing(f, v)' THEN 1 ELSE 0)
           - (IF t \in Publishing(f, v) THEN 1 ELSE 0)
<1>0. Publishing(f, v) \subseteq Threads /\ Publishing(f, v)' \subseteq Threads
  BY DEF Publishing
<1>1. IsFiniteSet(Publishing(f, v)) /\ Cardinality(Publishing(f, v)) \in Nat
  BY PublishingType
<1>2. CASE t \in Publishing(f, v)' /\ t \notin Publishing(f, v)
  <2>1. Publishing(f, v)' = Publishing(f, v) \cup {t}
    BY <1>0, <1>2
  <2>2. QED
    BY <1>1, <1>2, <2>1, FS_AddElement
<1>3. CASE t \notin Publishing(f, v)' /\ t \in Publishing(f, v)
  <2>1. Publishing(f, v)' = Publishing(f, v) \ {t}
    BY <1>0, <1>3
  <2>2. QED
    BY <1>1, <1>3, <2>1, FS_RemoveElement
<1>4. CASE t \in Publishing(f, v)' <=> t \in Publishing(f, v)
  <2>1. Publishing(f, v)' = Publishing(f, v)
    BY <1>0, <1>4
  <2>2. QED
    BY <1>1, <1>4, <2>1
<1>5. QED
  BY <1>2, <1>3, <1>4

\* A step adds to what is published, under way or due only what it pays for.
LEMMA NextAccounted == TypeOK /\ Handling /\ Off /\ Accounted /\ [Next]_vars => Accounted'
<1> SUFFICES ASSUME TypeOK, Handling, Off, Accounted, [Next]_vars,
                    NEW f \in Files, NEW v \in Contents
             PROVE  pubs'[Stimulus(f, v)] + Cardinality(Publishing(f, v)') + Due(f, v)'
                      <= written'[Stimulus(f, v)] + crashes' + faults' + overlaps'[f]
  BY DEF Accounted
<1> DEFINE s == Stimulus(f, v)
           P == Cardinality(Publishing(f, v))
           D == Due(f, v)
           Goal == pubs'[s] + P' + D' <= written'[s] + crashes' + faults' + overlaps'[f]
<1>1. /\ s \in Stimuli /\ P \in Nat /\ P' \in Nat /\ D \in 0..1 /\ D' \in 0..1
      /\ pubs[s] \in Nat /\ written[s] \in Nat /\ overlaps[f] \in Nat
      /\ pubs'[s] \in Nat /\ written'[s] \in Nat /\ overlaps'[f] \in Nat
      /\ crashes \in Nat /\ faults \in Nat /\ crashes' \in Nat /\ faults' \in Nat
  <2>1. s \in Stimuli
    BY StimulusType
  <2>2. TypeOK'
    BY NextTypeOK
  <2>3. D \in 0..1 /\ D' \in 0..1
    BY DEF Due
  <2>4. P \in Nat
    BY PublishingType
  <2>5. P' \in Nat
    <3>1. Publishing(f, v)' \subseteq Threads
      BY DEF Publishing
    <3>2. QED
      BY <3>1, ThreadsFinite, FS_Subset, FS_CardinalityType
  <2>6. QED
    BY <2>1, <2>2, <2>3, <2>4, <2>5, BoundsAssumption DEF TypeOK
<1>2. pubs[s] + P + D <= written[s] + crashes + faults + overlaps[f]
  BY DEF Accounted
<1>3. /\ pc \in [Threads -> Points] /\ content \in [Files -> Contents \cup {Absent, Empty}]
      /\ file \in [Threads -> Files \cup {NoFile}]
      /\ data \in [Threads -> Contents \cup {Empty}]
      /\ hash \in [Files -> Contents \cup {NoEntry}]
      /\ pubs \in [Stimuli -> Nat] /\ written \in [Stimuli -> Nat]
      /\ overlaps \in [Files -> Nat]
  BY DEF TypeOK
<1> HIDE DEF s, P, D
<1>4. ASSUME UNCHANGED history, UNCHANGED <<crashes, faults>>, P' = P, D' <= D PROVE Goal
  BY <1>1, <1>2, <1>4 DEF history
<1>5. ASSUME UNCHANGED <<pc, file, data>> PROVE P' = P
  BY <1>5 DEF P, Publishing
<1>6. ASSUME \A u \in Threads :
               \/ pc'[u] = pc[u] /\ file'[u] = file[u] /\ data'[u] = data[u]
               \/ {pc[u], pc'[u]} \cap {"publish", "mark"} = {}
      PROVE  /\ P' = P
             /\ UNCHANGED <<content, hash>> => D' = D
  <2>1. Publishing(f, v)' = Publishing(f, v)
    BY <1>6 DEF Publishing
  <2>2. \A u \in Threads, g \in Files :
          /\ Holds(u, g)' <=> Holds(u, g)
          /\ Holds(u, g) => data'[u] = data[u]
    BY <1>6 DEF Holds
  <2>3. Rival(f, v)' <=> Rival(f, v)
    BY <2>2 DEF Rival
  <2>4. UNCHANGED hash => (Known(f, v)' <=> Known(f, v))
    BY <2>2 DEF Known
  <2>5. QED
    BY <2>1, <2>3, <2>4 DEF P, D, Due
<1>7. ASSUME content'[f] # v \/ UNCHANGED <<content, checkpoint>>, UNCHANGED threads
      PROVE  P' = P /\ D' <= D
  <2>1. P' = P
    BY <1>5, <1>7 DEF threads
  <2>2. CASE content'[f] # v
    BY <1>1, <2>1, <2>2 DEF D, Due
  <2>3. CASE UNCHANGED <<content, checkpoint>>
    BY <1>1, <1>6, <1>7, <2>3 DEF threads, checkpoint
  <2>4. QED
    BY <1>7, <2>1, <2>2, <2>3
<1>8. ASSUME UNCHANGED <<pc, file, data, hash>>, content'[f] = content[f] PROVE P' = P /\ D' = D
  <2>1. (Rival(f, v)' <=> Rival(f, v)) /\ (Known(f, v)' <=> Known(f, v))
    BY <1>8 DEF Rival, Known, Holds
  <2>2. QED
    BY <1>5, <1>8, <2>1 DEF D, Due
<1>9. ASSUME MakeDir PROVE Goal
  <2>1. UNCHANGED <<content, hash, pc, file, data, history, crashes, faults>>
    BY <1>9 DEF MakeDir, threads, checkpoint, budgets
  <2>2. QED
    BY <1>1, <1>4, <1>8, <2>1
<1>10. ASSUME NEW g \in Files, Create(g) PROVE Goal
  <2>1. UNCHANGED <<pc, file, data, hash>>
        /\ content' = [content EXCEPT ![g] = Empty]
        /\ UNCHANGED <<threads, history, crashes, faults>>
    BY <1>10 DEF Create, threads, checkpoint
  <2>2. CASE g = f
    <3>1. content'[f] # v
      BY <1>3, <2>1, <2>2, NamesAssumption
    <3>2. QED
      BY <1>4, <1>7, <2>1, <3>1
  <2>3. CASE g # f
    BY <1>1, <1>3, <1>4, <1>8, <2>1, <2>3
  <2>4. QED
    BY <2>2, <2>3
<1>11. ASSUME NEW g \in Files, Delete(g) PROVE Goal
  <2>1. UNCHANGED <<pc, file, data, hash>>
        /\ content' = [content EXCEPT ![g] = Absent]
        /\ UNCHANGED <<threads, history, crashes, faults>>
    BY <1>11 DEF Delete, threads, checkpoint
  <2>2. CASE g = f
    <3>1. content'[f] # v
      BY <1>3, <2>1, <2>2, NamesAssumption
    <3>2. QED
      BY <1>4, <1>7, <2>1, <3>1
  <2>3. CASE g # f
    BY <1>1, <1>3, <1>4, <1>8, <2>1, <2>3
  <2>4. QED
    BY <2>2, <2>3
<1>12. ASSUME NEW g \in Files, NEW w \in Contents,
              content'[g] = w, \A h \in Files \ {g} : content'[h] \in {content[h], Absent},
              written' = [written EXCEPT ![Stimulus(g, w)] = @ + 1],
              UNCHANGED <<pc, file, data, checkpoint, pubs, overlaps, crashes, faults>>
       PROVE  Goal
  <2>1. P' = P
    BY <1>5, <1>12
  <2>2. Stimulus(g, w) = s <=> g = f /\ w = v
    BY DEF s, Stimulus
  <2>3. CASE g = f /\ w = v
    <3>1. written'[s] = written[s] + 1
      BY <1>1, <1>3, <1>12, <2>2, <2>3
    <3>2. QED
      BY <1>1, <1>2, <1>12, <2>1, <3>1
  <2>4. CASE g = f /\ w # v
    <3>1. written'[s] = written[s]
      BY <1>1, <1>3, <1>12, <2>2, <2>4
    <3>2. D' = 0
      BY <1>12, <2>4 DEF D, Due
    <3>3. QED
      BY <1>1, <1>2, <1>12, <2>1, <3>1, <3>2
  <2>5. CASE g # f
    <3>1. written'[s] = written[s]
      BY <1>1, <1>3, <1>12, <2>2, <2>5
    <3>2. content'[f] = content[f] \/ content'[f] # v
      BY <1>12, <2>5, NamesAssumption
    <3>3. D' <= D
      BY <1>1, <1>8, <1>12, <3>2 DEF D, Due, checkpoint
    <3>4. QED
      BY <1>1, <1>2, <1>12, <2>1, <3>1, <3>3
  <2>6. QED
    BY <2>3, <2>4, <2>5
<1>13. ASSUME NEW g \in Files, NEW w \in Contents, Write(g, w) PROVE Goal
  BY <1>3, <1>12, <1>13 DEF Write, threads
<1>14. ASSUME NEW g \in Files, NEW h \in Files, Rename(g, h) PROVE Goal
  <2>1. content[g] \in Contents /\ h # g
    BY <1>14 DEF Rename
  <2>2. /\ content' = [content EXCEPT ![g] = Absent, ![h] = content[g]]
        /\ written' = [written EXCEPT ![Stimulus(h, content[g])] = @ + 1]
        /\ UNCHANGED <<pc, file, data, checkpoint, pubs, overlaps, crashes, faults>>
    BY <1>14 DEF Rename, threads
  <2>3. /\ content'[h] = content[g]
        /\ \A k \in Files \ {h} : content'[k] \in {content[k], Absent}
    BY <1>3, <2>1, <2>2
  <2>4. QED
    BY <1>12, <2>1, <2>2, <2>3
<1>15. ASSUME NEW t \in Threads, Return(t), pc[t] \notin {"publish", "mark"},
              UNCHANGED <<content, hash, history, crashes, faults>>
       PROVE  Goal
  <2>1. \A u \in Threads :
          \/ pc'[u] = pc[u] /\ file'[u] = file[u] /\ data'[u] = data[u]
          \/ {pc[u], pc'[u]} \cap {"publish", "mark"} = {}
    BY <1>3, <1>15 DEF Return
  <2>2. QED
    BY <1>1, <1>4, <1>6, <1>15, <2>1
<1>16. ASSUME NEW t \in Threads, NEW g \in Files, Skip(t, g) PROVE Goal
  BY <1>15, <1>16 DEF Skip, Next1, files, checkpoint, budgets
<1>17. ASSUME NEW t \in Threads, Seen(t) PROVE Goal
  BY <1>15, <1>17 DEF Seen, files, checkpoint, budgets
<1>18. ASSUME NEW t \in Threads,
              \/ \E g \in Files : Read(t, g)
              \/ List(t) \/ EndScan(t)
       PROVE  Goal
  <2>1. \A u \in Threads :
          \/ pc'[u] = pc[u] /\ file'[u] = file[u] /\ data'[u] = data[u]
          \/ {pc[u], pc'[u]} \cap {"publish", "mark"} = {}
    BY <1>3, <1>18 DEF Read, Next1, List, EndScan
  <2>2. UNCHANGED <<content, hash, history, crashes, faults>>
    BY <1>18 DEF Read, List, EndScan, files, checkpoint, budgets
  <2>3. QED
    BY <1>1, <1>4, <1>6, <2>1, <2>2
<1>19. ASSUME Tick PROVE Goal
  <2>1. \A u \in Threads :
          \/ pc'[u] = pc[u] /\ file'[u] = file[u] /\ data'[u] = data[u]
          \/ {pc[u], pc'[u]} \cap {"publish", "mark"} = {}
    BY <1>3, <1>19 DEF Tick
  <2>2. UNCHANGED <<content, hash, history, crashes, faults>>
    BY <1>19 DEF Tick, files, checkpoint, budgets
  <2>3. QED
    BY <1>1, <1>4, <1>6, <2>1, <2>2
<1>20. ASSUME NEW t \in Threads, New(t) PROVE Goal
  <2>1. /\ pc[t] = "check" /\ hash[file[t]] # data[t]
        /\ pc' = [pc EXCEPT ![t] = "publish"]
        /\ UNCHANGED <<content, hash, file, data, pubs, written, crashes, faults>>
        /\ overlaps' = [overlaps EXCEPT ![file[t]] = @ + Cardinality(Others(t))
                          + IF content[file[t]] = data[t] THEN 0 ELSE 1]
    BY <1>20 DEF New, IsNew, files, checkpoint, budgets
  <2>2. file[t] \in Files /\ data[t] \in Contents
    BY <2>1 DEF Handling
  <2>3. Cardinality(Others(t)) \in Nat
    BY OthersType
  <2>4. P' = P + (IF file[t] = f /\ data[t] = v THEN 1 ELSE 0)
    <3>1. \A u \in Threads \ {t} : u \in Publishing(f, v)' <=> u \in Publishing(f, v)
      BY <1>3, <2>1 DEF Publishing
    <3>2. /\ t \notin Publishing(f, v)
          /\ t \in Publishing(f, v)' <=> file[t] = f /\ data[t] = v
      BY <1>3, <2>1 DEF Publishing
    <3>3. QED
      BY <1>1, <3>1, <3>2, PublishingChange DEF P
  <2>5. \A u \in Threads : Holds(u, f)' <=> (Holds(u, f) \/ (u = t /\ file[t] = f))
    BY <1>3, <2>1 DEF Holds
  <2>6. CASE file[t] # f
    <3>1. (Rival(f, v)' <=> Rival(f, v)) /\ (Known(f, v)' <=> Known(f, v))
      BY <2>1, <2>5, <2>6 DEF Rival, Known
    <3>2. D' = D
      BY <2>1, <3>1 DEF D, Due
    <3>3. overlaps'[f] = overlaps[f]
      BY <1>3, <2>1, <2>6
    <3>4. QED
      BY <1>1, <1>2, <2>1, <2>4, <2>6, <3>2, <3>3
  <2>7. CASE file[t] = f /\ content[f] # data[t]
    <3>1. overlaps'[f] = overlaps[f] + Cardinality(Others(t)) + 1
      BY <1>3, <2>1, <2>3, <2>7
    <3>2. data[t] = v => D' = 0
      BY <2>1, <2>7 DEF D, Due
    <3>3. QED
      BY <1>1, <1>2, <2>1, <2>3, <2>4, <3>1, <3>2
  <2>8. CASE file[t] = f /\ content[f] = data[t] /\ data[t] # v
    <3>1. D' = 0
      BY <2>1, <2>8 DEF D, Due
    <3>2. overlaps'[f] = overlaps[f] + Cardinality(Others(t))
      BY <1>3, <2>1, <2>3, <2>8
    <3>3. QED
      BY <1>1, <1>2, <2>1, <2>3, <2>4, <2>8, <3>1, <3>2
  <2>9. CASE file[t] = f /\ content[f] = data[t] /\ data[t] = v
    <3>1. overlaps'[f] = overlaps[f] + Cardinality(Others(t))
      BY <1>3, <2>1, <2>3, <2>9
    <3>2. Rival(f, v)' <=> Rival(f, v)
      BY <2>1, <2>5, <2>9 DEF Rival
    <3>3. Known(f, v)'
      BY <2>1, <2>5, <2>9 DEF Known
    <3>4. D' <= D
      BY <1>1, <2>1, <3>2, <3>3 DEF D, Due
    <3>5. Others(t) = {u \in Threads : Holds(u, f)}
      BY <2>1, <2>9 DEF Others, Holds
    <3>6. CASE Others(t) = {}
      <4>1. ~Rival(f, v) /\ ~Known(f, v)
        BY <2>1, <2>9, <3>5, <3>6 DEF Rival, Known
      <4>2. D = 1 /\ D' = 0
        BY <2>9, <3>2, <3>3, <4>1 DEF D, Due
      <4>3. QED
        BY <1>1, <1>2, <2>1, <2>3, <2>4, <2>9, <3>1, <4>2
    <3>7. CASE Others(t) # {}
      <4>1. IsFiniteSet(Others(t))
        BY ThreadsFinite, FS_Subset DEF Others
      <4>2. Cardinality(Others(t)) # 0
        BY <3>7, <4>1, FS_EmptySet
      <4>3. QED
        BY <1>1, <1>2, <2>1, <2>3, <2>4, <2>9, <3>1, <3>4, <4>2
    <3>8. QED
      BY <3>6, <3>7
  <2>10. QED
    BY <2>6, <2>7, <2>8, <2>9
<1>21. ASSUME NEW t \in Threads, pc[t] = "publish",
              \A u \in Threads \ {t} :
                pc'[u] = pc[u] /\ file'[u] = file[u] /\ data'[u] = data[u],
              pc'[t] # "publish"
       PROVE  P' = P - (IF file[t] = f /\ data[t] = v THEN 1 ELSE 0)
  <2>1. \A u \in Threads \ {t} : u \in Publishing(f, v)' <=> u \in Publishing(f, v)
    BY <1>21 DEF Publishing
  <2>2. /\ t \notin Publishing(f, v)'
        /\ t \in Publishing(f, v) <=> file[t] = f /\ data[t] = v
    BY <1>21 DEF Publishing
  <2>3. QED
    BY <1>1, <2>1, <2>2, PublishingChange DEF P
<1>22. ASSUME NEW t \in Threads, CountPublished(t), file[t] \in Files, data[t] \in Contents
       PROVE  pubs'[s] = pubs[s] + (IF file[t] = f /\ data[t] = v THEN 1 ELSE 0)
  <2>1. Stimulus(file[t], data[t]) = s <=> file[t] = f /\ data[t] = v
    BY DEF s, Stimulus
  <2>2. QED
    BY <1>1, <1>3, <1>22, <2>1 DEF CountPublished
<1>23. ASSUME NEW t \in Threads, Publish(t) PROVE Goal
  <2>1. /\ pc[t] = "publish" /\ pc' = [pc EXCEPT ![t] = "mark"]
        /\ UNCHANGED <<content, hash, file, data, written, overlaps, crashes, faults>>
        /\ CountPublished(t)
    BY <1>23 DEF Publish, files, checkpoint, budgets
  <2>2. file[t] \in Files /\ data[t] \in Contents
    BY <2>1 DEF Handling
  <2>3. P' = P - (IF file[t] = f /\ data[t] = v THEN 1 ELSE 0)
    BY <1>3, <1>21, <2>1
  <2>4. \A u \in Threads : Holds(u, f)' <=> Holds(u, f)
    BY <1>3, <2>1 DEF Holds
  <2>5. (Rival(f, v)' <=> Rival(f, v)) /\ (Known(f, v)' <=> Known(f, v))
    BY <2>1, <2>4 DEF Rival, Known
  <2>6. D' = D
    BY <2>1, <2>5 DEF D, Due
  <2>7. QED
    BY <1>1, <1>2, <1>22, <2>1, <2>2, <2>3, <2>6
<1>24. ASSUME NEW t \in Threads, PublishFails(t) PROVE Goal
  <2>1. /\ pc[t] = "publish" /\ Return(t) /\ faults' = faults + 1
        /\ UNCHANGED <<written, overlaps, crashes>>
        /\ CountPublished(t) \/ UNCHANGED pubs
    BY <1>24 DEF PublishFails, Fault
  <2>2. file[t] \in Files /\ data[t] \in Contents
    BY <2>1 DEF Handling
  <2>3. P' = P - (IF file[t] = f /\ data[t] = v THEN 1 ELSE 0)
    BY <1>3, <1>21, <2>1 DEF Return
  <2>4. pubs'[s] <= pubs[s] + (IF file[t] = f /\ data[t] = v THEN 1 ELSE 0)
    BY <1>1, <1>22, <2>1, <2>2
  <2>5. QED
    BY <1>1, <1>2, <2>1, <2>3, <2>4
<1>25. ASSUME NEW t \in Threads, Mark(t) PROVE Goal
  <2>1. /\ pc[t] = "mark" /\ hash' = [hash EXCEPT ![file[t]] = data[t]]
        /\ UNCHANGED <<content, pubs, written, overlaps, crashes>>
    BY <1>25 DEF Mark, files, history
  <2>2. file[t] \in Files /\ data[t] \in Contents
    BY <2>1 DEF Handling
  <2>3. /\ \A u \in Threads \ {t} :
             pc'[u] = pc[u] /\ file'[u] = file[u] /\ data'[u] = data[u]
        /\ pc'[t] \notin {"publish", "mark"}
    BY <1>3, <1>25 DEF Mark, Return
  <2>4. P' = P
    <3>1. Publishing(f, v)' = Publishing(f, v)
      BY <2>1, <2>3 DEF Publishing
    <3>2. QED
      BY <3>1 DEF P
  <2>5. CASE Fault
    BY <1>1, <1>2, <2>1, <2>4, <2>5 DEF Fault
  <2>6. CASE UNCHANGED <<file, data, faults>>
    <3>1. \A u \in Threads : Holds(u, f)' <=> Holds(u, f) /\ u # t
      BY <2>3 DEF Holds
    <3>2. D' <= D
      <4>1. CASE file[t] # f
        <5>1. hash'[f] = hash[f]
          BY <1>3, <2>1, <4>1
        <5>2. ~Holds(t, f)
          BY <4>1 DEF Holds
        <5>3. (Rival(f, v)' <=> Rival(f, v)) /\ (Known(f, v)' <=> Known(f, v))
          BY <2>6, <3>1, <5>1, <5>2 DEF Rival, Known
        <5>4. QED
          BY <1>1, <2>1, <5>3 DEF D, Due
      <4>2. CASE file[t] = f /\ data[t] = v
        <5>1. Known(f, v)'
          BY <1>3, <2>1, <4>2 DEF Known
        <5>2. Rival(f, v)' => Rival(f, v)
          BY <2>6, <3>1 DEF Rival
        <5>3. QED
          BY <1>1, <2>1, <5>1, <5>2 DEF D, Due
      <4>3. CASE file[t] = f /\ data[t] # v
        <5>1. Rival(f, v)
          BY <2>1, <4>3 DEF Rival, Holds
        <5>2. QED
          BY <1>1, <2>1, <5>1 DEF D, Due
      <4>4. QED
        BY <4>1, <4>2, <4>3
    <3>3. QED
      BY <1>1, <1>2, <2>1, <2>4, <2>6, <3>2
  <2>7. QED
    BY <1>25, <2>5, <2>6 DEF Mark
<1>26. ASSUME NEW t \in Threads, Save(t) PROVE Goal
  <2>1. /\ pc[t] = "save" /\ Return(t) /\ UNCHANGED <<content, hash, history, crashes>>
        /\ faults' \in {faults, faults + 1}
    BY <1>26 DEF Save, Fault, NoFault, files
  <2>2. CASE faults' = faults
    BY <1>15, <2>1, <2>2
  <2>3. CASE faults' = faults + 1
    <3>1. \A u \in Threads :
            \/ pc'[u] = pc[u] /\ file'[u] = file[u] /\ data'[u] = data[u]
            \/ {pc[u], pc'[u]} \cap {"publish", "mark"} = {}
      BY <1>3, <2>1 DEF Return
    <3>2. P' = P /\ D' = D
      BY <1>6, <2>1, <3>1
    <3>3. QED
      BY <1>1, <1>2, <2>1, <2>3, <3>2 DEF history
  <2>4. QED
    BY <2>1, <2>2, <2>3
<1>27. ASSUME Start PROVE Goal
  <2>1. /\ hash = NoEntries /\ \A u \in Threads : pc[u] = "off"
        /\ UNCHANGED <<content, history, crashes, faults>>
        /\ pc' = [u \in Threads |-> IF u = "first" THEN "list" ELSE "wait"]
    BY <1>27 DEF Start, Off, Threads, files, budgets
  <2>2. P' = P
    <3>1. \A u \in Threads : {pc[u], pc'[u]} \cap {"publish", "mark"} = {}
      BY <2>1
    <3>2. QED
      BY <1>6, <3>1
  <2>3. ~Known(f, v) /\ ~Rival(f, v)'
    BY <2>1, NamesAssumption DEF Known, Rival, Holds, NoEntries
  <2>4. D' <= D
    BY <1>1, <2>1, <2>3 DEF D, Due
  <2>5. QED
    BY <1>4, <2>1, <2>2, <2>4
<1>28. ASSUME Crash PROVE Goal
  <2>1. /\ crashes' = crashes + 1 /\ UNCHANGED <<history, faults>>
        /\ pc' = [u \in Threads |-> "off"]
    BY <1>28 DEF Crash
  <2>2. Publishing(f, v)' = {}
    BY <2>1 DEF Publishing
  <2>3. P' = 0
    BY <2>2, FS_EmptySet DEF P
  <2>4. QED
    BY <1>1, <1>2, <2>1, <2>3 DEF history
<1>29. ASSUME UNCHANGED vars PROVE Goal
  BY <1>1, <1>4, <1>8, <1>29 DEF vars, files, threads, checkpoint, budgets
<1>30. QED
  <2>1. Goal
    BY <1>9, <1>10, <1>11, <1>13, <1>14, <1>16, <1>17, <1>18, <1>19, <1>20, <1>23,
       <1>24, <1>25, <1>26, <1>27, <1>28, <1>29 DEF Next, Loop, HandleFile
  <2>2. QED
    BY <2>1 DEF s, P, D

LEMMA Invariance == Spec => []IInv
<1>1. IInv /\ [Next]_vars => IInv'
  BY NextTypeOK, NextHandling, NextMarkedIsPublished, NextOff, NextAccounted DEF IInv
<1>2. QED
  BY InitIInv, <1>1, PTL DEF Spec

-----------------------------------------------------------------------------

\* The three goroutines, the queue and the checkpoint keep their shape
\* (Watcher, Checkpoint).
THEOREM TypeCorrect == Spec => []TypeOK
<1>1. IInv => TypeOK
  BY DEF IInv
<1>2. QED
  BY <1>1, Invariance, PTL

\* Whichever goroutine marks a content, and whatever fails: the checkpoint
\* never has a content that was not published (handleFile).
THEOREM MarkedIsPublishedHolds == Spec => []MarkedIsPublished
<1>1. IInv => MarkedIsPublished
  BY DEF IInv
<1>2. QED
  BY <1>1, Invariance, PTL

\* Whatever the goroutines do to one another: a content is published again only
\* for a write, a crash, a fault or an overlap (handleFile, Checkpoint).
THEOREM RepublishedForCauseHolds == Spec => []RepublishedForCause
<1>1. IInv => RepublishedForCause
  <2> SUFFICES ASSUME IInv, NEW f \in Files, NEW v \in Contents
               PROVE  pubs[Stimulus(f, v)]
                        <= written[Stimulus(f, v)] + crashes + faults + overlaps[f]
    BY DEF RepublishedForCause
  <2>1. /\ pubs[Stimulus(f, v)] \in Nat /\ written[Stimulus(f, v)] \in Nat
        /\ crashes \in Nat /\ faults \in Nat /\ overlaps[f] \in Nat
    BY StimulusType, BoundsAssumption DEF IInv, TypeOK
  <2>2. Cardinality(Publishing(f, v)) \in Nat /\ Due(f, v) \in 0..1
    BY PublishingType DEF Due
  <2>3. QED
    BY <2>1, <2>2 DEF IInv, Accounted
<1>2. QED
  BY <1>1, Invariance, PTL
=============================================================================
