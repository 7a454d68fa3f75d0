------------------------- MODULE RawInputLogProofs -------------------------
(***************************************************************************)
(* For any set of stimuli, any log size and any bounds on what goes wrong: *)
(* memory-svc acknowledges a stimulus only when it will not lose it, and   *)
(* marks a log line synced only when its row is there.                     *)
(***************************************************************************)
EXTENDS RawInputLog, TLAPS

Handling == {"rotate", "check", "insert", "mark", "ack"}

\* The process works on a stimulus, and the writer on a parseable one.
InHand ==
  /\ pc \in Handling \cup {"replayMark"} => msg \in Stimuli
  /\ pc \in Handling \ {"ack"} => msg \notin Malformed

\* A stimulus the log or Postgres holds, or the log has lost in one of the two
\* known ways.
Kept(m) == m \in rawInputs \/ Stim(m) \in Logged \/ m \in overwritten \cup garbled

\* From the append on, the stimulus in hand is kept: the ACK may be sent.
HandKept == pc \in Handling /\ msg \notin Malformed => Kept(msg)
AckedKept == \A m \in acked \ Malformed : Kept(m)

\* Whoever is about to write a synced marker has stored the row.
MarkAfterInsert == pc \in {"mark", "replayMark"} => msg \in rawInputs

IInv ==
  /\ TypeOK
  /\ InHand
  /\ HandKept
  /\ MarkAfterInsert
  /\ AckedKept
  /\ SyncedIsStored

-----------------------------------------------------------------------------

\* The bounds, one by one.
LEMMA Bounds ==
  /\ MaxSize \in Nat /\ MaxSize > 0
  /\ MaxCopies \in Nat /\ MaxCopies > 0
  /\ MaxCrashes \in Nat /\ MaxOutages \in Nat /\ MaxFaults \in Nat
  BY BoundsAssumption

\* Taking one copy of a message, or adding one below the bound, keeps the
\* table of copies within it.
LEMMA CopiesTyped ==
  ASSUME NEW f \in [Stimuli -> 0..MaxCopies], NEW m \in Stimuli
  PROVE  /\ f[m] > 0 => [f EXCEPT ![m] = @ - 1] \in [Stimuli -> 0..MaxCopies]
         /\ f[m] < MaxCopies =>
              [f EXCEPT ![m] = @ + 1] \in [Stimuli -> 0..MaxCopies]
<1>1. f[m] > 0 => f[m] - 1 \in 0..MaxCopies
  BY Bounds
<1>2. f[m] < MaxCopies => f[m] + 1 \in 0..MaxCopies
  BY Bounds
<1>3. QED
  BY <1>1, <1>2

\* The kinds of line are records of the log, and never the same one.
LEMMA RecordKinds ==
  /\ TooLong \in Record
  /\ \A m, n \in Stimuli :
       /\ Stim(m) \in Record /\ Synced(m) \in Record /\ Stim(m) # Synced(n)
       /\ Stim(m) # TooLong /\ Synced(m) # TooLong
  BY DEF Stim, Synced, TooLong, Record

\* What makes no record leaves the file as it was, or with a line too long.
LEMMA NoRecord ==
  ASSUME NEW rec
  PROVE  Glue(rec) \cup Tear(rec) \subseteq {cur, cur \cup {TooLong}}
  BY DEF Glue, Tear

\* Different stimuli have different lines.
LEMMA LinesDiffer ==
  \A m, n \in Stimuli :
    (Stim(m) = Stim(n) => m = n) /\ (Synced(m) = Synced(n) => m = n)
<1> SUFFICES ASSUME NEW m \in Stimuli, NEW n \in Stimuli
             PROVE  /\ Stim(m) = Stim(n) => m = n
                    /\ Synced(m) = Synced(n) => m = n
  OBVIOUS
<1>1. Stim(m).id = m /\ Stim(n).id = n /\ Synced(m).id = m /\ Synced(n).id = n
  BY DEF Stim, Synced
<1>2. QED
  BY <1>1

-----------------------------------------------------------------------------
(* What the building blocks do to the log. *)

FileTyped ==
  /\ cur \subseteq Record /\ bak \subseteq Record
  /\ size \in 0..MaxSize /\ torn \in BOOLEAN /\ handle \in {"open", "closed"}
  /\ overwritten \subseteq Stimuli /\ garbled \subseteq Stimuli
  /\ faults \in 0..MaxFaults

\* What goes wrong is counted within its bound.
LEMMA FaultTyped ==
  ASSUME TypeOK, Fault \/ UNCHANGED faults PROVE faults' \in 0..MaxFaults
<1>1. faults \in Nat /\ faults <= MaxFaults
  BY Bounds DEF TypeOK
<1>2. CASE Fault
  BY <1>1, <1>2, Bounds DEF Fault
<1>3. QED
  BY <1>1, <1>2, Bounds

\* A write, complete or not, leaves a well-formed log that has lost nothing.
LEMMA WriteLineLog ==
  ASSUME TypeOK, NEW m \in Stimuli, NEW rec \in {Stim(m), Synced(m)},
         WriteLine(rec) \/ WriteLineFails(rec)
  PROVE  /\ FileTyped'
         /\ cur \subseteq cur' /\ bak' = bak /\ overwritten' = overwritten
         /\ garbled \subseteq garbled'
         /\ cur' \subseteq cur \cup {rec, TooLong}
<1>1. CASE WriteLine(rec)
  <2>0. {rec, TooLong} \subseteq Record
    BY RecordKinds
  <2>1. rec.id = m
    BY DEF Stim, Synced
  <2>2. size' \in 0..MaxSize
    <3>1. size \in Nat /\ size <= MaxSize
      BY Bounds DEF TypeOK
    <3>2. size' = IF size < MaxSize THEN size + 1 ELSE size
      BY <1>1 DEF WriteLine
    <3>3. QED
      BY <3>1, <3>2, Bounds
  <2>3. faults' \in 0..MaxFaults
    BY <1>1, FaultTyped DEF WriteLine
  <2>4. /\ cur \subseteq cur' /\ cur' \subseteq cur \cup {rec, TooLong}
        /\ garbled \subseteq garbled' /\ garbled' \subseteq garbled \cup {m}
        /\ UNCHANGED <<bak, handle, overwritten>> /\ torn' = FALSE
    BY <1>1, <2>1, NoRecord DEF WriteLine
  <2>5. QED
    BY <2>0, <2>2, <2>3, <2>4 DEF TypeOK, FileTyped
<1>2. CASE WriteLineFails(rec)
  <2>1. faults' \in 0..MaxFaults
    BY <1>2, FaultTyped DEF WriteLineFails
  <2>2. UNCHANGED <<bak, size, handle, overwritten, garbled>>
    BY <1>2 DEF WriteLineFails
  <2>3. torn' \in BOOLEAN /\ cur' \in {cur, cur \cup {TooLong}}
    BY <1>2, NoRecord DEF WriteLineFails, TypeOK
  <2>4. QED
    BY <2>1, <2>2, <2>3, RecordKinds DEF TypeOK, FileTyped
<1>3. QED
  BY <1>1, <1>2

\* An append that succeeds keeps its stimulus: in the file, or known to be
\* garbled by the torn line before it.
LEMMA AppendKeeps ==
  ASSUME TypeOK, NEW m \in Stimuli, WriteLine(Stim(m))
  PROVE  Stim(m) \in cur' \cup bak' \/ m \in garbled'
<1>1. Stim(m).id = m
  BY DEF Stim
<1>2. CASE torn /\ Stim(m) \notin Logged
  BY <1>1, <1>2 DEF WriteLine
<1>3. CASE torn /\ Stim(m) \in Logged
  BY <1>3, NoRecord DEF WriteLine, Logged
<1>4. CASE ~torn
  BY <1>4 DEF WriteLine
<1>5. QED
  BY <1>2, <1>3, <1>4

\* A rotation that destroys a line records it in "overwritten".
LEMMA ShiftKeeps ==
  ASSUME TypeOK, ShiftGenerations
  PROVE  /\ Logged' \subseteq Logged
         /\ overwritten \subseteq overwritten'
         /\ \A m \in Stimuli :
              Stim(m) \in Logged => Stim(m) \in Logged' \/ m \in overwritten'
  BY DEF ShiftGenerations, Logged

\* An insert adds rows only, and adds the row when it reports success.
LEMMA InsertRows ==
  ASSUME TypeOK, NEW m \in Stimuli, Insert(m) \/ InsertFails(m)
  PROVE  /\ rawInputs' \in {rawInputs, rawInputs \cup {m}}
         /\ Insert(m) => m \in rawInputs'
         /\ faults' \in 0..MaxFaults
  BY Bounds DEF TypeOK, Insert, InsertFails, Fault

-----------------------------------------------------------------------------
(* The induction, conjunct by conjunct. *)

\* At first nothing is delivered, logged or stored.
LEMMA InitIInv == Init => IInv
<1> SUFFICES ASSUME Init PROVE IInv
  OBVIOUS
<1>1. TypeOK
  <2>1. copies \in [Stimuli -> 0..MaxCopies]
    BY Bounds DEF Init
  <2>2. /\ size \in 0..MaxSize /\ crashes \in 0..MaxCrashes
        /\ outages \in 0..MaxOutages /\ faults \in 0..MaxFaults
    BY Bounds DEF Init
  <2>3. dbUp \in BOOLEAN /\ held \in BOOLEAN /\ torn \in BOOLEAN
    BY DEF Init
  <2>4. QED
    BY <2>1, <2>2, <2>3 DEF Init, TypeOK
<1>2. QED
  BY <1>1
  DEF Init, IInv, InHand, HandKept, MarkAfterInsert, AckedKept, SyncedIsStored,
      Handling, Logged

\* The variables that are not the log's keep their types.
RestTyped ==
  /\ copies \in [Stimuli -> 0..MaxCopies] /\ acked \subseteq Stimuli
  /\ rawInputs \subseteq Stimuli /\ dbUp \in BOOLEAN /\ held \in BOOLEAN
  /\ pc \in {"down", "scan", "replay", "replayMark", "idle", "rotate", "check",
             "insert", "mark", "ack"}
  /\ msg \in Stimuli \cup {NoStimulus} /\ todo \subseteq Stimuli
  /\ crashes \in 0..MaxCrashes /\ outages \in 0..MaxOutages

\* Every step of every actor keeps the types of the variables.
LEMMA NextTypeOK == TypeOK /\ InHand /\ [Next]_vars => TypeOK'
<1> SUFFICES ASSUME TypeOK, InHand, [Next]_vars PROVE FileTyped' /\ RestTyped'
  BY DEF TypeOK, FileTyped, RestTyped
<1>0. FileTyped /\ RestTyped
  BY DEF TypeOK, FileTyped, RestTyped
<1>a. ASSUME UNCHANGED fileLog, UNCHANGED history, faults' \in 0..MaxFaults
      PROVE  FileTyped'
  BY <1>0, <1>a DEF fileLog, history, FileTyped
<1>b. faults \in 0..MaxFaults
  BY DEF TypeOK
<1>c. Malformed \subseteq Stimuli
  BY StimuliAssumption
<1>1. ASSUME NEW m \in Stimuli, Deliver(m) PROVE FileTyped' /\ RestTyped'
  BY <1>0, <1>1, <1>a, <1>b, CopiesTyped
  DEF Deliver, RestTyped, postgres, process, budgets
<1>2. ASSUME NEW m \in Stimuli, Take(m)
      PROVE  copies' \in [Stimuli -> 0..MaxCopies]
  BY <1>0, <1>2, CopiesTyped DEF Take, RestTyped
<1>3. ASSUME NEW m \in Stimuli, TakeMalformed(m)
      PROVE  FileTyped' /\ RestTyped'
  BY <1>0, <1>3, <1>2, <1>a, <1>b DEF TakeMalformed, RestTyped, postgres, budgets
<1>4. ASSUME NEW m \in Stimuli, AppendStimulus(m) \/ AppendStimulusFails(m)
      PROVE  FileTyped' /\ RestTyped'
  <2>1. FileTyped'
    BY <1>4, WriteLineLog DEF AppendStimulus, AppendStimulusFails
  <2>2. copies' \in [Stimuli -> 0..MaxCopies]
    BY <1>2, <1>4 DEF AppendStimulus, AppendStimulusFails
  <2>3. QED
    BY <1>0, <1>4, <2>1, <2>2
    DEF AppendStimulus, AppendStimulusFails, RestTyped, postgres, process
<1>5. CASE RotateNotNeeded \/ CheckConnection
  <2>1. faults' \in 0..MaxFaults
    BY <1>5, <1>b, FaultTyped DEF RotateNotNeeded, CheckConnection, budgets
  <2>2. QED
    BY <1>0, <1>5, <1>a, <2>1
    DEF RotateNotNeeded, CheckConnection, RestTyped, jetstream, postgres,
        budgets
<1>6. CASE Rotate \/ RotateFails
  <2>1. faults' \in 0..MaxFaults
    BY <1>6, <1>b, FaultTyped DEF Rotate, RotateFails, budgets
  <2>2. CASE ShiftGenerations
    BY <1>0, <1>6, <2>1, <2>2, Bounds
    DEF Rotate, RotateFails, ShiftGenerations, FileTyped, RestTyped, jetstream,
        postgres, budgets
  <2>3. CASE UNCHANGED <<cur, bak, size, overwritten>> /\ RotateFails
    BY <1>0, <2>1, <2>3
    DEF RotateFails, FileTyped, RestTyped, jetstream, postgres
  <2>4. QED
    BY <1>6, <2>2, <2>3 DEF Rotate, RotateFails
<1>7. CASE InsertRawInput
  <2>1. msg \in Stimuli
    BY <1>7 DEF InsertRawInput, InHand, Handling
  <2>2. rawInputs' \subseteq Stimuli /\ faults' \in 0..MaxFaults
    BY <1>0, <1>7, <2>1, InsertRows DEF InsertRawInput, RestTyped
  <2>3. QED
    BY <1>0, <1>7, <1>a, <2>2 DEF InsertRawInput, RestTyped, jetstream
<1>8. CASE MarkSynced \/ ReplayMark
  <2>1. msg \in Stimuli
    BY <1>8 DEF MarkSynced, ReplayMark, InHand, Handling
  <2>2. FileTyped'
    BY <1>8, <2>1, WriteLineLog DEF MarkSynced, ReplayMark
  <2>3. QED
    BY <1>0, <1>8, <2>2 DEF MarkSynced, ReplayMark, RestTyped, jetstream, postgres
<1>9. CASE Ack
  <2>1. msg \in Stimuli
    BY <1>9 DEF Ack, InHand, Handling
  <2>2. faults' \in 0..MaxFaults
    BY <1>9, FaultTyped DEF Ack
  <2>3. QED
    BY <1>0, <1>9, <1>a, <2>1, <2>2 DEF Ack, RestTyped, postgres
<1>10. CASE Start \/ Crash
  <2>1. FileTyped'
    BY <1>0, <1>10 DEF Start, Crash, FileTyped, history, budgets
  <2>2. copies' \in [Stimuli -> 0..MaxCopies]
    BY <1>0, <1>10, Bounds DEF Start, Crash, RestTyped, jetstream
  <2>3. crashes' \in 0..MaxCrashes
    <3>1. crashes \in Nat /\ crashes <= MaxCrashes
      BY <1>0, Bounds DEF RestTyped
    <3>2. CASE Start
      BY <3>1, <3>2, Bounds DEF Start, budgets
    <3>3. CASE Crash
      BY <3>1, <3>3, Bounds DEF Crash
    <3>4. QED
      BY <1>10, <3>2, <3>3
  <2>4. QED
    BY <1>0, <1>10, <2>1, <2>2, <2>3
    DEF Start, Crash, RestTyped, jetstream, postgres, budgets
<1>11. CASE ScanPending \/ Subscribe
  BY <1>0, <1>11, <1>a, <1>b
  DEF ScanPending, Subscribe, Pending, RestTyped, jetstream, postgres, budgets
<1>12. CASE ReplayInsert
  <2>1. PICK m \in todo :
          \/ Insert(m) /\ pc' = "replayMark" /\ msg' = m /\ todo' = todo
          \/ InsertFails(m) /\ todo' = todo \ {m} /\ UNCHANGED <<pc, msg>>
    BY <1>12 DEF ReplayInsert
  <2>2. m \in Stimuli
    BY <1>0 DEF RestTyped
  <2>3. rawInputs' \subseteq Stimuli /\ faults' \in 0..MaxFaults
    BY <1>0, <2>1, <2>2, InsertRows DEF RestTyped
  <2>4. QED
    BY <1>0, <1>12, <1>a, <2>1, <2>2, <2>3
    DEF ReplayInsert, RestTyped, jetstream
<1>13. CASE DBStop \/ DBStart \/ ReconnectorTick
  <2>1. outages' \in 0..MaxOutages
    <3>1. outages \in Nat /\ outages <= MaxOutages
      BY <1>0, Bounds DEF RestTyped
    <3>2. CASE DBStop
      BY <3>1, <3>2, Bounds DEF DBStop
    <3>3. CASE DBStart \/ ReconnectorTick
      BY <3>1, <3>3, Bounds DEF DBStart, ReconnectorTick, budgets
    <3>4. QED
      BY <1>13, <3>2, <3>3
  <2>2. QED
    BY <1>0, <1>13, <1>a, <1>b, <2>1
    DEF DBStop, DBStart, ReconnectorTick, RestTyped, jetstream, postgres,
        process, budgets
<1>14. CASE UNCHANGED vars
  BY <1>0, <1>14, <1>a, <1>b
  DEF vars, RestTyped, jetstream, postgres, process, budgets
<1>15. QED
  BY <1>1, <1>3, <1>4, <1>5, <1>6, <1>7, <1>8, <1>9, <1>10, <1>11, <1>12,
     <1>13, <1>14
  DEF Next, Handler, Startup

\* What is in hand is a stimulus, a parseable one while Writer.Write runs,
\* and a marker is due only when the row is stored.
LEMMA NextHand ==
  ASSUME TypeOK, InHand, MarkAfterInsert, [Next]_vars
  PROVE  InHand' /\ MarkAfterInsert'
<1> USE DEF InHand, MarkAfterInsert, Handling
<1>0. todo \subseteq Stimuli /\ Malformed \subseteq Stimuli
  BY StimuliAssumption DEF TypeOK
<1>1. ASSUME NEW m \in Stimuli,
             TakeMalformed(m) \/ AppendStimulus(m) \/ AppendStimulusFails(m)
      PROVE  InHand' /\ MarkAfterInsert'
  BY <1>1 DEF TakeMalformed, AppendStimulus, AppendStimulusFails, Take,
              postgres, process
<1>2. CASE RotateNotNeeded \/ Rotate \/ RotateFails \/ CheckConnection
  BY <1>2 DEF RotateNotNeeded, Rotate, RotateFails, CheckConnection
<1>3. CASE InsertRawInput
  <2>1. Insert(msg) => msg \in rawInputs'
    BY DEF Insert
  <2>2. QED
    BY <1>3, <2>1 DEF InsertRawInput
<1>4. CASE MarkSynced \/ Ack \/ ReplayMark
  BY <1>4 DEF MarkSynced, Ack, ReplayMark
<1>5. CASE Start \/ Crash \/ ScanPending \/ Subscribe
  BY <1>5 DEF Start, Crash, ScanPending, Subscribe
<1>6. CASE ReplayInsert
  <2>1. PICK m \in todo :
          \/ Insert(m) /\ pc' = "replayMark" /\ msg' = m /\ todo' = todo
          \/ InsertFails(m) /\ todo' = todo \ {m} /\ UNCHANGED <<pc, msg>>
    BY <1>6 DEF ReplayInsert
  <2>2. Insert(m) => m \in rawInputs'
    BY DEF Insert
  <2>3. QED
    BY <1>0, <1>6, <2>1, <2>2 DEF ReplayInsert
<1>7. ASSUME UNCHANGED process, rawInputs \subseteq rawInputs'
      PROVE  InHand' /\ MarkAfterInsert'
  BY <1>7 DEF process
<1>8. ASSUME NEW m \in Stimuli, Deliver(m) PROVE InHand' /\ MarkAfterInsert'
  BY <1>7, <1>8 DEF Deliver, postgres
<1>9. CASE DBStop \/ DBStart \/ ReconnectorTick \/ UNCHANGED vars
  BY <1>7, <1>9 DEF DBStop, DBStart, ReconnectorTick, vars, postgres
<1>10. QED
  BY <1>1, <1>2, <1>3, <1>4, <1>5, <1>6, <1>8, <1>9 DEF Next, Handler, Startup

\* No step loses a stimulus but a rotation, which records what it overwrites.
LogKept ==
  /\ rawInputs \subseteq rawInputs'
  /\ overwritten \subseteq overwritten' /\ garbled \subseteq garbled'
  /\ \A m \in Stimuli :
       Stim(m) \in Logged => Stim(m) \in Logged' \/ m \in overwritten'

\* Every step keeps what the log and Postgres hold, in that sense.
LEMMA NextLogKept ==
  ASSUME TypeOK, InHand, [Next]_vars PROVE LogKept
<1>0. ASSUME UNCHANGED <<cur, bak, overwritten, garbled>>,
             rawInputs \subseteq rawInputs'
      PROVE  LogKept
  BY <1>0 DEF LogKept, Logged
<1>1. ASSUME NEW m \in Stimuli, NEW rec \in {Stim(m), Synced(m)},
             WriteLine(rec) \/ WriteLineFails(rec), UNCHANGED rawInputs
      PROVE  LogKept
  BY <1>1, WriteLineLog DEF LogKept, Logged
<1>2. ASSUME ShiftGenerations, UNCHANGED <<garbled, rawInputs>> PROVE LogKept
  BY <1>2, ShiftKeeps DEF LogKept
<1>3. ASSUME NEW m \in Stimuli, Deliver(m) \/ TakeMalformed(m) PROVE LogKept
  BY <1>0, <1>3 DEF Deliver, TakeMalformed, fileLog, postgres, history
<1>4. ASSUME NEW m \in Stimuli, AppendStimulus(m) \/ AppendStimulusFails(m)
      PROVE  LogKept
  BY <1>1, <1>4 DEF AppendStimulus, AppendStimulusFails, postgres
<1>5. CASE Rotate \/ RotateFails
  BY <1>0, <1>2, <1>5 DEF Rotate, RotateFails, postgres
<1>6. CASE InsertRawInput
  <2>1. msg \in Stimuli
    BY <1>6 DEF InsertRawInput, InHand, Handling
  <2>2. rawInputs \subseteq rawInputs'
    BY <1>6, <2>1, InsertRows DEF InsertRawInput
  <2>3. QED
    BY <1>0, <1>6, <2>2 DEF InsertRawInput, fileLog, history
<1>7. CASE MarkSynced \/ ReplayMark
  <2>1. msg \in Stimuli
    BY <1>7 DEF MarkSynced, ReplayMark, InHand, Handling
  <2>2. QED
    BY <1>1, <1>7, <2>1 DEF MarkSynced, ReplayMark, postgres
<1>8. CASE ReplayInsert
  <2>1. PICK m \in todo : Insert(m) \/ InsertFails(m)
    BY <1>8 DEF ReplayInsert
  <2>2. rawInputs \subseteq rawInputs'
    BY <2>1, InsertRows DEF TypeOK
  <2>3. QED
    BY <1>0, <1>8, <2>2 DEF ReplayInsert, fileLog, history
<1>9. CASE RotateNotNeeded \/ CheckConnection \/ Ack
  BY <1>0, <1>9
  DEF RotateNotNeeded, CheckConnection, Ack, fileLog, postgres, history
<1>10. CASE Start \/ Crash \/ ScanPending \/ Subscribe
  BY <1>0, <1>10
  DEF Start, Crash, ScanPending, Subscribe, fileLog, postgres, history
<1>11. CASE DBStop \/ DBStart \/ ReconnectorTick \/ UNCHANGED vars
  BY <1>0, <1>11
  DEF DBStop, DBStart, ReconnectorTick, vars, fileLog, postgres, history
<1>12. QED
  BY <1>3, <1>4, <1>5, <1>6, <1>7, <1>8, <1>9, <1>10, <1>11
  DEF Next, Handler, Startup

\* The handler reaches its ACK with the stimulus kept, so that what is
\* acknowledged is kept.
LEMMA NextKept ==
  ASSUME TypeOK, InHand, HandKept, AckedKept, [Next]_vars
  PROVE  HandKept' /\ AckedKept'
<1>1. \A m \in Stimuli : Kept(m) => Kept(m)'
  BY NextLogKept DEF LogKept, Kept
<1>2. acked \subseteq Stimuli
  BY DEF TypeOK
\* Nothing new is acknowledged, and nothing new is in hand.
<1>3. ASSUME UNCHANGED acked PROVE AckedKept'
  BY <1>1, <1>2, <1>3 DEF AckedKept, Kept
<1>4. ASSUME pc' \in Handling => pc \in Handling /\ msg' = msg PROVE HandKept'
  <2>1. pc \in Handling => msg \in Stimuli
    BY DEF InHand
  <2>2. QED
    BY <1>1, <1>4, <2>1 DEF HandKept
<1>5. ASSUME NEW m \in Stimuli, AppendStimulus(m)
      PROVE  HandKept' /\ AckedKept'
  <2>1. Kept(m)'
    BY <1>5, AppendKeeps DEF AppendStimulus, Kept, Logged
  <2>2. QED
    BY <1>3, <1>5, <2>1 DEF AppendStimulus, HandKept
<1>6. ASSUME NEW m \in Stimuli, TakeMalformed(m)
      PROVE  HandKept' /\ AckedKept'
  BY <1>3, <1>6 DEF TakeMalformed, HandKept
<1>7. ASSUME NEW m \in Stimuli, Deliver(m) \/ AppendStimulusFails(m)
      PROVE  HandKept' /\ AckedKept'
  BY <1>3, <1>4, <1>7 DEF Deliver, AppendStimulusFails, process
<1>8. CASE Ack
  <2>1. PICK m \in Stimuli : m = msg
    BY <1>8 DEF Ack, InHand, Handling
  <2>2. m \in Malformed \/ Kept(m)'
    BY <1>1, <1>8, <2>1 DEF Ack, HandKept, Handling
  <2>3. acked' \subseteq acked \cup {m}
    BY <1>8, <2>1 DEF Ack
  <2>4. AckedKept'
    BY <1>1, <1>2, <2>2, <2>3 DEF AckedKept, Kept
  <2>5. QED
    BY <1>4, <1>8, <2>4 DEF Ack, Handling
<1>9. CASE RotateNotNeeded \/ Rotate \/ RotateFails \/ CheckConnection
           \/ InsertRawInput \/ MarkSynced
  BY <1>3, <1>4, <1>9
  DEF RotateNotNeeded, Rotate, RotateFails, CheckConnection, InsertRawInput,
      MarkSynced, Handling, jetstream
<1>10. CASE Startup \/ Crash
  BY <1>3, <1>4, <1>10
  DEF Startup, Start, ScanPending, ReplayInsert, ReplayMark, Subscribe, Crash,
      Handling, jetstream
<1>11. CASE DBStop \/ DBStart \/ ReconnectorTick \/ UNCHANGED vars
  BY <1>3, <1>4, <1>11
  DEF DBStop, DBStart, ReconnectorTick, vars, jetstream, process
<1>12. QED
  BY <1>5, <1>6, <1>7, <1>8, <1>9, <1>10, <1>11 DEF Next, Handler

\* Only MarkSynced and ReplayMark add a marker, for a row that is there.
LEMMA NextSynced ==
  ASSUME TypeOK, InHand, MarkAfterInsert, SyncedIsStored, [Next]_vars
  PROVE  SyncedIsStored'
<1>1. rawInputs \subseteq rawInputs'
  BY NextLogKept DEF LogKept
<1>2. ASSUME Logged' \subseteq Logged PROVE SyncedIsStored'
  BY <1>1, <1>2 DEF SyncedIsStored
<1>3. ASSUME UNCHANGED <<cur, bak>> PROVE SyncedIsStored'
  BY <1>2, <1>3 DEF Logged
<1>4. ASSUME NEW m \in Stimuli, AppendStimulus(m) \/ AppendStimulusFails(m)
      PROVE  SyncedIsStored'
  <2>1. Logged' \subseteq Logged \cup {Stim(m), TooLong}
    BY <1>4, WriteLineLog DEF AppendStimulus, AppendStimulusFails, Logged
  <2>2. \A n \in Stimuli : Synced(n) \notin {Stim(m), TooLong}
    BY RecordKinds
  <2>3. QED
    BY <1>1, <2>1, <2>2 DEF SyncedIsStored
<1>5. CASE MarkSynced \/ ReplayMark
  <2>1. msg \in Stimuli /\ msg \in rawInputs
    BY <1>5 DEF MarkSynced, ReplayMark, InHand, MarkAfterInsert, Handling
  <2>2. Logged' \subseteq Logged \cup {Synced(msg), TooLong}
    BY <1>5, <2>1, WriteLineLog DEF MarkSynced, ReplayMark, Logged
  <2>3. QED
    BY <1>1, <2>1, <2>2, RecordKinds, LinesDiffer DEF SyncedIsStored
<1>6. CASE Rotate \/ RotateFails
  BY <1>2, <1>3, <1>6, ShiftKeeps DEF Rotate, RotateFails
<1>7. CASE Startup
  BY <1>3, <1>5, <1>7
  DEF Startup, Start, ScanPending, ReplayInsert, Subscribe, fileLog
<1>8. ASSUME NEW m \in Stimuli, Deliver(m) \/ TakeMalformed(m)
      PROVE  SyncedIsStored'
  BY <1>3, <1>8 DEF Deliver, TakeMalformed, fileLog
<1>9. CASE RotateNotNeeded \/ CheckConnection \/ InsertRawInput \/ Ack
  BY <1>3, <1>9
  DEF RotateNotNeeded, CheckConnection, InsertRawInput, Ack, fileLog
<1>10. CASE Crash \/ DBStop \/ DBStart \/ ReconnectorTick \/ UNCHANGED vars
  BY <1>3, <1>10 DEF Crash, DBStop, DBStart, ReconnectorTick, vars, fileLog
<1>11. QED
  BY <1>4, <1>5, <1>6, <1>7, <1>8, <1>9, <1>10 DEF Next, Handler

-----------------------------------------------------------------------------

\* The conjuncts hold together.
LEMMA Invariance == Spec => []IInv
<1>1. Init => IInv
  BY InitIInv
<1>2. IInv /\ [Next]_vars => IInv'
  BY NextTypeOK, NextHand, NextKept, NextSynced DEF IInv
<1>3. QED
  BY <1>1, <1>2, PTL DEF Spec

\* The variables of the intake keep their types.
THEOREM TypeCorrect == Spec => []TypeOK
<1>1. IInv => TypeOK
  BY DEF IInv
<1>2. QED
  BY <1>1, Invariance, PTL

\* What is kept and not lost is a row, or a line some replay still has to read:
\* a line marked synced has its row, and a line that is not is pending, unless
\* no scan of its log completes.
LEMMA KeptIsDurable == TypeOK /\ AckedKept /\ SyncedIsStored => AckedIsDurable
<1> SUFFICES ASSUME TypeOK, AckedKept, SyncedIsStored, NEW m \in acked \ Malformed
             PROVE  Safe(m) \/ Blocked(m) \/ m \in overwritten \cup garbled
  BY DEF AckedIsDurable
<1>1. m \in Stimuli /\ Kept(m)
  BY DEF TypeOK, AckedKept
<1>2. CASE Stim(m) \in Logged /\ Synced(m) \notin Logged
  BY <1>1, <1>2 DEF Safe, Blocked, Pending
<1>3. CASE Synced(m) \in Logged
  BY <1>1, <1>3 DEF SyncedIsStored, Safe
<1>4. QED
  BY <1>1, <1>2, <1>3 DEF Kept, Safe

\* An acknowledged stimulus is a row, or will be after the next replay, unless a
\* second rotation or a torn line has taken its line, or a line too long for the
\* scanner stands in the way (consumer.go:82-88, writer.go:20-62,
\* filelog.go:103-138): for any number of stimuli, crashes, outages and failed
\* operations.
THEOREM AckedDurable == Spec => []AckedIsDurable
<1>1. IInv => AckedIsDurable
  BY KeptIsDurable DEF IInv
<1>2. QED
  BY <1>1, Invariance, PTL

\* Replay skips nothing that is not stored (writer.go:32-41, 63-71).
THEOREM SyncedStored == Spec => []SyncedIsStored
<1>1. IInv => SyncedIsStored
  BY DEF IInv
<1>2. QED
  BY <1>1, Invariance, PTL

-----------------------------------------------------------------------------
(* The refinement of WriteAhead *)

\* What the handler or the replay loop has in hand was written to the log.
HandLogged == pc \in Handling /\ msg \notin Malformed => msg \in WrittenToLog
TodoLogged == todo \subseteq WrittenToLog

Same == WrittenToLog' = WrittenToLog /\ rawInputs' = rawInputs /\ acked' = acked

\* A line adds its stimulus, a marker or a failed write none.
LEMMA WriteLineWritten ==
  ASSUME TypeOK, NEW m \in Stimuli
  PROVE  /\ WriteLine(Stim(m)) => WrittenToLog' = WrittenToLog \cup {m}
         /\ WriteLine(Synced(m)) \/ WriteLineFails(Synced(m)) \/ WriteLineFails(Stim(m))
              => WrittenToLog' = WrittenToLog
<1>1. ASSUME WriteLine(Stim(m)) PROVE WrittenToLog' = WrittenToLog \cup {m}
  <2>1. Stim(m).id = m
    BY DEF Stim
  <2>2. /\ torn => cur' \in {cur, cur \cup {TooLong}}
        /\ ~torn => cur' = cur \cup {Stim(m)}
        /\ garbled' = IF torn /\ Stim(m) \notin Logged THEN garbled \cup {m} ELSE garbled
        /\ UNCHANGED <<bak, overwritten>>
    BY <1>1, <2>1, NoRecord DEF WriteLine
  <2>3. \A n \in Stimuli : Stim(n) \in Logged' <=>
                             Stim(n) \in Logged \/ (~torn /\ n = m)
    BY <2>2, LinesDiffer, RecordKinds DEF Logged
  <2>4. QED
    BY <2>2, <2>3 DEF WrittenToLog
<1>2. ASSUME WriteLine(Synced(m)) PROVE WrittenToLog' = WrittenToLog
  <2>1. Synced(m).id = m /\ Synced(m) # Stim(m)
    BY RecordKinds DEF Synced
  <2>2. /\ cur' \in {cur, cur \cup {Synced(m)}, cur \cup {TooLong}}
        /\ UNCHANGED <<bak, overwritten, garbled>>
    BY <1>2, <2>1, NoRecord DEF WriteLine
  <2>3. \A n \in Stimuli : Stim(n) \in Logged' <=> Stim(n) \in Logged
    BY <2>2, RecordKinds DEF Logged
  <2>4. QED
    BY <2>2, <2>3 DEF WrittenToLog
<1>3. ASSUME NEW rec, WriteLineFails(rec) PROVE WrittenToLog' = WrittenToLog
  <2>1. cur' \in {cur, cur \cup {TooLong}} /\ UNCHANGED <<bak, overwritten, garbled>>
    BY <1>3, NoRecord DEF WriteLineFails
  <2>2. \A n \in Stimuli : Stim(n) \in Logged' <=> Stim(n) \in Logged
    BY <2>1, RecordKinds DEF Logged
  <2>3. QED
    BY <2>1, <2>2 DEF WrittenToLog
<1>4. QED
  BY <1>1, <1>2, <1>3

\* A rotation moves lines to "overwritten", not out of what was written.
LEMMA ShiftWritten ==
  ASSUME ShiftGenerations, UNCHANGED garbled
  PROVE  WrittenToLog' = WrittenToLog
<1>1. /\ bak' = cur /\ cur' = {}
      /\ overwritten' = overwritten \cup {m \in Stimuli : Stim(m) \in bak \ cur}
  BY DEF ShiftGenerations
<1>2. \A m \in Stimuli : Stim(m) \in Logged' <=> Stim(m) \in cur
  BY <1>1 DEF Logged
<1>3. QED
  BY <1>1, <1>2 DEF WrittenToLog, Logged

\* A step is one of WriteAhead, or changes nothing of it, and keeps what it
\* has in hand.
WALStep ==
  \/ Same
  \/ \E m \in Stimuli : WAL!AppendStimulus(m) \/ WAL!InsertRawInput(m) \/ WAL!Ack(m)

LEMMA NextWAL ==
  ASSUME TypeOK, InHand, HandLogged, TodoLogged, [Next]_vars
  PROVE  WALStep /\ HandLogged' /\ TodoLogged'
<1> DEFINE Goal == WALStep /\ HandLogged' /\ TodoLogged'
<1>0. todo \subseteq Stimuli /\ Malformed \subseteq Stimuli
  BY StimuliAssumption DEF TypeOK
\* A step of nobody's, or one that hands nothing over.
<1>1. ASSUME UNCHANGED <<cur, bak, overwritten, garbled>>
      PROVE  WrittenToLog' = WrittenToLog
  BY <1>1 DEF WrittenToLog, Logged
<1>2. ASSUME Same, todo' \subseteq todo,
             pc' \in Handling => pc \in Handling /\ msg' = msg
      PROVE  Goal
  BY <1>2 DEF Same, WALStep, HandLogged, TodoLogged
<1>3. ASSUME NEW m \in Stimuli, AppendStimulus(m) PROVE Goal
  <2>1. WrittenToLog' = WrittenToLog \cup {m} /\ UNCHANGED <<rawInputs, acked, todo>>
    BY <1>3, WriteLineWritten DEF AppendStimulus, postgres
  <2>2. pc' = "rotate" /\ msg' = m
    BY <1>3 DEF AppendStimulus
  <2>3. WALStep
    BY <2>1 DEF WALStep, WAL!AppendStimulus
  <2>4. QED
    BY <2>1, <2>2, <2>3 DEF HandLogged, TodoLogged
<1>4. ASSUME NEW m \in Stimuli, AppendStimulusFails(m) PROVE Goal
  <2>1. WrittenToLog' = WrittenToLog
    BY <1>4, WriteLineWritten DEF AppendStimulusFails
  <2>2. Same /\ UNCHANGED <<pc, msg, todo>>
    BY <1>4, <2>1 DEF AppendStimulusFails, Same, postgres, process
  <2>3. QED
    BY <1>2, <2>2
<1>5. ASSUME NEW m \in Stimuli, TakeMalformed(m) PROVE Goal
  <2>1. Same /\ UNCHANGED todo /\ pc' = "ack" /\ msg' \in Malformed
    BY <1>1, <1>5 DEF TakeMalformed, Same, fileLog, postgres, history
  <2>2. QED
    BY <2>1 DEF Same, WALStep, HandLogged, TodoLogged
<1>6. CASE Rotate \/ RotateFails
  <2>1. WrittenToLog' = WrittenToLog
    BY <1>1, <1>6, ShiftWritten DEF Rotate, RotateFails
  <2>2. /\ Same /\ UNCHANGED todo /\ pc' \in {"check", "idle"}
        /\ pc' = "check" => pc \in Handling /\ msg' = msg
    BY <1>6, <2>1 DEF Rotate, RotateFails, Same, postgres, jetstream, Handling
  <2>3. QED
    BY <1>2, <2>2 DEF Handling
<1>7. CASE RotateNotNeeded \/ CheckConnection
  <2>1. /\ Same /\ UNCHANGED <<todo, msg>> /\ pc \in Handling
        /\ pc' \in {"check", "insert", "ack"}
    BY <1>1, <1>7 DEF RotateNotNeeded, CheckConnection, Same, fileLog, postgres, jetstream,
                      history, Handling
  <2>2. QED
    BY <1>2, <2>1
<1>8. CASE InsertRawInput
  <2>1. /\ pc = "insert" /\ msg \in Stimuli /\ msg \in WrittenToLog
    BY <1>8 DEF InsertRawInput, InHand, HandLogged, Handling
  <2>2. /\ rawInputs' \in {rawInputs, rawInputs \cup {msg}} /\ WrittenToLog' = WrittenToLog
        /\ UNCHANGED <<acked, todo, msg>> /\ pc' \in {"mark", "ack"}
    BY <1>1, <1>8, <2>1, InsertRows DEF InsertRawInput, jetstream, fileLog, history
  <2>3. WALStep
    BY <2>1, <2>2 DEF WALStep, Same, WAL!InsertRawInput
  <2>4. QED
    BY <2>1, <2>2, <2>3 DEF HandLogged, TodoLogged
<1>9. CASE MarkSynced
  <2>1. msg \in Stimuli /\ pc \in Handling
    BY <1>9 DEF MarkSynced, InHand, Handling
  <2>2. WrittenToLog' = WrittenToLog
    BY <1>9, <2>1, WriteLineWritten DEF MarkSynced
  <2>3. Same /\ UNCHANGED <<todo, msg>> /\ pc' = "ack"
    BY <1>9, <2>2 DEF MarkSynced, Same, postgres, jetstream
  <2>4. QED
    BY <1>2, <2>1, <2>3
<1>10. CASE Ack
  <2>1. pc = "ack" /\ msg \in Stimuli /\ msg \in WrittenToLog \cup Malformed
    BY <1>10 DEF Ack, InHand, HandLogged, Handling
  <2>2. /\ acked' \in {acked, acked \cup {msg}} /\ pc' = "idle"
        /\ WrittenToLog' = WrittenToLog /\ UNCHANGED <<rawInputs, todo>>
    BY <1>1, <1>10 DEF Ack, fileLog, postgres, history
  <2>3. WALStep
    BY <2>1, <2>2 DEF WALStep, Same, WAL!Ack
  <2>4. QED
    BY <2>2, <2>3 DEF HandLogged, TodoLogged, Handling
<1>11. CASE ScanPending
  <2>1. Same /\ todo' \subseteq Pending /\ pc' = "replay"
    BY <1>1, <1>11 DEF ScanPending, Same, fileLog, postgres, jetstream, history
  <2>2. Pending \subseteq WrittenToLog
    BY DEF Pending, WrittenToLog
  <2>3. QED
    BY <2>1, <2>2 DEF WALStep, Same, HandLogged, TodoLogged, Handling
<1>12. CASE ReplayInsert
  <2>1. PICK m \in todo :
          \/ Insert(m) /\ pc' = "replayMark" /\ msg' = m /\ todo' = todo
          \/ InsertFails(m) /\ todo' = todo \ {m} /\ UNCHANGED <<pc, msg>>
    BY <1>12 DEF ReplayInsert
  <2>2. m \in Stimuli /\ m \in WrittenToLog /\ pc = "replay"
    BY <1>0, <1>12 DEF TodoLogged, ReplayInsert
  <2>3. /\ rawInputs' \in {rawInputs, rawInputs \cup {m}} /\ WrittenToLog' = WrittenToLog
        /\ acked' = acked /\ todo' \subseteq todo
        /\ pc' \in {"replay", "replayMark"}
    BY <1>1, <1>12, <2>1, <2>2, InsertRows DEF ReplayInsert, jetstream, fileLog, history
  <2>4. WALStep
    BY <2>2, <2>3 DEF WALStep, Same, WAL!InsertRawInput
  <2>5. QED
    BY <2>3, <2>4 DEF HandLogged, TodoLogged, Handling
<1>13. CASE ReplayMark
  <2>1. msg \in Stimuli
    BY <1>13 DEF ReplayMark, InHand
  <2>2. WrittenToLog' = WrittenToLog
    BY <1>13, <2>1, WriteLineWritten DEF ReplayMark
  <2>3. Same /\ todo' \subseteq todo /\ pc' = "replay"
    BY <1>13, <2>2 DEF ReplayMark, Same, postgres, jetstream
  <2>4. QED
    BY <1>2, <2>3 DEF Handling
<1>14. CASE Start \/ Subscribe \/ Crash
  <2>1. Same /\ todo' \subseteq todo /\ pc' \in {"scan", "idle", "down"}
    BY <1>1, <1>14 DEF Start, Subscribe, Crash, Same, fileLog, postgres, jetstream, history
  <2>2. QED
    BY <1>2, <2>1 DEF Handling
<1>15. ASSUME NEW m \in Stimuli, Deliver(m) PROVE Goal
  <2>1. Same /\ UNCHANGED <<pc, msg, todo>>
    BY <1>1, <1>15 DEF Deliver, Same, fileLog, postgres, process, history
  <2>2. QED
    BY <1>2, <2>1
<1>16. CASE DBStop \/ DBStart \/ ReconnectorTick \/ UNCHANGED vars
  <2>1. Same /\ UNCHANGED <<pc, msg, todo>>
    BY <1>1, <1>16 DEF DBStop, DBStart, ReconnectorTick, vars, Same, fileLog, postgres,
                       process, jetstream, history
  <2>2. QED
    BY <1>2, <2>1
<1>17. QED
  BY <1>3, <1>4, <1>5, <1>6, <1>7, <1>8, <1>9, <1>10, <1>11, <1>12, <1>13, <1>14, <1>15, <1>16
  DEF Next, Handler, Startup

\* The intake implements WriteAhead: a stimulus is in the file before it is a row
\* or its message is acknowledged, for any number of crashes, outages, failed
\* operations and redeliveries, and what was done stays done (writer.go:20-75).
THEOREM WriteAheadRefinement == Spec => ImplementsWriteAhead
<1> DEFINE Logs == HandLogged /\ TodoLogged
<1>1. Init => Logs
  BY DEF Init, HandLogged, TodoLogged, Handling
<1>2. IInv /\ Logs /\ [Next]_vars => Logs'
  BY NextWAL DEF IInv
<1>3. Init => WAL!Init
  BY DEF Init, WAL!Init, WrittenToLog, Logged
<1>4. IInv /\ Logs /\ [Next]_vars => [WAL!Next]_(<<WrittenToLog, rawInputs, acked>>)
  BY NextWAL DEF IInv, WALStep, Same, WAL!Next
<1> HIDE DEF Logs
<1>5. QED
  BY <1>1, <1>2, <1>3, <1>4, Invariance, PTL DEF Spec, ImplementsWriteAhead, WAL!Spec
=============================================================================
