-------------------------- MODULE LogMonitorProofs --------------------------
(***************************************************************************)
(* For any files, messages and bounds: the checkpoint never moves past an  *)
(* unread line, history stays silent, and a message is published again     *)
(* only after a crash or a fault.                                          *)
(***************************************************************************)
EXTENDS LogMonitor, SequenceTheorems, TLAPS

\* What became of the message m of f is settled.
Known(f, m) == pubs[f][m] > 0 \/ <<f, m>> \in failed \cup skipped

\* An offset o of f lies behind the first baseline; unless f was cleared since,
\* every line that begins before o is settled.
Sound(copy, o, f) ==
  o # NoEntry =>
    /\ base[f] # NoEntry /\ base[f] <= o
    /\ <<copy, f>> \in stale => base[f] = 0
    /\ <<copy, f>> \notin stale =>
         /\ o <= Size(f)
         /\ \A i \in 1..Len(text[f]) : 2 * (i - 1) < o => Known(f, text[f][i])
         /\ tail[f] # NoLine /\ 2 * Len(text[f]) < o => Known(f, tail[f])

OffsetsSound ==
  /\ \A f \in Files : Sound("disk", disk[f], f) /\ Sound("memory", offset[f], f)
  /\ pc = "read" => Sound("pos", pos, file)

\* The file reaches to the first baseline; lines that begin there or later
\* are fresh.
FreshBehindBase ==
  \A f \in Files : base[f] # NoEntry =>
    /\ base[f] <= Size(f)
    /\ \A i \in 1..Len(text[f]) : 2 * (i - 1) >= base[f] => text[f][i] \in fresh[f]
    /\ tail[f] # NoLine /\ 2 * Len(text[f]) >= base[f] => tail[f] \in fresh[f]

\* The buffer holds the lines of the file from pos on: after h lines, or, with
\* a fragment first, in the middle of line h.
InStep ==
  \E h \in 0..pos :
    \/ /\ pos = 2 * h
       /\ \A k \in 1..Len(buf) :
            h + k <= Len(text[file]) /\ buf[k] = text[file][h + k]
    \/ /\ pos = 2 * h - 1
       /\ buf # <<>> => buf[1] = Fragment /\ h <= Len(text[file])
       /\ \A k \in 2..Len(buf) :
            h + k - 1 <= Len(text[file]) /\ buf[k] = text[file][h + k - 1]

Buffered ==
  /\ pc = "read" => /\ file \in Files
                    /\ \A k \in 1..Len(buf) : buf[k] \in fresh[file] \cup {Fragment}
                    /\ <<"pos", file>> \notin stale => InStep
  /\ pc # "read" => buf = <<>>

\* What is suppressed was published in this process.
SeenAccountedFor ==
  \A f \in Files : \A m \in Messages :
    /\ <<f, m>> \in seen => pubs[f][m] > 0
    /\ pubs[f][m] <= (IF <<f, m>> \in seen THEN 1 ELSE 0) + crashes + faults

IInv ==
  /\ TypeOK /\ OffsetsSound /\ FreshBehindBase /\ Buffered /\ SeenAccountedFor
  /\ HistoryIsSilent

-----------------------------------------------------------------------------

LEMMA InitIInv == Init => IInv
<1> SUFFICES ASSUME Init PROVE IInv
  OBVIOUS
<1>1. TypeOK
  BY EmptySeq, BoundsAssumption DEF Init, TypeOK, NoOffsets
<1>2. OffsetsSound /\ FreshBehindBase /\ Buffered
  BY DEF Init, OffsetsSound, Sound, FreshBehindBase, Buffered, NoOffsets
<1>3. SeenAccountedFor /\ HistoryIsSilent
  BY DEF Init, SeenAccountedFor, HistoryIsSilent
<1>4. QED
  BY <1>1, <1>2, <1>3 DEF IInv

LEMMA SizeType ==
  ASSUME TypeOK, NEW f \in Files
  PROVE  /\ Len(text[f]) \in Nat /\ Size(f) \in Nat
         /\ Size(f) = 2 * Len(text[f]) + IF tail[f] = NoLine THEN 0 ELSE 1
         /\ \A i \in 1..Len(text[f]) : text[f][i] \in Messages
  BY DEF TypeOK, Size

\* No line begins at the end of the file or past it.
LEMMA NoLinePastSize ==
  ASSUME TypeOK, NEW f \in Files
  PROVE  \A i \in 1..Len(text[f]) : ~(2 * (i - 1) >= Size(f))
<1>1. Len(text[f]) \in Nat /\ (Size(f) = 2 * Len(text[f]) \/ Size(f) = 2 * Len(text[f]) + 1)
  BY DEF TypeOK, Size
<1>2. QED
  BY <1>1

LEMMA StartType ==
  ASSUME TypeOK, NEW f \in Files
  PROVE  ResolveStart(f) \in Nat /\ Before(f, ResolveStart(f)) \subseteq Messages
<1>1. ResolveStart(f) \in Nat
  BY SizeType DEF TypeOK, ResolveStart
<1>2. tail[f] \in Messages \cup {NoLine}
  BY DEF TypeOK
<1>3. QED
  BY <1>1, <1>2, SizeType DEF Before

LEMMA FaultType ==
  ASSUME TypeOK, Fault \/ NoFault
  PROVE  faults' \in 0..MaxFaults /\ faults \in Nat /\ faults' >= faults
  BY BoundsAssumption DEF TypeOK, Fault, NoFault

\* The lines that are read from an offset on: those that begin there or later,
\* and a fragment if it is in the middle of a line.
LEMMA LinesFromIs ==
  ASSUME TypeOK, NEW f \in Files, NEW o \in Nat
  PROVE  LET lines == LinesFrom(f, o) IN
         /\ lines \in Seq(Messages \cup {Fragment})
         /\ \E h \in 0..o :
              \/ /\ o = 2 * h
                 /\ \A k \in 1..Len(lines) :
                      h + k <= Len(text[f]) /\ lines[k] = text[f][h + k]
              \/ /\ o = 2 * h - 1
                 /\ lines # <<>> => lines[1] = Fragment /\ h <= Len(text[f])
                 /\ \A k \in 2..Len(lines) :
                      h + k - 1 <= Len(text[f]) /\ lines[k] = text[f][h + k - 1]
<1> DEFINE lines == LinesFrom(f, o)
           h == (o + 1) \div 2
           rest == SubSeq(text[f], h + 1, Len(text[f]))
<1>1. h \in 0..o /\ (o % 2 = 1 => o = 2 * h - 1) /\ (o % 2 # 1 => o = 2 * h)
  OBVIOUS
<1>2. Len(text[f]) \in Nat /\ \A i \in 1..Len(text[f]) : text[f][i] \in Messages
  BY SizeType
<1>3. lines = IF o % 2 = 1 /\ h <= Len(text[f]) THEN <<Fragment>> \o rest ELSE rest
  BY DEF LinesFrom
<1> HIDE DEF h
<1>4. /\ rest \in Seq(Messages \cup {Fragment})
      /\ Len(rest) = IF h + 1 <= Len(text[f]) THEN Len(text[f]) - h ELSE 0
      /\ \A k \in 1..Len(text[f]) - h : rest[k] = text[f][h + k]
  <2>1. \A i \in h + 1..Len(text[f]) : text[f][i] \in Messages \cup {Fragment}
    BY <1>1, <1>2
  <2>2. /\ rest \in Seq(Messages \cup {Fragment})
        /\ Len(rest) = IF h + 1 <= Len(text[f]) THEN Len(text[f]) - (h + 1) + 1 ELSE 0
        /\ \A k \in 1..Len(text[f]) - (h + 1) + 1 : rest[k] = text[f][(h + 1) + k - 1]
    <3>1. h + 1 \in Int /\ Len(text[f]) \in Int
      BY <1>1, <1>2
    <3>2. QED
      BY <2>1, <3>1, SubSeqProperties, SMTT(60)
  <2>3. Len(rest) = IF h + 1 <= Len(text[f]) THEN Len(text[f]) - h ELSE 0
    BY <1>1, <1>2, <2>2
  <2>4. ASSUME NEW k \in 1..Len(text[f]) - h PROVE rest[k] = text[f][h + k]
    <3>1. (h + 1) + k - 1 = h + k /\ k \in 1..Len(text[f]) - (h + 1) + 1
      BY <1>1, <1>2
    <3>2. QED
      BY <2>2, <3>1
  <2>5. QED
    BY <2>2, <2>3, <2>4
<1> HIDE DEF rest
<1>5. CASE o % 2 = 1 /\ h <= Len(text[f])
  <2>1. lines = <<Fragment>> \o rest
    BY <1>3, <1>5
  <2>2. <<Fragment>> \in Seq(Messages \cup {Fragment}) /\ Len(<<Fragment>>) = 1
        /\ <<Fragment>>[1] = Fragment
    OBVIOUS
  <2>3. /\ lines \in Seq(Messages \cup {Fragment})
        /\ Len(lines) = 1 + Len(rest)
        /\ \A k \in 1..1 + Len(rest) :
             lines[k] = IF k <= 1 THEN <<Fragment>>[k] ELSE rest[k - 1]
    BY <1>4, <2>1, <2>2, ConcatProperties
  <2>4. lines[1] = Fragment
    BY <1>4, <2>2, <2>3
  <2>5. ASSUME NEW k \in 2..Len(lines)
        PROVE  h + k - 1 <= Len(text[f]) /\ lines[k] = text[f][h + k - 1]
    <3>1. k \in 1..1 + Len(rest) /\ ~(k <= 1) /\ k - 1 \in 1..Len(text[f]) - h
      BY <1>1, <1>2, <1>4, <2>3
    <3>2. lines[k] = rest[k - 1] /\ rest[k - 1] = text[f][h + (k - 1)]
      BY <1>4, <2>3, <3>1
    <3>3. h + (k - 1) = h + k - 1
      BY <1>1, <3>1
    <3>4. QED
      BY <1>1, <1>2, <3>1, <3>2, <3>3
  <2>6. QED
    BY <1>1, <1>5, <2>3, <2>4, <2>5
<1>6. CASE ~(o % 2 = 1 /\ h <= Len(text[f]))
  <2>1. lines = rest
    BY <1>3, <1>6
  <2>2. o % 2 = 1 => lines = <<>>
    BY <1>1, <1>2, <1>4, <1>6, <2>1
  <2>3. CASE o % 2 = 1
    <3>1. lines = <<>> /\ Len(lines) = 0
      BY <2>2, <2>3
    <3>2. \A k \in 2..Len(lines) :
            h + k - 1 <= Len(text[f]) /\ lines[k] = text[f][h + k - 1]
      BY <3>1
    <3>3. lines \in Seq(Messages \cup {Fragment})
      BY <1>4, <2>1
    <3>4. o = 2 * h - 1
      BY <1>1, <2>3
    <3> HIDE DEF lines
    <3>5. /\ lines \in Seq(Messages \cup {Fragment})
          /\ \E n \in 0..o :
               /\ o = 2 * n - 1
               /\ lines # <<>> => lines[1] = Fragment /\ n <= Len(text[f])
               /\ \A k \in 2..Len(lines) :
                    n + k - 1 <= Len(text[f]) /\ lines[k] = text[f][n + k - 1]
      BY <1>1, <3>1, <3>2, <3>3, <3>4
    <3>6. QED
      BY <3>5 DEF lines
  <2>4. CASE o % 2 # 1
    <3>1. \A k \in 1..Len(rest) : k \in 1..Len(text[f]) - h /\ h + k <= Len(text[f])
      BY <1>1, <1>2, <1>4
    <3>2. QED
      BY <1>1, <1>4, <2>1, <2>4, <3>1
  <2>5. QED
    BY <2>3, <2>4
<1>7. QED
  BY <1>5, <1>6

\* Every step keeps the types of the variables.
LEMMA NextTypeOK == TypeOK /\ Buffered /\ [Next]_vars => TypeOK'
<1> SUFFICES ASSUME TypeOK, Buffered, [Next]_vars PROVE TypeOK'
  OBVIOUS
<1> USE BoundsAssumption DEF logs, checkpoint, reader, history, budgets
<1>1. /\ disk \in [Files -> Nat \cup {NoEntry}] /\ offset \in [Files -> Nat \cup {NoEntry}]
      /\ base \in [Files -> Nat \cup {NoEntry}] /\ text \in [Files -> Seq(Messages)]
      /\ NoOffsets \in [Files -> Nat \cup {NoEntry}]
  BY DEF TypeOK, NoOffsets
<1>2. ASSUME WriteCheckpoint
      PROVE  /\ disk' \in [Files -> Nat \cup {NoEntry}]
             /\ pc' \in {"down", "idle", "read", "save"} /\ faults' \in 0..MaxFaults
  BY <1>1, <1>2, FaultType DEF WriteCheckpoint
<1>3. ASSUME NEW fs \in SUBSET Files, NEW from \in Copies, NEW to \in Copies,
             CopyAge(fs, from, to)
      PROVE  stale' \subseteq Copies \X Files
  <2>1. {g \in fs : <<from, g>> \in stale} \subseteq Files
    OBVIOUS
  <2>2. \A S \in SUBSET Files : {<<to, f>> : f \in S} \subseteq Copies \X Files
    OBVIOUS
  <2>3. stale \subseteq Copies \X Files
    BY DEF TypeOK
  <2>4. QED
    BY <1>3, <2>1, <2>2, <2>3 DEF CopyAge
<1>4. ASSUME NEW f \in Files, Look(f) PROVE skipped' \subseteq Files \X Messages
  <2>1. skipped' = skipped \/ skipped' = skipped \cup ({f} \X Before(f, ResolveStart(f)))
    BY <1>4 DEF Look
  <2>2. QED
    BY <2>1, StartType DEF TypeOK
<1>5. ASSUME NEW f \in Files, Create(f) PROVE TypeOK'
  BY <1>5 DEF TypeOK, Create
<1>6. ASSUME NEW f \in Files, NEW m \in Messages, BeginLine(f, m) PROVE TypeOK'
  <2>1. fresh' \in [Files -> SUBSET Messages] /\ tail' \in [Files -> Messages \cup {NoLine}]
    BY <1>6 DEF TypeOK, BeginLine
  <2>2. QED
    BY <1>6, <2>1 DEF TypeOK, BeginLine
<1>7. ASSUME NEW f \in Files, EndLine(f) PROVE TypeOK'
  <2>1. text[f] \in Seq(Messages) /\ tail[f] \in Messages
    BY <1>7 DEF TypeOK, EndLine
  <2>2. Append(text[f], tail[f]) \in Seq(Messages)
    BY <2>1, AppendProperties
  <2>3. text' \in [Files -> Seq(Messages)] /\ tail' \in [Files -> Messages \cup {NoLine}]
    BY <1>1, <1>7, <2>2 DEF TypeOK, EndLine
  <2>4. QED
    BY <1>7, <2>3 DEF TypeOK, EndLine
<1>8. ASSUME NEW f \in Files, Truncate(f) PROVE TypeOK'
  <2>1. text' \in [Files -> Seq(Messages)] /\ tail' \in [Files -> Messages \cup {NoLine}]
    BY <1>1, <1>8, EmptySeq DEF TypeOK, Truncate
  <2>2. base' \in [Files -> Nat \cup {NoEntry}] /\ stale' \subseteq Copies \X Files
    BY <1>1, <1>8 DEF TypeOK, Truncate
  <2>3. QED
    BY <1>8, <2>1, <2>2 DEF TypeOK, Truncate
<1>9. ASSUME NEW f \in Files, Baseline(f) PROVE TypeOK'
  <2>1. Look(f) /\ WriteCheckpoint
    BY <1>9 DEF Baseline
  <2>2. Size(f) \in Nat /\ ResolveStart(f) \in Nat
    BY SizeType, StartType
  <2>3. base' \in [Files -> Nat \cup {NoEntry}]
    BY <1>1, <1>9, <2>2 DEF Baseline
  <2>4. offset' \in [Files -> Nat \cup {NoEntry}]
    BY <1>1, <1>9, <2>2 DEF Baseline
  <2>5. stale' \subseteq Copies \X Files
    BY <1>9 DEF TypeOK, Baseline
  <2>6. UNCHANGED <<logs, seen, file, pos, buf, pubs, fresh, failed, truncations, crashes>>
    BY <1>9 DEF Baseline
  <2>7. QED
    BY <1>2, <1>4, <2>1, <2>3, <2>4, <2>5, <2>6 DEF TypeOK
<1>10. ASSUME NEW f \in Files, NothingNew(f) PROVE TypeOK'
  BY <1>4, <1>10 DEF TypeOK, NothingNew
<1>11. ASSUME NEW f \in Files, Read(f) PROVE TypeOK'
  <2>1. Look(f) /\ ResolveStart(f) \in Nat
    BY <1>11, StartType DEF Read
  <2>2. stale' \subseteq Copies \X Files
    BY <1>11 DEF TypeOK, Read
  <2>3. QED
    BY <1>4, <1>11, <2>1, <2>2 DEF TypeOK, Read
<1>12. ASSUME FillBuffer PROVE TypeOK'
  <2>1. file \in Files /\ pos \in Nat
    BY <1>12 DEF TypeOK, Buffered, FillBuffer
  <2>2. buf' \in Seq(Messages \cup {Fragment})
    BY <1>12, <2>1, LinesFromIs DEF FillBuffer
  <2>3. QED
    BY <1>12, <2>2 DEF TypeOK, FillBuffer
<1>13. ASSUME Suppress \/ Publish \/ PublishFails PROVE TypeOK'
  <2>1. NextLine /\ file \in Files
    BY <1>13 DEF Buffered, Suppress, Publish, PublishFails, NextLine
  <2>2. /\ Head(buf) \in Messages \cup {Fragment}
        /\ Tail(buf) \in Seq(Messages \cup {Fragment})
    BY <2>1, HeadTailProperties DEF TypeOK, NextLine
  <2>3. buf' \in Seq(Messages \cup {Fragment}) /\ pos' \in Nat
    BY <2>1, <2>2 DEF TypeOK, NextLine
  <2>4. faults' \in 0..MaxFaults
    BY <1>13, FaultType DEF TypeOK, Suppress, Publish, PublishFails
  <2>5. pubs' \in [Files -> [Messages -> Nat]]
    <3>1. pubs \in [Files -> [Messages -> Nat]]
      BY DEF TypeOK
    <3>2. \/ pubs' = pubs
          \/ Head(buf) # Fragment /\ pubs' = [pubs EXCEPT ![file][Head(buf)] = @ + 1]
      BY <1>13 DEF Suppress, Publish, PublishFails
    <3>3. ASSUME NEW m \in Messages, pubs' = [pubs EXCEPT ![file][m] = @ + 1]
          PROVE  pubs' \in [Files -> [Messages -> Nat]]
      <4>1. [pubs[file] EXCEPT ![m] = @ + 1] \in [Messages -> Nat]
        BY <2>1, <3>1
      <4>2. QED
        BY <2>1, <3>1, <3>3, <4>1
    <3>4. QED
      BY <2>2, <3>1, <3>2, <3>3
  <2>6. seen' \subseteq Files \X Messages /\ failed' \subseteq Files \X Messages
    BY <1>13, <2>1, <2>2 DEF TypeOK, Suppress, Publish, PublishFails
  <2>7. UNCHANGED <<logs, checkpoint, pc, file, base, fresh, stale, skipped,
                    truncations, crashes>>
    BY <2>1 DEF NextLine
  <2>8. QED
    BY <2>3, <2>4, <2>5, <2>6, <2>7 DEF TypeOK
<1>14. ASSUME EndOfFile PROVE TypeOK'
  <2>1. /\ WriteCheckpoint /\ file \in Files /\ pos \in Nat
        /\ CopyAge({file}, "pos", "memory")
    BY <1>14 DEF TypeOK, Buffered, EndOfFile
  <2>2. offset' \in [Files -> Nat \cup {NoEntry}]
    BY <1>1, <1>14, <2>1 DEF EndOfFile
  <2>3. stale' \subseteq Copies \X Files
    BY <1>3, <2>1 DEF Copies
  <2>4. /\ UNCHANGED <<logs, seen, buf, pubs, base, fresh, failed, skipped,
                       truncations, crashes>>
        /\ file' = NoFile /\ pos' = 0
    BY <1>14 DEF EndOfFile
  <2>5. QED
    BY <1>2, <2>1, <2>2, <2>3, <2>4 DEF TypeOK
<1>15. ASSUME Save PROVE TypeOK'
  <2>1. stale' \subseteq Copies \X Files
    BY <1>3, <1>15 DEF TypeOK, Save, Copies
  <2>2. faults' \in 0..MaxFaults
    BY <1>15, FaultType DEF Save
  <2>3. QED
    BY <1>1, <1>15, <2>1, <2>2 DEF TypeOK, Save
<1>16. ASSUME Start PROVE TypeOK'
  <2>1. stale' \subseteq Copies \X Files
    BY <1>3, <1>16 DEF Start, Copies
  <2>2. QED
    BY <1>16, <2>1 DEF TypeOK, Start
<1>17. ASSUME Crash PROVE TypeOK'
  BY <1>1, <1>17, EmptySeq DEF TypeOK, Crash
<1>18. ASSUME UNCHANGED vars PROVE TypeOK'
  BY <1>18 DEF TypeOK, vars
<1>19. QED
  BY <1>5, <1>6, <1>7, <1>8, <1>9, <1>10, <1>11, <1>12, <1>13, <1>14, <1>15,
     <1>16, <1>17, <1>18
  DEF Next, ProcessFile

\* What is known of a message is never forgotten.
KnownNext(f, m) == pubs'[f][m] > 0 \/ <<f, m>> \in failed' \cup skipped'

LEMMA KnownGrows ==
  ASSUME TypeOK, TypeOK', Buffered, [Next]_vars, NEW f \in Files, NEW m \in Messages
  PROVE  Known(f, m) => KnownNext(f, m)
<1>1. pubs[f][m] \in Nat
  BY DEF TypeOK
<1>2. ASSUME pubs'[f][m] >= pubs[f][m], failed \subseteq failed', skipped \subseteq skipped'
      PROVE  Known(f, m) => KnownNext(f, m)
  BY <1>1, <1>2 DEF Known, KnownNext, TypeOK
<1> USE DEF logs, checkpoint, reader, history, budgets
<1>3. ASSUME Suppress \/ Publish \/ PublishFails PROVE Known(f, m) => KnownNext(f, m)
  <2>1. NextLine /\ file \in Files
    BY <1>3 DEF Buffered, Suppress, Publish, PublishFails, NextLine
  <2>2. Head(buf) \in Messages \cup {Fragment}
    BY <2>1, HeadTailProperties DEF TypeOK, NextLine
  <2>3. failed \subseteq failed' /\ skipped \subseteq skipped'
    BY <1>3, <2>1 DEF Suppress, Publish, PublishFails, NextLine
  <2>4. pubs' = pubs \/ pubs' = [pubs EXCEPT ![file][Head(buf)] = @ + 1]
    BY <1>3 DEF Suppress, Publish, PublishFails
  <2>5. pubs'[f][m] >= pubs[f][m]
    <3>1. pubs \in [Files -> [Messages -> Nat]]
      BY DEF TypeOK
    <3>2. Head(buf) # m \/ file # f => pubs'[f][m] = pubs[f][m]
      BY <2>1, <2>4, <3>1
    <3>3. Head(buf) = m /\ file = f => pubs'[f][m] \in {pubs[f][m], pubs[f][m] + 1}
      BY <2>1, <2>4, <3>1
    <3>4. QED
      BY <1>1, <3>2, <3>3
  <2>6. QED
    BY <1>2, <2>3, <2>5
<1>4. ASSUME NEW g \in Files, Look(g) PROVE skipped \subseteq skipped'
  BY <1>4 DEF Look
<1>5. ASSUME NEW g \in Files, Baseline(g) \/ NothingNew(g) \/ Read(g)
      PROVE  Known(f, m) => KnownNext(f, m)
  <2>1. Look(g) /\ UNCHANGED <<pubs, failed>>
    BY <1>5 DEF Baseline, NothingNew, Read
  <2>2. QED
    BY <1>1, <1>2, <1>4, <2>1
<1>6. ASSUME UNCHANGED <<pubs, failed, skipped>> PROVE Known(f, m) => KnownNext(f, m)
  BY <1>6 DEF Known, KnownNext
<1>7. \/ UNCHANGED <<pubs, failed, skipped>>
      \/ Suppress \/ Publish \/ PublishFails
      \/ \E g \in Files : Baseline(g) \/ NothingNew(g) \/ Read(g)
  BY DEF Next, ProcessFile, Create, BeginLine, EndLine, Truncate, FillBuffer, EndOfFile,
         Save, Start, Crash, vars
<1>8. QED
  BY <1>3, <1>5, <1>6, <1>7

\* Sound, in the next state, of an offset o of now.
SoundNext(copy, o, f) ==
  o # NoEntry =>
    /\ base'[f] # NoEntry /\ base'[f] <= o
    /\ <<copy, f>> \in stale' => base'[f] = 0
    /\ <<copy, f>> \notin stale' =>
         /\ o <= 2 * Len(text'[f]) + IF tail'[f] = NoLine THEN 0 ELSE 1
         /\ \A i \in 1..Len(text'[f]) : 2 * (i - 1) < o => KnownNext(f, text'[f][i])
         /\ tail'[f] # NoLine /\ 2 * Len(text'[f]) < o => KnownNext(f, tail'[f])

\* An offset that is copied is as sound as the one it was copied from.
LEMMA SoundCopied ==
  ASSUME TypeOK, TypeOK', Buffered, [Next]_vars,
         NEW f \in Files, NEW from, NEW to, NEW o \in Nat \cup {NoEntry},
         text'[f] = text[f], tail'[f] = tail[f],
         base'[f] = base[f] \/ base[f] = NoEntry,
         <<to, f>> \in stale' <=> <<from, f>> \in stale,
         Sound(from, o, f)
  PROVE  SoundNext(to, o, f)
<1>1. SUFFICES ASSUME o # NoEntry PROVE SoundNext(to, o, f)
  BY DEF SoundNext
<1>2. /\ Len(text[f]) \in Nat /\ \A i \in 1..Len(text[f]) : text[f][i] \in Messages
      /\ Size(f) = 2 * Len(text[f]) + IF tail[f] = NoLine THEN 0 ELSE 1
  BY SizeType
<1>3. tail[f] \in Messages \cup {NoLine}
  BY DEF TypeOK
<1>4. \A m \in Messages : Known(f, m) => KnownNext(f, m)
  BY KnownGrows
<1>5. base'[f] = base[f] /\ base[f] # NoEntry /\ base[f] <= o
  BY <1>1 DEF Sound
<1>6. QED
  BY <1>1, <1>2, <1>3, <1>4, <1>5 DEF Sound, SoundNext

\* Lines that are written, and a file that is cleared, leave an offset sound.
LEMMA SoundWhileLogging ==
  ASSUME TypeOK, TypeOK', Buffered, [Next]_vars,
         NEW g \in Files, (\E m \in Messages : BeginLine(g, m)) \/ EndLine(g) \/ Truncate(g),
         NEW f \in Files, NEW copy \in Copies, NEW o \in Nat \cup {NoEntry},
         Sound(copy, o, f)
  PROVE  SoundNext(copy, o, f)
<1> SUFFICES ASSUME o # NoEntry PROVE SoundNext(copy, o, f)
  BY DEF SoundNext
<1>1. /\ Len(text[f]) \in Nat /\ \A i \in 1..Len(text[f]) : text[f][i] \in Messages
      /\ Size(f) = 2 * Len(text[f]) + IF tail[f] = NoLine THEN 0 ELSE 1
  BY SizeType
<1>2. /\ tail \in [Files -> Messages \cup {NoLine}] /\ text \in [Files -> Seq(Messages)]
      /\ base \in [Files -> Nat \cup {NoEntry}]
  BY DEF TypeOK
<1>3. \A m \in Messages : Known(f, m) => KnownNext(f, m)
  BY KnownGrows
<1>4. /\ base[f] # NoEntry /\ base[f] <= o /\ base[f] \in Nat /\ o \in Nat
  BY <1>2 DEF Sound
<1> USE DEF logs, checkpoint, reader, history, budgets
<1>5. CASE f # g
  <2>1. /\ text'[f] = text[f] /\ tail'[f] = tail[f] /\ base'[f] = base[f]
        /\ <<copy, f>> \in stale' <=> <<copy, f>> \in stale
    BY <1>2, <1>5 DEF BeginLine, EndLine, Truncate
  <2>2. QED
    BY <2>1, SoundCopied
<1>6. ASSUME NEW m \in Messages, f = g, BeginLine(f, m) PROVE SoundNext(copy, o, f)
  <2>1. /\ tail[f] = NoLine /\ tail'[f] = m /\ text' = text /\ base' = base /\ stale' = stale
    BY <1>2, <1>6 DEF BeginLine
  <2>2. QED
    BY <1>1, <1>2, <1>3, <1>4, <2>1, NamesAssumption DEF Sound, SoundNext
<1>7. CASE f = g /\ EndLine(f)
  <2>1. /\ tail[f] # NoLine /\ tail'[f] = NoLine /\ base' = base /\ stale' = stale
        /\ text'[f] = Append(text[f], tail[f])
    BY <1>2, <1>7 DEF EndLine
  <2>2. /\ Len(text'[f]) = Len(text[f]) + 1
        /\ \A i \in 1..Len(text[f]) : text'[f][i] = text[f][i]
        /\ text'[f][Len(text[f]) + 1] = tail[f]
    BY <1>2, <2>1, AppendProperties
  <2>3. tail[f] \in Messages
    BY <1>2, <2>1
  <2>4. base'[f] # NoEntry /\ base'[f] <= o /\ (<<copy, f>> \in stale' => base'[f] = 0)
    BY <1>4, <2>1 DEF Sound
  <2>5. ASSUME <<copy, f>> \notin stale'
        PROVE  /\ o <= 2 * Len(text'[f])
               /\ \A i \in 1..Len(text'[f]) : 2 * (i - 1) < o => KnownNext(f, text'[f][i])
    <3>1. /\ o <= 2 * Len(text[f]) + 1
          /\ \A i \in 1..Len(text[f]) : 2 * (i - 1) < o => Known(f, text[f][i])
          /\ 2 * Len(text[f]) < o => Known(f, tail[f])
      BY <1>1, <2>1, <2>5 DEF Sound
    <3>2. ASSUME NEW i \in 1..Len(text'[f]), 2 * (i - 1) < o PROVE KnownNext(f, text'[f][i])
      <4>1. i \in 1..Len(text[f]) \/ i = Len(text[f]) + 1
        BY <1>1, <2>2
      <4>2. CASE i \in 1..Len(text[f])
        BY <1>1, <1>3, <2>2, <3>1, <3>2, <4>2
      <4>3. CASE i = Len(text[f]) + 1
        BY <1>1, <1>3, <2>2, <2>3, <3>1, <3>2, <4>3
      <4>4. QED
        BY <4>1, <4>2, <4>3
    <3>3. QED
      BY <1>1, <1>4, <2>2, <3>1, <3>2
  <2>6. QED
    BY <2>1, <2>4, <2>5, <1>4, <1>1, <2>2 DEF SoundNext
<1>8. CASE f = g /\ Truncate(f)
  <2>1. <<copy, f>> \in stale' /\ base'[f] = 0
    BY <1>2, <1>4, <1>8 DEF Truncate
  <2>2. QED
    <3>1. base'[f] # NoEntry
      BY <2>1, NamesAssumption
    <3>2. base'[f] <= o
      BY <1>4, <2>1
    <3>3. QED
      BY <2>1, <3>1, <3>2 DEF SoundNext
<1>9. QED
  BY <1>5, <1>6, <1>7, <1>8

\* Before a start that skips lines unread, they are noted as skipped.
LEMMA LookSettles ==
  ASSUME TypeOK, NEW f \in Files, Look(f),
         \/ offset[f] = NoEntry
         \/ <<"memory", f>> \in stale /\ offset[f] <= Size(f)
  PROVE  /\ \A i \in 1..Len(text[f]) :
              2 * (i - 1) < ResolveStart(f) => KnownNext(f, text[f][i])
         /\ tail[f] # NoLine /\ 2 * Len(text[f]) < ResolveStart(f) => KnownNext(f, tail[f])
<1>1. \A m \in Before(f, ResolveStart(f)) : <<f, m>> \in skipped'
  BY DEF Look
<1>2. QED
  BY <1>1, SizeType DEF Before, KnownNext

\* The line at the head of the buffer is settled when the reader is past it.
LEMMA SoundPastLine ==
  ASSUME IInv, TypeOK', [Next]_vars, Suppress \/ Publish \/ PublishFails
  PROVE  SoundNext("pos", pos', file)
<1>1. /\ NextLine /\ file \in Files /\ TypeOK /\ Buffered /\ pc = "read"
      /\ Sound("pos", pos, file) /\ pos \in Nat
  BY DEF IInv, Buffered, Suppress, Publish, PublishFails, NextLine, OffsetsSound, TypeOK
<1>2. /\ Len(text[file]) \in Nat
      /\ \A i \in 1..Len(text[file]) : text[file][i] \in Messages
      /\ Size(file) = 2 * Len(text[file]) + IF tail[file] = NoLine THEN 0 ELSE 1
      /\ tail[file] \in Messages \cup {NoLine}
      /\ buf \in Seq(Messages \cup {Fragment})
  BY <1>1, SizeType DEF TypeOK
<1>3. buf # <<>> /\ Head(buf) = buf[1] /\ Len(buf) \in Nat /\ Len(buf) >= 1
  BY <1>1, <1>2 DEF NextLine
<1>4. \A m \in Messages : Known(file, m) => KnownNext(file, m)
  BY <1>1, KnownGrows
<1>5. UNCHANGED <<text, tail, base, stale, file>>
  BY <1>1 DEF NextLine, logs
<1>6. Head(buf) # Fragment => KnownNext(file, Head(buf))
  <2>1. SUFFICES ASSUME Head(buf) # Fragment PROVE KnownNext(file, Head(buf))
    OBVIOUS
  <2>2. Head(buf) \in Messages
    BY <1>2, <1>3, <2>1
  <2>3. CASE Suppress
    BY <1>1, <1>4, <2>1, <2>2, <2>3 DEF IInv, SeenAccountedFor, Suppress, Known
  <2>4. CASE Publish
    <3>1. pubs[file] \in [Messages -> Nat] /\ pubs \in [Files -> [Messages -> Nat]]
      BY <1>1 DEF TypeOK
    <3>2. pubs'[file][Head(buf)] = pubs[file][Head(buf)] + 1
      BY <1>1, <2>2, <2>4, <3>1 DEF Publish
    <3>3. QED
      BY <2>2, <3>1, <3>2 DEF KnownNext
  <2>5. CASE PublishFails
    BY <2>5 DEF PublishFails, KnownNext
  <2>6. QED
    BY <2>3, <2>4, <2>5
<1>7. base[file] # NoEntry /\ base[file] \in Nat /\ base[file] <= pos
      /\ (<<"pos", file>> \in stale => base[file] = 0)
  BY <1>1, NamesAssumption DEF Sound, TypeOK
<1>8. pos' = pos + (IF Head(buf) = Fragment THEN 1 ELSE 2) /\ pos' \in Nat
  BY <1>1 DEF NextLine
<1>9. pos' # NoEntry /\ base'[file] # NoEntry /\ base'[file] <= pos'
      /\ (<<"pos", file>> \in stale' => base'[file] = 0)
  BY <1>1, <1>5, <1>7, <1>8, NamesAssumption
<1>10. ASSUME <<"pos", file>> \notin stale
       PROVE  /\ pos' <= 2 * Len(text[file]) + IF tail[file] = NoLine THEN 0 ELSE 1
              /\ \A i \in 1..Len(text[file]) : 2 * (i - 1) < pos' => KnownNext(file, text[file][i])
              /\ tail[file] # NoLine /\ 2 * Len(text[file]) < pos' => KnownNext(file, tail[file])
  <2>0. pos' <= 2 * Len(text[file]) =>
          pos' <= 2 * Len(text[file]) + IF tail[file] = NoLine THEN 0 ELSE 1
    <3>1. (IF tail[file] = NoLine THEN 0 ELSE 1) \in {0, 1}
      OBVIOUS
    <3>2. \A n \in {0, 1} : pos' <= 2 * Len(text[file]) => pos' <= 2 * Len(text[file]) + n
      BY <1>2, <1>8
    <3>3. QED
      BY <3>1, <3>2, Zenon
  <2>1. /\ pos <= 2 * Len(text[file]) + IF tail[file] = NoLine THEN 0 ELSE 1
        /\ \A i \in 1..Len(text[file]) : 2 * (i - 1) < pos => KnownNext(file, text[file][i])
        /\ tail[file] # NoLine /\ 2 * Len(text[file]) < pos => KnownNext(file, tail[file])
    BY <1>1, <1>2, <1>4, <1>10, NamesAssumption DEF Sound
  <2>2. PICK h \in 0..pos :
          \/ /\ pos = 2 * h
             /\ \A k \in 1..Len(buf) :
                  h + k <= Len(text[file]) /\ buf[k] = text[file][h + k]
          \/ /\ pos = 2 * h - 1
             /\ buf # <<>> => buf[1] = Fragment /\ h <= Len(text[file])
             /\ \A k \in 2..Len(buf) :
                  h + k - 1 <= Len(text[file]) /\ buf[k] = text[file][h + k - 1]
    BY <1>1, <1>10 DEF IInv, Buffered, InStep
  <2>3. CASE pos = 2 * h /\ h + 1 <= Len(text[file]) /\ buf[1] = text[file][h + 1]
    <3>1. Head(buf) = text[file][h + 1] /\ Head(buf) # Fragment
      BY <1>2, <1>3, <2>2, <2>3, NamesAssumption
    <3>2. pos' = 2 * (h + 1)
      BY <1>8, <2>3, <3>1
    <3>3. KnownNext(file, text[file][h + 1])
      BY <1>6, <3>1
    <3>4. ASSUME NEW i \in 1..Len(text[file]), 2 * (i - 1) < pos'
          PROVE  KnownNext(file, text[file][i])
      <4>1. i = h + 1 \/ 2 * (i - 1) < pos
        BY <1>1, <2>2, <2>3, <3>2, <3>4
      <4>2. QED
        BY <2>1, <3>3, <4>1
    <3>5. ~(2 * Len(text[file]) < pos') /\ pos' <= 2 * Len(text[file])
      BY <1>2, <2>2, <2>3, <3>2
    <3>6. QED
      BY <2>0, <3>4, <3>5
  <2>4. CASE pos = 2 * h - 1 /\ buf[1] = Fragment /\ h <= Len(text[file])
    <3>1. pos' = 2 * h /\ h \in Nat
      BY <1>3, <1>8, <2>2, <2>4
    <3>2. ASSUME NEW i \in 1..Len(text[file]), 2 * (i - 1) < pos'
          PROVE  KnownNext(file, text[file][i])
      <4>1. 2 * (i - 1) < pos
        BY <2>4, <3>1, <3>2
      <4>2. QED
        BY <2>1, <4>1
    <3>3. ~(2 * Len(text[file]) < pos') /\ pos' <= 2 * Len(text[file])
      BY <1>2, <2>4, <3>1
    <3>4. QED
      BY <2>0, <3>2, <3>3
  <2>5. 1 \in 1..Len(buf)
    BY <1>3
  <2>6. \/ pos = 2 * h /\ h + 1 <= Len(text[file]) /\ buf[1] = text[file][h + 1]
        \/ pos = 2 * h - 1 /\ buf[1] = Fragment /\ h <= Len(text[file])
    BY <1>3, <2>2, <2>5
  <2>7. QED
    BY <2>3, <2>4, <2>6, Zenon
<1>11. QED
  BY <1>5, <1>9, <1>10 DEF SoundNext

\* Every copy of an offset stays sound.
LEMMA NextOffsetsSound == IInv /\ [Next]_vars => OffsetsSound'
<1> SUFFICES ASSUME IInv, [Next]_vars PROVE OffsetsSound'
  OBVIOUS
<1>1. TypeOK /\ Buffered /\ TypeOK'
  BY NextTypeOK DEF IInv
<1>2. ASSUME \A f \in Files : SoundNext("disk", disk'[f], f),
             \A f \in Files : SoundNext("memory", offset'[f], f),
             pc' = "read" => SoundNext("pos", pos', file')
      PROVE  OffsetsSound'
  BY <1>2 DEF OffsetsSound, Sound, SoundNext, Known, KnownNext, Size
<1>3. /\ \A f \in Files : Sound("disk", disk[f], f) /\ disk[f] \in Nat \cup {NoEntry}
      /\ \A f \in Files : Sound("memory", offset[f], f) /\ offset[f] \in Nat \cup {NoEntry}
      /\ pc = "read" => Sound("pos", pos, file) /\ file \in Files
      /\ pos \in Nat \cup {NoEntry} /\ Copies = {"disk", "memory", "pos"}
  BY <1>1 DEF IInv, OffsetsSound, TypeOK, Buffered, Copies
<1> USE DEF logs, checkpoint, reader, history, budgets
\* A copy that nobody touches.
<1>4. ASSUME UNCHANGED <<text, tail>>, NEW f \in Files, NEW copy \in Copies,
             base'[f] = base[f] \/ base[f] = NoEntry,
             <<copy, f>> \in stale' <=> <<copy, f>> \in stale
      PROVE  \A o \in Nat \cup {NoEntry} : Sound(copy, o, f) => SoundNext(copy, o, f)
  BY <1>1, <1>4, SoundCopied
<1>5. ASSUME UNCHANGED <<text, tail, base, stale, disk, offset>>,
             pc' = "read" => pc = "read" /\ UNCHANGED <<pos, file>>
      PROVE  OffsetsSound'
  <2>1. \A f \in Files, copy \in Copies : \A o \in Nat \cup {NoEntry} :
          Sound(copy, o, f) => SoundNext(copy, o, f)
    BY <1>4, <1>5
  <2>2. QED
    BY <1>2, <1>3, <1>5, <2>1
<1>6. ASSUME NEW g \in Files,
             (\E m \in Messages : BeginLine(g, m)) \/ EndLine(g) \/ Truncate(g)
      PROVE  OffsetsSound'
  <2>1. \A f \in Files, copy \in Copies : \A o \in Nat \cup {NoEntry} :
          Sound(copy, o, f) => SoundNext(copy, o, f)
    BY <1>1, <1>6, SoundWhileLogging
  <2>2. UNCHANGED <<disk, offset, pc, pos, file>>
    BY <1>6 DEF BeginLine, EndLine, Truncate
  <2>3. QED
    BY <1>2, <1>3, <2>1, <2>2
\* The checkpoint file is emptied, or left alone.
<1>7. ASSUME WriteCheckpoint, UNCHANGED <<text, tail>>,
             \A f \in Files : base'[f] = base[f] \/ base[f] = NoEntry,
             \A f \in Files : <<"disk", f>> \in stale' <=> <<"disk", f>> \in stale
      PROVE  pc' # "read" /\ \A f \in Files : SoundNext("disk", disk'[f], f)
  <2>1. pc' # "read" /\ (disk' = NoOffsets \/ disk' = disk)
    BY <1>7 DEF WriteCheckpoint
  <2>2. CASE disk' = NoOffsets
    BY <2>1, <2>2 DEF NoOffsets, SoundNext
  <2>3. CASE disk' = disk
    <3>1. \A f \in Files : \A o \in Nat \cup {NoEntry} :
            Sound("disk", o, f) => SoundNext("disk", o, f)
      BY <1>3, <1>4, <1>7
    <3>2. QED
      BY <1>3, <2>1, <2>3, <3>1
  <2>4. QED
    BY <2>1, <2>2, <2>3
<1>8. ASSUME NEW g \in Files, Baseline(g) PROVE OffsetsSound'
  <2>1. /\ Look(g) /\ WriteCheckpoint /\ offset[g] = NoEntry /\ UNCHANGED <<text, tail>>
        /\ offset' = [offset EXCEPT ![g] = ResolveStart(g)]
        /\ stale' = stale \ {<<"memory", g>>}
        /\ base' = IF base[g] = NoEntry THEN [base EXCEPT ![g] = Size(g)] ELSE base
    BY <1>8 DEF Baseline
  <2>2. /\ base \in [Files -> Nat \cup {NoEntry}] /\ offset \in [Files -> Nat \cup {NoEntry}]
        /\ Size(g) \in Nat /\ ResolveStart(g) = Size(g)
    BY <1>1, <2>1, SizeType DEF TypeOK, ResolveStart
  <2>3. /\ \A f \in Files : base'[f] = base[f] \/ base[f] = NoEntry
        /\ \A f \in Files \ {g} : base'[f] = base[f] /\ offset'[f] = offset[f]
        /\ offset'[g] = Size(g)
        /\ base'[g] = IF base[g] = NoEntry THEN Size(g) ELSE base[g]
    BY <2>1, <2>2
  <2>4. /\ \A f \in Files : <<"disk", f>> \in stale' <=> <<"disk", f>> \in stale
        /\ \A f \in Files \ {g} : <<"memory", f>> \in stale' <=> <<"memory", f>> \in stale
        /\ <<"memory", g>> \notin stale'
    BY <2>1
  <2>5. pc' # "read" /\ \A f \in Files : SoundNext("disk", disk'[f], f)
    BY <1>7, <2>1, <2>3, <2>4
  <2>6. ASSUME NEW f \in Files \ {g} PROVE SoundNext("memory", offset'[f], f)
    <3>1. \A o \in Nat \cup {NoEntry} : Sound("memory", o, f) => SoundNext("memory", o, f)
      BY <1>3, <1>4, <2>1, <2>3, <2>4
    <3>2. QED
      BY <1>3, <2>3, <3>1
  <2>7. SoundNext("memory", offset'[g], g)
    <3>1. base'[g] # NoEntry /\ base'[g] <= Size(g)
      <4>1. CASE base[g] = NoEntry
        BY <2>2, <2>3, <4>1, NamesAssumption
      <4>2. CASE base[g] # NoEntry
        BY <2>3, <4>2 DEF IInv, FreshBehindBase
      <4>3. QED
        BY <4>1, <4>2
    <3>2. /\ \A i \in 1..Len(text'[g]) : 2 * (i - 1) < Size(g) => KnownNext(g, text'[g][i])
          /\ tail'[g] # NoLine /\ 2 * Len(text'[g]) < Size(g) => KnownNext(g, tail'[g])
      BY <1>1, <2>1, <2>2, LookSettles
    <3>3. /\ Size(g) = 2 * Len(text'[g]) + IF tail'[g] = NoLine THEN 0 ELSE 1
          /\ Size(g) <= Size(g)
      BY <2>1, <2>2 DEF Size
    <3>4. QED
      BY <2>3, <2>4, <3>1, <3>2, <3>3, Zenon DEF SoundNext
  <2>8. QED
    BY <1>2, <2>5, <2>6, <2>7
<1>9. ASSUME NEW g \in Files, NothingNew(g) PROVE OffsetsSound'
  BY <1>5, <1>9 DEF NothingNew, Look
<1>10. ASSUME NEW g \in Files, Read(g) PROVE OffsetsSound'
  <2>1. /\ Look(g) /\ ResolveStart(g) < Size(g) /\ pos' = ResolveStart(g) /\ file' = g
        /\ stale' = stale \ {<<"pos", g>>} /\ UNCHANGED <<text, tail, base, disk, offset>>
    BY <1>10 DEF Read
  <2>2. \A f \in Files, copy \in {"disk", "memory"} : \A o \in Nat \cup {NoEntry} :
          Sound(copy, o, f) => SoundNext(copy, o, f)
    BY <1>3, <1>4, <2>1
  <2>3. SoundNext("pos", pos', file')
    <3>0. /\ Size(g) = 2 * Len(text'[g]) + IF tail'[g] = NoLine THEN 0 ELSE 1
          /\ UNCHANGED <<text, tail, base>>
      BY <2>1 DEF Size
    <3>1. /\ offset[g] \in Nat \cup {NoEntry} /\ Size(g) \in Nat
          /\ ResolveStart(g) \in Nat /\ Len(text[g]) \in Nat
      BY <1>1, SizeType, StartType DEF TypeOK
    <3>2. /\ offset[g] # NoEntry /\ Sound("memory", offset[g], g)
          /\ <<"pos", g>> \notin stale'
      BY <1>3, <2>1, <3>1 DEF ResolveStart
    <3>3. CASE offset[g] > Size(g)
      <4>1. ResolveStart(g) = 0
        BY <3>2, <3>3 DEF ResolveStart
      <4>2. <<"memory", g>> \in stale /\ base[g] = 0
        BY <3>1, <3>2, <3>3 DEF Sound
      <4>3. \A i \in 1..Len(text[g]) : ~(2 * (i - 1) < 0)
        BY <3>1
      <4>4. /\ base[g] # NoEntry /\ base[g] <= 0 /\ 0 <= Size(g)
            /\ ~(2 * Len(text[g]) < 0)
        BY <3>1, <4>2, NamesAssumption
      <4>5. pos' = 0 /\ file' = g
        BY <2>1, <4>1
      <4>6. SoundNext("pos", 0, g)
        BY <3>0, <3>2, <4>3, <4>4, Zenon DEF SoundNext
      <4>7. QED
        BY <4>5, <4>6
    <3>4. CASE <<"memory", g>> \notin stale
      <4>1. offset[g] <= Size(g)
        BY <3>1, <3>2, <3>4 DEF Sound
      <4>2. ResolveStart(g) = offset[g]
        BY <3>1, <3>2, <4>1 DEF ResolveStart
      <4>3. SoundNext("pos", offset[g], g)
        BY <1>1, <2>1, <3>1, <3>2, <3>4, SoundCopied
      <4>4. QED
        BY <2>1, <4>2, <4>3
    <3>5. CASE <<"memory", g>> \in stale /\ ~(offset[g] > Size(g))
      <4>1. ResolveStart(g) = offset[g] /\ offset[g] <= Size(g) /\ offset[g] \in Nat
        BY <3>1, <3>2, <3>5 DEF ResolveStart
      <4>2. /\ \A i \in 1..Len(text[g]) : 2 * (i - 1) < offset[g] => KnownNext(g, text[g][i])
            /\ tail[g] # NoLine /\ 2 * Len(text[g]) < offset[g] => KnownNext(g, tail[g])
        BY <1>1, <2>1, <3>5, <4>1, LookSettles
      <4>3. base[g] # NoEntry /\ base[g] <= offset[g]
        BY <3>2 DEF Sound
      <4>4. SoundNext("pos", offset[g], g)
        BY <3>0, <3>2, <4>1, <4>2, <4>3, Zenon DEF SoundNext
      <4>5. QED
        BY <2>1, <4>1, <4>4
    <3>6. QED
      BY <3>3, <3>4, <3>5
  <2>4. QED
    BY <1>2, <1>3, <2>1, <2>2, <2>3
<1>11. ASSUME Suppress \/ Publish \/ PublishFails PROVE OffsetsSound'
  <2>1. SoundNext("pos", pos', file)
    BY <1>1, <1>11, SoundPastLine
  <2>2. UNCHANGED <<text, tail, base, stale, disk, offset, file>>
    BY <1>11 DEF Suppress, Publish, PublishFails, NextLine
  <2>3. \A f \in Files, copy \in Copies : \A o \in Nat \cup {NoEntry} :
          Sound(copy, o, f) => SoundNext(copy, o, f)
    BY <1>4, <2>2
  <2>4. QED
    BY <1>2, <1>3, <2>1, <2>2, <2>3
<1>12. ASSUME EndOfFile PROVE OffsetsSound'
  <2>1. /\ WriteCheckpoint /\ CopyAge({file}, "pos", "memory") /\ pc = "read"
        /\ offset' = [offset EXCEPT ![file] = pos] /\ UNCHANGED <<text, tail, base>>
    BY <1>12 DEF EndOfFile
  <2>2. /\ \A f \in Files : <<"disk", f>> \in stale' <=> <<"disk", f>> \in stale
        /\ \A f \in Files \ {file} : <<"memory", f>> \in stale' <=> <<"memory", f>> \in stale
        /\ <<"memory", file>> \in stale' <=> <<"pos", file>> \in stale
    BY <2>1 DEF CopyAge
  <2>3. pc' # "read" /\ \A f \in Files : SoundNext("disk", disk'[f], f)
    BY <1>7, <2>1, <2>2
  <2>4. /\ offset'[file] = pos /\ file \in Files
        /\ \A f \in Files \ {file} : offset'[f] = offset[f]
    BY <1>1, <1>3, <2>1 DEF TypeOK
  <2>5. ASSUME NEW f \in Files \ {file} PROVE SoundNext("memory", offset'[f], f)
    <3>1. \A o \in Nat \cup {NoEntry} : Sound("memory", o, f) => SoundNext("memory", o, f)
      BY <1>3, <1>4, <2>1, <2>2
    <3>2. QED
      BY <1>3, <2>4, <3>1
  <2>6. SoundNext("memory", pos, file)
    BY <1>1, <1>3, <2>1, <2>2, <2>4, SoundCopied
  <2>7. QED
    BY <1>2, <2>3, <2>4, <2>5, <2>6
<1>13. ASSUME Save PROVE OffsetsSound'
  <2>1. pc' # "read" /\ UNCHANGED <<text, tail, base, offset>>
    BY <1>13 DEF Save
  <2>2. CASE disk' = offset /\ CopyAge(Files, "memory", "disk")
    <3>1. \A f \in Files : /\ <<"disk", f>> \in stale' <=> <<"memory", f>> \in stale
                           /\ <<"memory", f>> \in stale' <=> <<"memory", f>> \in stale
      BY <2>2 DEF CopyAge
    <3>2. \A f \in Files : \A o \in Nat \cup {NoEntry} :
            Sound("memory", o, f) => SoundNext("disk", o, f) /\ SoundNext("memory", o, f)
      BY <1>1, <2>1, <3>1, SoundCopied
    <3>3. QED
      BY <1>2, <1>3, <2>1, <2>2, <3>2
  <2>3. CASE UNCHANGED <<disk, stale>>
    BY <1>5, <2>1, <2>3
  <2>4. QED
    BY <1>13, <2>2, <2>3 DEF Save
<1>14. ASSUME Start PROVE OffsetsSound'
  <2>1. /\ pc' # "read" /\ UNCHANGED <<text, tail, base, disk>> /\ offset' = disk
        /\ CopyAge(Files, "disk", "memory")
    BY <1>14 DEF Start
  <2>2. \A f \in Files : /\ <<"memory", f>> \in stale' <=> <<"disk", f>> \in stale
                         /\ <<"disk", f>> \in stale' <=> <<"disk", f>> \in stale
    BY <2>1 DEF CopyAge
  <2>3. \A f \in Files : \A o \in Nat \cup {NoEntry} :
          Sound("disk", o, f) => SoundNext("disk", o, f) /\ SoundNext("memory", o, f)
    BY <1>1, <2>1, <2>2, SoundCopied
  <2>4. QED
    BY <1>2, <1>3, <2>1, <2>3
<1>15. ASSUME Crash PROVE OffsetsSound'
  <2>1. /\ pc' # "read" /\ UNCHANGED <<text, tail, base, stale, disk>> /\ offset' = NoOffsets
    BY <1>15 DEF Crash
  <2>2. \A f \in Files : \A o \in Nat \cup {NoEntry} :
          Sound("disk", o, f) => SoundNext("disk", o, f)
    BY <1>3, <1>4, <2>1
  <2>3. \A f \in Files : SoundNext("memory", offset'[f], f)
    BY <2>1 DEF NoOffsets, SoundNext
  <2>4. QED
    BY <1>2, <1>3, <2>1, <2>2, <2>3
<1>16. ASSUME (\E f \in Files : Create(f)) \/ FillBuffer \/ UNCHANGED vars
       PROVE  OffsetsSound'
  BY <1>5, <1>16 DEF Create, FillBuffer, vars
<1>17. QED
  BY <1>6, <1>8, <1>9, <1>10, <1>11, <1>12, <1>13, <1>14, <1>15, <1>16
  DEF Next, ProcessFile

\* A first baseline is the size of the file; what is begun later is fresh.
LEMMA NextFreshBehindBase == IInv /\ [Next]_vars => FreshBehindBase'
<1> SUFFICES ASSUME IInv, [Next]_vars, NEW f \in Files, base'[f] # NoEntry
             PROVE  /\ base'[f] <= Size(f)'
                    /\ \A i \in 1..Len(text'[f]) :
                         2 * (i - 1) >= base'[f] => text'[f][i] \in fresh'[f]
                    /\ tail'[f] # NoLine /\ 2 * Len(text'[f]) >= base'[f]
                         => tail'[f] \in fresh'[f]
  BY DEF FreshBehindBase
<1> DEFINE Goal == /\ base'[f] <= Size(f)'
                   /\ \A i \in 1..Len(text'[f]) :
                        2 * (i - 1) >= base'[f] => text'[f][i] \in fresh'[f]
                   /\ tail'[f] # NoLine /\ 2 * Len(text'[f]) >= base'[f]
                        => tail'[f] \in fresh'[f]
<1>1. /\ TypeOK /\ text \in [Files -> Seq(Messages)] /\ base \in [Files -> Nat \cup {NoEntry}]
      /\ tail \in [Files -> Messages \cup {NoLine}] /\ fresh \in [Files -> SUBSET Messages]
      /\ Len(text[f]) \in Nat
  BY SizeType DEF IInv, TypeOK
<1>2. base[f] # NoEntry =>
        /\ base[f] <= Size(f) /\ base[f] \in Nat
        /\ \A i \in 1..Len(text[f]) : 2 * (i - 1) >= base[f] => text[f][i] \in fresh[f]
        /\ tail[f] # NoLine /\ 2 * Len(text[f]) >= base[f] => tail[f] \in fresh[f]
  BY <1>1 DEF IInv, FreshBehindBase
<1> USE DEF logs, checkpoint, reader, history, budgets
<1>3. ASSUME text'[f] = text[f], tail'[f] = tail[f], base'[f] = base[f], fresh'[f] = fresh[f]
      PROVE  Goal
  BY <1>2, <1>3 DEF Size
<1>4. ASSUME NEW g \in Files, NEW m \in Messages, BeginLine(g, m) PROVE Goal
  <2>1. CASE g # f
    BY <1>1, <1>3, <1>4, <2>1 DEF BeginLine
  <2>2. CASE g = f
    <3>1. /\ tail[f] = NoLine /\ tail'[f] = m /\ text'[f] = text[f] /\ base'[f] = base[f]
          /\ m \in fresh'[f] /\ fresh[f] \subseteq fresh'[f]
      BY <1>1, <1>4, <2>2 DEF BeginLine
    <3>2. m # NoLine
      BY NamesAssumption
    <3>3. Size(f) = 2 * Len(text[f])
      BY <1>1, <3>1 DEF Size
    <3>4. Size(f)' = 2 * Len(text[f]) + 1
      BY <3>1, <3>2 DEF Size
    <3>5. base[f] # NoEntry
      BY <3>1
    <3>6. base'[f] <= Size(f)'
      BY <1>1, <1>2, <3>1, <3>3, <3>4, <3>5
    <3>7. \A i \in 1..Len(text'[f]) : 2 * (i - 1) >= base'[f] => text'[f][i] \in fresh'[f]
      BY <1>2, <3>1, <3>5
    <3>8. QED
      BY <3>1, <3>6, <3>7
  <2>3. QED
    BY <2>1, <2>2
<1>5. ASSUME NEW g \in Files, EndLine(g) PROVE Goal
  <2>1. CASE g # f
    BY <1>1, <1>3, <1>5, <2>1 DEF EndLine
  <2>2. CASE g = f
    <3>1. /\ tail[f] # NoLine /\ tail'[f] = NoLine /\ base'[f] = base[f]
          /\ fresh'[f] = fresh[f] /\ text'[f] = Append(text[f], tail[f])
      BY <1>1, <1>5, <2>2 DEF EndLine
    <3>2. /\ Len(text'[f]) = Len(text[f]) + 1
          /\ \A i \in 1..Len(text[f]) : text'[f][i] = text[f][i]
          /\ text'[f][Len(text[f]) + 1] = tail[f]
      BY <1>1, <3>1, AppendProperties
    <3>3. Size(f) = 2 * Len(text[f]) + 1 /\ Size(f)' = 2 * Len(text'[f])
      BY <1>1, <3>1, <3>2 DEF Size
    <3>4. base'[f] <= Size(f)'
      BY <1>1, <1>2, <3>1, <3>2, <3>3
    <3>5. ASSUME NEW i \in 1..Len(text'[f]), 2 * (i - 1) >= base'[f]
          PROVE  text'[f][i] \in fresh'[f]
      <4>1. i \in 1..Len(text[f]) \/ i = Len(text[f]) + 1
        BY <1>1, <3>2
      <4>2. QED
        BY <1>1, <1>2, <3>1, <3>2, <3>5, <4>1
    <3>6. QED
      BY <3>1, <3>4, <3>5
  <2>3. QED
    BY <2>1, <2>2
<1>6. ASSUME NEW g \in Files, Truncate(g) PROVE Goal
  <2>1. CASE g # f
    BY <1>1, <1>3, <1>6, <2>1 DEF Truncate
  <2>2. CASE g = f
    <3>1. text'[f] = <<>> /\ tail'[f] = NoLine /\ base'[f] = 0
      BY <1>1, <1>6, <2>2, NamesAssumption DEF Truncate
    <3>2. Len(text'[f]) = 0 /\ Size(f)' = 0
      BY <3>1 DEF Size
    <3>3. QED
      BY <3>1, <3>2
  <2>3. QED
    BY <2>1, <2>2
<1>7. ASSUME NEW g \in Files, Baseline(g) PROVE Goal
  <2>1. CASE base'[f] = base[f]
    BY <1>3, <1>7, <2>1 DEF Baseline
  <2>2. CASE base'[f] # base[f]
    <3>1. base'[f] = Size(f) /\ UNCHANGED <<text, tail>>
      BY <1>1, <1>7, <2>2 DEF Baseline
    <3>2. /\ Size(f) \in Nat /\ Size(f)' = Size(f)
          /\ tail[f] = NoLine => Size(f) = 2 * Len(text[f])
          /\ tail[f] # NoLine => Size(f) = 2 * Len(text[f]) + 1
      BY <1>1, <3>1, SizeType DEF Size
    <3>3. \A i \in 1..Len(text[f]) : ~(2 * (i - 1) >= Size(f))
      BY <1>1, <3>2
    <3>4. ~(tail[f] # NoLine /\ 2 * Len(text[f]) >= Size(f))
      BY <1>1, <3>2
    <3>5. QED
      BY <3>1, <3>2, <3>3, <3>4
  <2>3. QED
    BY <2>1, <2>2
<1>8. ASSUME UNCHANGED <<text, tail, base, fresh>> PROVE Goal
  BY <1>3, <1>8
<1>9. \/ UNCHANGED <<text, tail, base, fresh>>
      \/ \E g \in Files : EndLine(g) \/ Truncate(g) \/ Baseline(g)
      \/ \E g \in Files, m \in Messages : BeginLine(g, m)
  BY DEF Next, ProcessFile, Create, NothingNew, Read, FillBuffer, Suppress, Publish,
         PublishFails, NextLine, EndOfFile, Save, Start, Crash, vars
<1>10. QED
  BY <1>4, <1>5, <1>6, <1>7, <1>8, <1>9

\* The buffer follows the file, until that is cleared.
LEMMA NextBuffered == IInv /\ [Next]_vars => Buffered'
<1> SUFFICES ASSUME IInv, [Next]_vars PROVE Buffered'
  OBVIOUS
<1>1. TypeOK /\ Buffered /\ OffsetsSound /\ FreshBehindBase
  BY DEF IInv
<1> USE DEF logs, checkpoint, reader, history, budgets
<1>2. ASSUME UNCHANGED <<pc, buf, pos, file, text, fresh, stale>> PROVE Buffered'
  <2>1. InStep' <=> InStep
    BY <1>2 DEF InStep
  <2>2. QED
    BY <1>1, <1>2, <2>1 DEF Buffered
<1>3. ASSUME pc' # "read", buf' = <<>> PROVE Buffered'
  BY <1>3 DEF Buffered
<1>4. /\ text \in [Files -> Seq(Messages)] /\ fresh \in [Files -> SUBSET Messages]
      /\ tail \in [Files -> Messages \cup {NoLine}] /\ pos \in Nat
      /\ buf \in Seq(Messages \cup {Fragment})
  BY <1>1 DEF TypeOK
<1>5. ASSUME UNCHANGED <<pc, buf, pos, file>>,
             \A f \in Files : fresh[f] \subseteq fresh'[f],
             \A f \in Files : <<"pos", f>> \notin stale' =>
               /\ <<"pos", f>> \notin stale /\ Len(text[f]) <= Len(text'[f])
               /\ \A i \in 1..Len(text[f]) : text'[f][i] = text[f][i]
      PROVE  Buffered'
  <2>1. SUFFICES ASSUME pc = "read", file \in Files, <<"pos", file>> \notin stale'
                 PROVE  InStep'
    BY <1>1, <1>5 DEF Buffered
  <2>2. /\ Len(text[file]) \in Nat /\ Len(text'[file]) \in Nat
        /\ Len(text[file]) <= Len(text'[file])
        /\ \A i \in 1..Len(text[file]) : text'[file][i] = text[file][i]
    <3>1. text' \in [Files -> Seq(Messages)]
      BY <1>1, NextTypeOK DEF TypeOK
    <3>2. QED
      BY <1>4, <1>5, <2>1, <3>1
  <2>3. PICK h \in 0..pos :
          \/ /\ pos = 2 * h
             /\ \A k \in 1..Len(buf) :
                  h + k <= Len(text[file]) /\ buf[k] = text[file][h + k]
          \/ /\ pos = 2 * h - 1
             /\ buf # <<>> => buf[1] = Fragment /\ h <= Len(text[file])
             /\ \A k \in 2..Len(buf) :
                  h + k - 1 <= Len(text[file]) /\ buf[k] = text[file][h + k - 1]
    BY <1>1, <1>5, <2>1 DEF Buffered, InStep
  <2>4. Len(buf) \in Nat /\ h \in Nat
    BY <1>4
  <2>5. ASSUME pos = 2 * h, NEW k \in 1..Len(buf)
        PROVE  h + k <= Len(text'[file]) /\ buf[k] = text'[file][h + k]
    <3>1. h + k <= Len(text[file]) /\ buf[k] = text[file][h + k]
      BY <2>3, <2>4, <2>5
    <3>2. h + k \in 1..Len(text[file])
      BY <2>2, <2>4, <3>1
    <3>3. QED
      BY <2>2, <2>4, <3>1, <3>2
  <2>6. ASSUME pos = 2 * h - 1
        PROVE  /\ buf # <<>> => buf[1] = Fragment /\ h <= Len(text'[file])
               /\ \A k \in 2..Len(buf) :
                    h + k - 1 <= Len(text'[file]) /\ buf[k] = text'[file][h + k - 1]
    <3>1. /\ buf # <<>> => buf[1] = Fragment /\ h <= Len(text[file])
          /\ \A k \in 2..Len(buf) :
               h + k - 1 <= Len(text[file]) /\ buf[k] = text[file][h + k - 1]
      BY <2>3, <2>4, <2>6
    <3>2. \A k \in 2..Len(buf) : h + k - 1 \in 1..Len(text[file])
      BY <2>2, <2>4, <3>1
    <3>3. QED
      BY <2>2, <2>4, <3>1, <3>2
  <2>7. pos = 2 * h \/ pos = 2 * h - 1
    BY <2>3
  <2>8. QED
    BY <1>5, <2>5, <2>6, <2>7 DEF InStep
<1>6. ASSUME NEW f \in Files, Truncate(f) PROVE Buffered'
  <2>1. /\ UNCHANGED <<pc, buf, pos, file, fresh>>
        /\ stale \subseteq stale' /\ <<"pos", f>> \in stale'
        /\ \A g \in Files \ {f} : text'[g] = text[g]
    BY <1>4, <1>6 DEF Truncate, Copies
  <2>2. \A g \in Files : Len(text[g]) \in Nat
    BY <1>4
  <2>3. QED
    BY <1>5, <2>1, <2>2
<1>7. ASSUME NEW f \in Files, NEW m \in Messages, BeginLine(f, m) PROVE Buffered'
  <2>1. /\ UNCHANGED <<pc, buf, pos, file, text, stale>>
        /\ \A g \in Files : fresh[g] \subseteq fresh'[g] /\ Len(text[g]) \in Nat
    BY <1>4, <1>7 DEF BeginLine
  <2>2. QED
    BY <1>5, <2>1
<1>8. ASSUME NEW f \in Files, EndLine(f) PROVE Buffered'
  <2>1. /\ UNCHANGED <<pc, buf, pos, file, fresh, stale>>
        /\ \A g \in Files \ {f} : text'[g] = text[g]
        /\ text'[f] = Append(text[f], tail[f]) /\ tail[f] \in Messages
    BY <1>4, <1>8 DEF EndLine
  <2>2. /\ Len(text'[f]) = Len(text[f]) + 1
        /\ \A i \in 1..Len(text[f]) : text'[f][i] = text[f][i]
    BY <1>4, <2>1, AppendProperties
  <2>3. \A g \in Files : Len(text[g]) \in Nat
    BY <1>4
  <2>4. QED
    BY <1>5, <2>1, <2>2, <2>3
<1>9. ASSUME NEW f \in Files, Baseline(f) PROVE Buffered'
  <2>1. pc' # "read" /\ pc # "read" /\ UNCHANGED buf
    BY <1>9 DEF Baseline, WriteCheckpoint, Look
  <2>2. QED
    BY <1>1, <1>3, <2>1 DEF Buffered
<1>10. ASSUME NEW f \in Files, Read(f) PROVE Buffered'
  <2>1. /\ buf' = <<>> /\ file' = f /\ pc' = "read" /\ pos' = ResolveStart(f)
        /\ ResolveStart(f) \in Nat
    BY <1>1, <1>10, StartType DEF Buffered, Read, Look
  <2>2. Len(buf') = 0
    BY <2>1
  <2>3. \E h \in 0..pos' : pos' = 2 * h \/ pos' = 2 * h - 1
    <3>1. \A n \in Nat : \E h \in 0..n : n = 2 * h \/ n = 2 * h - 1
      <4>1. TAKE n \in Nat
      <4>2. /\ (n + 1) \div 2 \in 0..n
            /\ n = 2 * ((n + 1) \div 2) \/ n = 2 * ((n + 1) \div 2) - 1
        OBVIOUS
      <4>3. QED
        BY <4>2
    <3>2. QED
      BY <2>1, <3>1
  <2>4. InStep'
    BY <2>1, <2>2, <2>3 DEF InStep
  <2>5. QED
    BY <2>1, <2>2, <2>4 DEF Buffered
<1>11. ASSUME FillBuffer PROVE Buffered'
  <2>1. /\ pc = "read" /\ pc' = "read" /\ file \in Files /\ buf' = LinesFrom(file, pos)
        /\ UNCHANGED <<file, pos, text, tail, fresh, stale, base>>
    BY <1>1, <1>11 DEF Buffered, FillBuffer
  <2>2. PICK h \in 0..pos :
          \/ /\ pos = 2 * h
             /\ \A k \in 1..Len(buf') :
                  h + k <= Len(text[file]) /\ buf'[k] = text[file][h + k]
          \/ /\ pos = 2 * h - 1
             /\ buf' # <<>> => buf'[1] = Fragment /\ h <= Len(text[file])
             /\ \A k \in 2..Len(buf') :
                  h + k - 1 <= Len(text[file]) /\ buf'[k] = text[file][h + k - 1]
    BY <1>1, <1>4, <2>1, LinesFromIs
  <2>3. InStep'
    BY <2>1, <2>2 DEF InStep
  <2>4. base[file] # NoEntry /\ base[file] \in Nat /\ base[file] <= pos
    BY <1>1, <1>4, <2>1, NamesAssumption DEF OffsetsSound, Sound, TypeOK
  <2>5. \A i \in 1..Len(text[file]) : 2 * (i - 1) >= base[file] => text[file][i] \in fresh[file]
    BY <1>1, <2>1, <2>4 DEF FreshBehindBase
  <2>6. Len(text[file]) \in Nat /\ Len(buf') \in Nat
    <3>1. buf' \in Seq(Messages \cup {Fragment})
      BY <1>1, <1>4, <2>1, LinesFromIs
    <3>2. QED
      BY <1>4, <2>1, <3>1
  <2>7. ASSUME NEW k \in 1..Len(buf') PROVE buf'[k] \in fresh[file] \cup {Fragment}
    <3>1. CASE pos = 2 * h /\ h + k <= Len(text[file]) /\ buf'[k] = text[file][h + k]
      <4>1. /\ h \in Nat /\ k \in Nat /\ k >= 1 /\ base[file] \in Nat
            /\ base[file] <= 2 * h /\ h + k <= Len(text[file])
        BY <2>2, <2>4, <2>6, <3>1
      <4>2. h + k \in 1..Len(text[file]) /\ 2 * ((h + k) - 1) >= base[file]
        BY <2>6, <4>1
      <4>3. QED
        BY <2>5, <3>1, <4>2
    <3>2. CASE buf'[k] = Fragment
      BY <3>2
    <3>3. CASE /\ pos = 2 * h - 1 /\ k >= 2
               /\ h + k - 1 <= Len(text[file]) /\ buf'[k] = text[file][h + k - 1]
      <4>1. h + k - 1 \in 1..Len(text[file]) /\ 2 * ((h + k - 1) - 1) >= base[file]
        BY <2>2, <2>4, <2>6, <3>3
      <4>2. QED
        BY <2>5, <3>3, <4>1
    <3>4. buf' # <<>> /\ (k = 1 \/ k \in 2..Len(buf'))
      BY <2>6
    <3>5. QED
      BY <2>2, <2>6, <3>1, <3>2, <3>3, <3>4
  <2>8. QED
    BY <2>1, <2>3, <2>7 DEF Buffered
<1>12. ASSUME Suppress \/ Publish \/ PublishFails PROVE Buffered'
  <2>1. /\ pc = "read" /\ pc' = "read" /\ file \in Files /\ buf # <<>> /\ buf' = Tail(buf)
        /\ pos' = pos + (IF Head(buf) = Fragment THEN 1 ELSE 2)
        /\ UNCHANGED <<file, text, fresh, stale>>
    BY <1>1, <1>12 DEF Buffered, Suppress, Publish, PublishFails, NextLine
  <2>2. /\ Len(buf) \in Nat /\ Len(buf) >= 1 /\ Len(buf') = Len(buf) - 1
        /\ \A k \in 1..Len(buf') : buf'[k] = buf[k + 1]
        /\ Head(buf) = buf[1]
    BY <1>4, <2>1, HeadTailProperties
  <2>3. \A k \in 1..Len(buf') : k + 1 \in 2..Len(buf) /\ k + 1 \in 1..Len(buf)
    BY <2>2
  <2>4. \A k \in 1..Len(buf') : buf'[k] \in fresh'[file'] \cup {Fragment}
    BY <1>1, <2>1, <2>2, <2>3 DEF Buffered
  <2>5. ASSUME <<"pos", file>> \notin stale PROVE InStep'
    <3>1. PICK h \in 0..pos :
            \/ /\ pos = 2 * h
               /\ \A k \in 1..Len(buf) :
                    h + k <= Len(text[file]) /\ buf[k] = text[file][h + k]
            \/ /\ pos = 2 * h - 1
               /\ buf # <<>> => buf[1] = Fragment /\ h <= Len(text[file])
               /\ \A k \in 2..Len(buf) :
                    h + k - 1 <= Len(text[file]) /\ buf[k] = text[file][h + k - 1]
      BY <1>1, <2>1, <2>5 DEF Buffered, InStep
    <3>2. Len(text[file]) \in Nat /\ \A i \in 1..Len(text[file]) : text[file][i] \in Messages
      BY <1>1, <2>1, SizeType
    <3>3. CASE /\ pos = 2 * h
               /\ \A k \in 1..Len(buf) :
                    h + k <= Len(text[file]) /\ buf[k] = text[file][h + k]
      <4>1. h + 1 \in 1..Len(text[file]) /\ buf[1] = text[file][h + 1]
        BY <2>2, <3>2, <3>3
      <4>2. Head(buf) # Fragment
        BY <2>2, <3>2, <4>1, NamesAssumption
      <4>3. pos' = 2 * (h + 1) /\ h + 1 \in 0..pos'
        BY <1>4, <2>1, <3>3, <4>2
      <4>4. ASSUME NEW k \in 1..Len(buf')
            PROVE  (h + 1) + k <= Len(text[file]) /\ buf'[k] = text[file][(h + 1) + k]
        <5>1. /\ buf'[k] = buf[k + 1] /\ h + (k + 1) <= Len(text[file])
              /\ buf[k + 1] = text[file][h + (k + 1)]
          BY <2>2, <2>3, <3>3
        <5>2. h + (k + 1) = (h + 1) + k
          BY <4>4
        <5>3. QED
          BY <5>1, <5>2
      <4>5. QED
        BY <2>1, <4>3, <4>4 DEF InStep
    <3>4. CASE /\ pos = 2 * h - 1 /\ buf[1] = Fragment
               /\ \A k \in 2..Len(buf) :
                    h + k - 1 <= Len(text[file]) /\ buf[k] = text[file][h + k - 1]
      <4>1. pos' = 2 * h /\ h \in 0..pos'
        BY <1>4, <2>1, <2>2, <3>4
      <4>2. ASSUME NEW k \in 1..Len(buf')
            PROVE  h + k <= Len(text[file]) /\ buf'[k] = text[file][h + k]
        <5>1. /\ buf'[k] = buf[k + 1] /\ h + (k + 1) - 1 <= Len(text[file])
              /\ buf[k + 1] = text[file][h + (k + 1) - 1]
          BY <2>2, <2>3, <3>4
        <5>2. h + (k + 1) - 1 = h + k
          BY <4>2
        <5>3. QED
          BY <5>1, <5>2
      <4>3. QED
        BY <2>1, <4>1, <4>2 DEF InStep
    <3>5. QED
      BY <2>1, <3>1, <3>3, <3>4
  <2>6. QED
    BY <2>1, <2>4, <2>5 DEF Buffered
<1>13. ASSUME EndOfFile \/ Save \/ Start \/ Crash PROVE Buffered'
  <2>1. pc' # "read" /\ buf' = <<>>
    BY <1>1, <1>13 DEF Buffered, EndOfFile, WriteCheckpoint, Save, Start, Crash
  <2>2. QED
    BY <1>3, <2>1
<1>14. ASSUME (\E f \in Files : Create(f) \/ NothingNew(f)) \/ UNCHANGED vars
       PROVE  Buffered'
  BY <1>2, <1>14 DEF Create, NothingNew, vars
<1>15. QED
  BY <1>6, <1>7, <1>8, <1>9, <1>10, <1>11, <1>12, <1>13, <1>14 DEF Next, ProcessFile

\* A message that is published is remembered; a process that ends and a publish
\* that fails are counted.
LEMMA NextSeenAccountedFor == IInv /\ [Next]_vars => SeenAccountedFor'
<1> SUFFICES ASSUME IInv, [Next]_vars, NEW f \in Files, NEW m \in Messages
             PROVE  /\ <<f, m>> \in seen' => pubs'[f][m] > 0
                    /\ pubs'[f][m] <= (IF <<f, m>> \in seen' THEN 1 ELSE 0)
                                        + crashes' + faults'
  BY DEF SeenAccountedFor
<1> DEFINE Goal == /\ <<f, m>> \in seen' => pubs'[f][m] > 0
                   /\ <<f, m>> \in seen' => pubs'[f][m] <= 1 + crashes' + faults'
                   /\ <<f, m>> \notin seen' => pubs'[f][m] <= crashes' + faults'
<1>1. /\ TypeOK /\ Buffered /\ pubs \in [Files -> [Messages -> Nat]] /\ pubs[f][m] \in Nat
      /\ crashes \in Nat /\ faults \in Nat
  BY BoundsAssumption DEF IInv, TypeOK
<1>2. /\ <<f, m>> \in seen => pubs[f][m] > 0
      /\ <<f, m>> \in seen => pubs[f][m] <= 1 + crashes + faults
      /\ <<f, m>> \notin seen => pubs[f][m] <= crashes + faults
  BY <1>1 DEF IInv, SeenAccountedFor
<1>3. crashes' \in Nat /\ faults' \in Nat
  <2>1. TypeOK'
    BY NextTypeOK DEF IInv
  <2>2. QED
    BY <2>1, BoundsAssumption DEF TypeOK
<1>4. ASSUME pubs'[f][m] = pubs[f][m], <<f, m>> \in seen' <=> <<f, m>> \in seen,
             crashes' >= crashes, faults' >= faults
      PROVE  Goal
  BY <1>1, <1>2, <1>3, <1>4
<1> USE DEF logs, checkpoint, reader, history, budgets
<1>5. ASSUME Suppress \/ Publish \/ PublishFails PROVE Goal
  <2>1. /\ UNCHANGED crashes /\ file \in Files
        /\ Head(buf) \in Messages \cup {Fragment}
    BY <1>1, <1>5, HeadTailProperties
    DEF TypeOK, Buffered, Suppress, Publish, PublishFails, NextLine
  <2>2. CASE Suppress
    BY <1>1, <1>4, <2>1, <2>2 DEF Suppress
  <2>3. CASE Publish
    <3>1. /\ UNCHANGED faults /\ Head(buf) \in Messages /\ <<file, Head(buf)>> \notin seen
          /\ pubs' = [pubs EXCEPT ![file][Head(buf)] = @ + 1]
          /\ seen' = seen \cup {<<file, Head(buf)>>}
      BY <2>1, <2>3 DEF Publish
    <3>2. CASE file = f /\ Head(buf) = m
      <4>1. pubs'[f][m] = pubs[f][m] + 1 /\ <<f, m>> \in seen' /\ <<f, m>> \notin seen
        BY <1>1, <3>1, <3>2
      <4>2. QED
        BY <1>1, <1>2, <2>1, <3>1, <4>1
    <3>3. CASE ~(file = f /\ Head(buf) = m)
      <4>1. pubs'[f][m] = pubs[f][m] /\ (<<f, m>> \in seen' <=> <<f, m>> \in seen)
        BY <1>1, <2>1, <3>1, <3>3
      <4>2. QED
        BY <1>1, <1>4, <2>1, <3>1, <4>1
    <3>4. QED
      BY <3>2, <3>3
  <2>4. CASE PublishFails
    <3>1. /\ faults' = faults + 1 /\ UNCHANGED seen /\ <<file, Head(buf)>> \notin seen
          /\ Head(buf) \in Messages
          /\ pubs' \in {pubs, [pubs EXCEPT ![file][Head(buf)] = @ + 1]}
      BY <2>1, <2>4 DEF PublishFails, Fault
    <3>2. CASE pubs'[f][m] = pubs[f][m]
      BY <1>1, <1>4, <2>1, <3>1, <3>2
    <3>3. CASE pubs'[f][m] # pubs[f][m]
      <4>1. pubs' = [pubs EXCEPT ![file][Head(buf)] = @ + 1]
        BY <3>1, <3>3
      <4>2. file = f /\ Head(buf) = m /\ pubs'[f][m] = pubs[f][m] + 1
        BY <1>1, <2>1, <3>1, <3>3, <4>1
      <4>3. <<f, m>> \notin seen' /\ <<f, m>> \notin seen
        BY <3>1, <4>2
      <4>4. QED
        BY <1>1, <1>2, <2>1, <3>1, <4>2, <4>3
    <3>4. QED
      BY <3>2, <3>3
  <2>5. QED
    BY <1>5, <2>2, <2>3, <2>4
<1>6. ASSUME Crash PROVE Goal
  <2>1. seen' = {} /\ crashes' = crashes + 1 /\ UNCHANGED <<pubs, faults>>
    BY <1>6 DEF Crash
  <2>2. QED
    BY <1>1, <1>2, <2>1
<1>7. ASSUME UNCHANGED <<pubs, seen, crashes>>, faults' >= faults PROVE Goal
  BY <1>1, <1>4, <1>7
<1>8. ASSUME WriteCheckpoint \/ Save PROVE faults' >= faults
  BY <1>1, <1>8, FaultType DEF WriteCheckpoint, Save
<1>9. ASSUME (\E g \in Files : Baseline(g)) \/ EndOfFile \/ Save PROVE Goal
  <2>1. UNCHANGED <<pubs, seen, crashes>> /\ (WriteCheckpoint \/ Save)
    BY <1>9 DEF Baseline, EndOfFile, Save
  <2>2. QED
    BY <1>7, <1>8, <2>1
<1>10. \/ UNCHANGED <<pubs, seen, crashes, faults>>
       \/ Suppress \/ Publish \/ PublishFails \/ Crash
       \/ (\E g \in Files : Baseline(g)) \/ EndOfFile \/ Save
  BY DEF Next, ProcessFile, Create, BeginLine, EndLine, Truncate, NothingNew, Read,
         FillBuffer, Start, vars
<1>11. Goal
  BY <1>1, <1>5, <1>6, <1>7, <1>9, <1>10
<1>12. QED
  BY <1>3, <1>11

\* What is published comes from the buffer.
LEMMA NextHistoryIsSilent == IInv /\ [Next]_vars => HistoryIsSilent'
<1> SUFFICES ASSUME IInv, [Next]_vars, NEW f \in Files, NEW m \in Messages, pubs'[f][m] > 0
             PROVE  m \in fresh'[f]
  BY DEF HistoryIsSilent
<1>1. /\ TypeOK /\ Buffered /\ pubs \in [Files -> [Messages -> Nat]]
      /\ fresh \in [Files -> SUBSET Messages]
      /\ pubs[f][m] > 0 => m \in fresh[f]
  BY DEF IInv, TypeOK, HistoryIsSilent
<1> USE DEF logs, checkpoint, reader, history, budgets
<1>2. fresh[f] \subseteq fresh'[f]
  <2>1. UNCHANGED fresh \/ \E g \in Files, n \in Messages :
                              fresh' = [fresh EXCEPT ![g] = @ \cup {n}]
    BY DEF Next, ProcessFile, Create, BeginLine, EndLine, Truncate, Baseline, NothingNew,
           Read, FillBuffer, Suppress, Publish, PublishFails, NextLine, EndOfFile, Save,
           Start, Crash, vars
  <2>2. QED
    BY <1>1, <2>1
<1>3. CASE pubs'[f][m] = pubs[f][m]
  BY <1>1, <1>2, <1>3
<1>4. CASE pubs'[f][m] # pubs[f][m]
  <2>1. /\ NextLine /\ Head(buf) # Fragment
        /\ pubs' = [pubs EXCEPT ![file][Head(buf)] = @ + 1]
    BY <1>4 DEF Next, ProcessFile, Create, BeginLine, EndLine, Truncate, Baseline,
                NothingNew, Read, FillBuffer, Suppress, Publish, PublishFails, EndOfFile,
                Save, Start, Crash, vars
  <2>2. /\ pc = "read" /\ file \in Files /\ buf # <<>>
        /\ buf \in Seq(Messages \cup {Fragment})
        /\ \A k \in 1..Len(buf) : buf[k] \in fresh[file] \cup {Fragment}
    BY <1>1, <2>1 DEF Buffered, NextLine, TypeOK
  <2>3. Head(buf) = buf[1] /\ 1 \in 1..Len(buf)
    BY <2>2
  <2>4. Head(buf) \in fresh[file] /\ Head(buf) \in Messages
    BY <1>1, <2>1, <2>2, <2>3
  <2>5. file = f /\ Head(buf) = m
    BY <1>1, <1>4, <2>1, <2>2, <2>4
  <2>6. QED
    BY <1>2, <2>4, <2>5
<1>5. QED
  BY <1>3, <1>4

LEMMA NextIInv == IInv /\ [Next]_vars => IInv'
  BY NextTypeOK, NextOffsetsSound, NextFreshBehindBase, NextBuffered,
     NextSeenAccountedFor, NextHistoryIsSilent
  DEF IInv

-----------------------------------------------------------------------------

\* The variables keep their types (watcher.go, checkpoint.go, dedup.go).
THEOREM TypeCorrect == Spec => []TypeOK
<1>1. IInv => TypeOK
  BY DEF IInv
<1>2. QED
  BY InitIInv, NextIInv, <1>1, PTL DEF Spec

\* A line that the checkpoint is past was published, or its publish failed, or
\* it was skipped with an offset taken unread: whatever is written, cleared,
\* crashed or torn in between (watcher.go:154-217, checkpoint.go:81-84).
THEOREM PassedIsPublishedHolds == Spec => []PassedIsPublished
<1>1. IInv => PassedIsPublished
  <2> SUFFICES ASSUME IInv, NEW f \in Files, NEW i \in 1..Len(text[f]), Passed(f, i)
               PROVE  Known(f, text[f][i])
    BY DEF PassedIsPublished, Known
  <2>1. PICK copy \in {"disk", "memory"}, o \in {disk[f], offset[f]} :
          IsPast(copy, o, f, i) /\ Sound(copy, o, f)
    BY DEF Passed, IInv, OffsetsSound
  <2>2. o # NoEntry /\ <<copy, f>> \notin stale /\ 2 * i <= o /\ o \in Nat
    BY <2>1 DEF IsPast, IInv, TypeOK
  <2>3. 2 * (i - 1) < o
    BY <2>2
  <2>4. QED
    BY <2>1, <2>2, <2>3 DEF Sound
<1>2. QED
  BY InitIInv, NextIInv, <1>1, PTL DEF Spec

\* A message is published again only by a new process, or for a publish or a
\* checkpoint write that failed (dedup.go:15-20).
THEOREM PublishedOnceHolds == Spec => []PublishedOnce
<1>1. IInv => PublishedOnce
  <2> SUFFICES ASSUME IInv, NEW f \in Files, NEW m \in Messages
               PROVE  pubs[f][m] <= 1 + crashes + faults
    BY DEF PublishedOnce
  <2>1. /\ crashes \in Nat /\ faults \in Nat /\ pubs[f][m] \in Nat
        /\ pubs[f][m] <= (IF <<f, m>> \in seen THEN 1 ELSE 0) + crashes + faults
    BY BoundsAssumption DEF IInv, TypeOK, SeenAccountedFor
  <2>2. QED
    BY <2>1
<1>2. QED
  BY InitIInv, NextIInv, <1>1, PTL DEF Spec

\* Lines from before the first baseline of a file are never published, not even
\* after a lost checkpoint or a cleared file (checkpoint.go:65-66).
THEOREM HistoryIsSilentHolds == Spec => []HistoryIsSilent
<1>1. IInv => HistoryIsSilent
  BY DEF IInv
<1>2. QED
  BY InitIInv, NextIInv, <1>1, PTL DEF Spec

-----------------------------------------------------------------------------
(* Why a line can be skipped at all *)

\* No crash falls between the truncation of the checkpoint file and its write,
\* no publish or write fails, and no log is cleared.
Undisturbed ==
  /\ pc = "save" => pc' # "down"
  /\ UNCHANGED <<faults, truncations>>

\* An offset is the baseline or the end of a line, and the lines between the
\* baseline and it are published.
Complete(f, o) ==
  o # NoEntry =>
    /\ o = base[f] \/ \E h \in Nat : o = 2 * h
    /\ \A i \in 1..Len(text[f]) :
         2 * (i - 1) >= base[f] /\ 2 * i <= o => pubs[f][text[f][i]] > 0

CompleteNext(f, o) ==
  o # NoEntry =>
    /\ o = base'[f] \/ \E h \in Nat : o = 2 * h
    /\ \A i \in 1..Len(text'[f]) :
         2 * (i - 1) >= base'[f] /\ 2 * i <= o => pubs'[f][text'[f][i]] > 0

\* A file that had a baseline has an entry in memory, and one on disk while the
\* checkpoint file is not being written.
Entries ==
  \A f \in Files : base[f] # NoEntry =>
    /\ pc # "down" => offset[f] # NoEntry
    /\ pc # "save" => disk[f] # NoEntry

NothingLost ==
  /\ stale = {}
  /\ Entries
  /\ \A f \in Files : Complete(f, disk[f]) /\ Complete(f, offset[f])
  /\ pc = "read" => Complete(file, pos)

LEMMA LogGrows ==
  ASSUME TypeOK, Buffered, [Next]_vars, [Undisturbed]_vars, NEW f \in Files
  PROVE  /\ base[f] # NoEntry => base'[f] = base[f]
         /\ \A m \in Messages : pubs[f][m] > 0 => pubs'[f][m] > 0
         /\ \A i \in 1..Len(text'[f]) :
              \/ i \in 1..Len(text[f]) /\ text'[f][i] = text[f][i]
              \/ 2 * i > Size(f)
<1> USE DEF logs, checkpoint, reader, history, budgets
<1>1. /\ text \in [Files -> Seq(Messages)] /\ base \in [Files -> Nat \cup {NoEntry}]
      /\ pubs \in [Files -> [Messages -> Nat]] /\ tail \in [Files -> Messages \cup {NoLine}]
  BY DEF TypeOK
<1>2. UNCHANGED truncations
  BY DEF Undisturbed, vars
<1>3. ~\E g \in Files : Truncate(g)
  BY <1>2 DEF Truncate, TypeOK
<1>4. base[f] # NoEntry => base'[f] = base[f]
  BY <1>1, <1>3
  DEF Next, Create, EndLine, BeginLine, Baseline, NothingNew, Read, ProcessFile, FillBuffer,
      Suppress, Publish, PublishFails, EndOfFile, Save, Start, Crash, NextLine, vars
<1>5. ASSUME NEW m \in Messages, pubs[f][m] > 0 PROVE pubs'[f][m] > 0
  <2>1. CASE Publish \/ PublishFails
    <3>1. \/ pubs' = pubs
          \/ /\ file \in Files /\ Head(buf) \in Messages
             /\ pubs' = [pubs EXCEPT ![file][Head(buf)] = @ + 1]
      <4>1. /\ pc = "read" /\ buf # <<>> /\ Head(buf) # Fragment
            /\ pubs' = pubs \/ pubs' = [pubs EXCEPT ![file][Head(buf)] = @ + 1]
        BY <2>1 DEF Publish, PublishFails, NextLine
      <4>2. file \in Files /\ buf \in Seq(Messages \cup {Fragment})
        BY <4>1 DEF Buffered, TypeOK
      <4>3. Head(buf) \in Messages
        BY <4>1, <4>2
      <4>4. QED
        BY <4>1, <4>2, <4>3
    <3>2. pubs[f][m] \in Nat /\ pubs[f] \in [Messages -> Nat]
      BY <1>1
    <3>3. CASE f = file /\ m = Head(buf) /\ pubs' # pubs
      <4>1. pubs'[f][m] = pubs[f][m] + 1
        BY <1>1, <3>1, <3>2, <3>3
      <4>2. QED
        BY <3>2, <4>1
    <3>4. CASE ~(f = file /\ m = Head(buf) /\ pubs' # pubs)
      <4>1. pubs'[f][m] = pubs[f][m]
        BY <1>1, <3>1, <3>2, <3>4
      <4>2. QED
        BY <1>5, <4>1
    <3>5. QED
      BY <3>3, <3>4
  <2>2. CASE ~(Publish \/ PublishFails)
    <3>1. pubs' = pubs
      BY <2>2
      DEF Next, Create, EndLine, BeginLine, Truncate, Baseline, NothingNew, Read, ProcessFile,
          FillBuffer, Suppress, EndOfFile, Save, Start, Crash, NextLine, vars
    <3>2. QED
      BY <1>5, <3>1
  <2>3. QED
    BY <2>1, <2>2
<1>6. Len(text[f]) \in Nat
  BY <1>1
<1>7. ASSUME NEW i \in 1..Len(text'[f])
      PROVE  \/ i \in 1..Len(text[f]) /\ text'[f][i] = text[f][i]
             \/ 2 * i > Size(f)
  <2>1. CASE \E g \in Files : EndLine(g)
    <3>1. PICK g \in Files : EndLine(g)
      BY <2>1
    <3>2. CASE f = g
      <4>1. tail[f] # NoLine /\ text'[f] = Append(text[f], tail[f]) /\ tail[f] \in Messages
        BY <1>1, <3>1, <3>2 DEF EndLine
      <4>2. /\ Len(text'[f]) = Len(text[f]) + 1
            /\ \A j \in 1..Len(text[f]) : text'[f][j] = text[f][j]
        BY <1>1, <4>1, AppendProperties
      <4>3. i \in 1..Len(text[f]) \/ i = Len(text[f]) + 1
        BY <1>6, <4>2
      <4>4. QED
        BY <1>6, <4>1, <4>2, <4>3 DEF Size
    <3>3. CASE f # g
      <4>1. text'[f] = text[f]
        BY <1>1, <3>1, <3>3 DEF EndLine
      <4>2. QED
        BY <4>1
    <3>4. QED
      BY <3>2, <3>3
  <2>2. CASE ~\E g \in Files : EndLine(g)
    <3>1. text' = text
      BY <1>3, <2>2
      DEF Next, Create, BeginLine, Baseline, NothingNew, Read, ProcessFile, FillBuffer,
          Suppress, Publish, PublishFails, EndOfFile, Save, Start, Crash, NextLine, vars
    <3>2. QED
      BY <3>1
  <2>3. QED
    BY <2>1, <2>2
<1>8. QED
  BY <1>4, <1>5, <1>7

\* An offset of a file stays complete as the file grows.
LEMMA CompleteStays ==
  ASSUME IInv, stale = {}, [Next]_vars, [Undisturbed]_vars, NEW f \in Files,
         NEW o \in Nat \cup {NoEntry}, NEW copy, Sound(copy, o, f), Complete(f, o)
  PROVE  CompleteNext(f, o)
<1> SUFFICES ASSUME o # NoEntry PROVE CompleteNext(f, o)
  BY DEF CompleteNext
<1>1. TypeOK /\ Buffered
  BY DEF IInv
<1>2. /\ base'[f] = base[f] /\ o \in Nat /\ o <= Size(f) /\ base[f] \in Nat
      /\ Size(f) \in Nat /\ \A i \in 1..Len(text[f]) : text[f][i] \in Messages
  BY <1>1, LogGrows, SizeType DEF Sound, TypeOK
<1>3. ASSUME NEW i \in 1..Len(text'[f]), 2 * (i - 1) >= base[f], 2 * i <= o
      PROVE  pubs'[f][text'[f][i]] > 0
  <2>1. i \in 1..Len(text[f]) /\ text'[f][i] = text[f][i]
    <3>1. (i \in 1..Len(text[f]) /\ text'[f][i] = text[f][i]) \/ 2 * i > Size(f)
      BY <1>1, LogGrows
    <3>2. i \in Int
      OBVIOUS
    <3>3. QED
      BY <1>2, <1>3, <3>1, <3>2
  <2>2. pubs[f][text[f][i]] > 0
    BY <1>3, <2>1 DEF Complete
  <2>3. QED
    BY <1>1, <1>2, <2>1, <2>2, LogGrows
<1>4. QED
  BY <1>2, <1>3 DEF Complete, CompleteNext

\* The reader is past one more line, which is published, or past the rest of the
\* line in which the baseline lies.
LEMMA CompletePastLine ==
  ASSUME IInv, NothingLost, [Next]_vars, [Undisturbed]_vars, Suppress \/ Publish
  PROVE  CompleteNext(file, pos')
<1>1. /\ NextLine /\ file \in Files /\ TypeOK /\ Buffered /\ pc = "read" /\ InStep
      /\ Sound("pos", pos, file) /\ pos \in Nat /\ Complete(file, pos)
  BY DEF IInv, NothingLost, Buffered, Suppress, Publish, NextLine, OffsetsSound, TypeOK
<1>2. /\ Len(text[file]) \in Nat
      /\ \A i \in 1..Len(text[file]) : text[file][i] \in Messages
      /\ buf \in Seq(Messages \cup {Fragment}) /\ base[file] \in Nat /\ pos # NoEntry
      /\ pos' \in Nat
  <2>1. pos # NoEntry
    BY <1>1, NamesAssumption
  <2>2. pos' \in Nat
    BY <1>1 DEF NextLine
  <2>3. QED
    BY <1>1, <2>1, <2>2, SizeType DEF TypeOK, Sound
<1>3. buf # <<>> /\ Head(buf) = buf[1] /\ Len(buf) \in Nat /\ Len(buf) >= 1
  BY <1>1, <1>2 DEF NextLine
<1>4. UNCHANGED <<text, base>> /\ pos' = pos + IF buf[1] = Fragment THEN 1 ELSE 2
  BY <1>1, <1>3 DEF NextLine, logs
<1>5. /\ pos = base[file] \/ \E h \in Nat : pos = 2 * h
      /\ \A i \in 1..Len(text[file]) :
           2 * (i - 1) >= base[file] /\ 2 * i <= pos => pubs'[file][text[file][i]] > 0
  BY <1>1, <1>2, LogGrows DEF Complete
<1>6. buf[1] # Fragment => pubs'[file][buf[1]] > 0
  <2>1. SUFFICES ASSUME buf[1] # Fragment PROVE pubs'[file][buf[1]] > 0
    OBVIOUS
  <2>2. buf[1] \in Messages
    BY <1>2, <1>3, <2>1
  <2>3. CASE Suppress
    <3>1. pubs[file][buf[1]] > 0
      BY <1>1, <1>3, <2>1, <2>2, <2>3 DEF IInv, SeenAccountedFor, Suppress
    <3>2. QED
      BY <1>1, <2>2, <3>1, LogGrows
  <2>4. CASE Publish
    <3>1. pubs[file] \in [Messages -> Nat] /\ pubs \in [Files -> [Messages -> Nat]]
      BY <1>1 DEF TypeOK
    <3>2. pubs'[file][buf[1]] = pubs[file][buf[1]] + 1
      BY <1>1, <1>3, <2>2, <2>4, <3>1 DEF Publish
    <3>3. QED
      BY <2>2, <3>1, <3>2
  <2>5. QED
    BY <2>3, <2>4
<1>7. PICK h \in 0..pos :
        \/ /\ pos = 2 * h
           /\ \A k \in 1..Len(buf) :
                h + k <= Len(text[file]) /\ buf[k] = text[file][h + k]
        \/ /\ pos = 2 * h - 1
           /\ buf # <<>> => buf[1] = Fragment /\ h <= Len(text[file])
  BY <1>1 DEF InStep
<1>8. h \in Nat /\ 1 \in 1..Len(buf)
  BY <1>1, <1>3, <1>7
<1>9. CASE pos = 2 * h
  <2>1. h + 1 <= Len(text[file]) /\ buf[1] = text[file][h + 1]
    BY <1>7, <1>8, <1>9
  <2>2. h + 1 \in 1..Len(text[file])
    BY <1>2, <1>8, <2>1
  <2>3. buf[1] # Fragment
    BY <1>2, <2>1, <2>2, NamesAssumption
  <2>4. pos' = 2 * (h + 1) /\ h + 1 \in Nat
    BY <1>4, <1>8, <1>9, <2>3
  <2>5. ASSUME NEW i \in 1..Len(text[file]), 2 * (i - 1) >= base[file], 2 * i <= pos'
        PROVE  pubs'[file][text[file][i]] > 0
    <3>1. 2 * i <= pos \/ i = h + 1
      BY <1>8, <1>9, <2>4, <2>5
    <3>2. QED
      BY <1>5, <1>6, <2>1, <2>3, <2>5, <3>1
  <2>6. QED
    BY <1>4, <2>4, <2>5 DEF CompleteNext
<1>10. CASE pos = 2 * h - 1
  <2>1. buf[1] = Fragment
    BY <1>3, <1>7, <1>8, <1>10
  <2>2. pos' = 2 * h
    BY <1>4, <1>8, <1>10, <2>1
  <2>3. pos = base[file]
    BY <1>5, <1>8, <1>10
  <2>4. ASSUME NEW i \in 1..Len(text[file]), 2 * (i - 1) >= base[file], 2 * i <= pos'
        PROVE  FALSE
    BY <1>8, <1>10, <2>2, <2>3, <2>4
  <2>5. QED
    BY <1>4, <1>8, <2>2, <2>4 DEF CompleteNext
<1>11. QED
  BY <1>7, <1>9, <1>10

LEMMA NextNothingLost ==
  IInv /\ NothingLost /\ [Next]_vars /\ [Undisturbed]_vars => NothingLost'
<1> SUFFICES ASSUME IInv, NothingLost, [Next]_vars, [Undisturbed]_vars PROVE NothingLost'
  OBVIOUS
<1> USE DEF logs, checkpoint, reader, history, budgets
<1>1. /\ TypeOK /\ TypeOK' /\ Buffered /\ OffsetsSound /\ FreshBehindBase
      /\ stale = {} /\ Entries
  BY NextTypeOK DEF IInv, NothingLost
<1>2. /\ pc = "save" => pc' # "down"
      /\ UNCHANGED <<faults, truncations>>
  BY DEF Undisturbed, vars
<1>3. /\ \A f \in Files : disk[f] \in Nat \cup {NoEntry} /\ offset[f] \in Nat \cup {NoEntry}
      /\ disk \in [Files -> Nat \cup {NoEntry}] /\ offset \in [Files -> Nat \cup {NoEntry}]
      /\ base \in [Files -> Nat \cup {NoEntry}] /\ pos \in Nat
      /\ pc = "read" => file \in Files
      /\ faults \in Nat /\ truncations \in Nat
  BY <1>1 DEF TypeOK, Buffered
\* Each copy that is not touched stays complete.
<1>4. ASSUME NEW f \in Files
      PROVE  /\ CompleteNext(f, disk[f]) /\ CompleteNext(f, offset[f])
             /\ pc = "read" /\ f = file => CompleteNext(f, pos)
             /\ base[f] # NoEntry => base'[f] = base[f]
  BY <1>1, <1>3, <1>4, CompleteStays, LogGrows DEF NothingLost, OffsetsSound
<1>5. ASSUME stale' = {}, Entries',
             \A f \in Files : CompleteNext(f, disk'[f]) /\ CompleteNext(f, offset'[f]),
             pc' = "read" => CompleteNext(file', pos')
      PROVE  NothingLost'
  BY <1>5 DEF NothingLost, Complete, CompleteNext
\* Steps that leave the offsets alone.
<1>6. ASSUME UNCHANGED <<disk, offset, base, stale>>, pc' = "down" <=> pc = "down",
             pc' = "save" <=> pc = "save",
             pc' = "read" => CompleteNext(file', pos')
      PROVE  NothingLost'
  BY <1>1, <1>4, <1>5, <1>6 DEF Entries
<1>7. ASSUME UNCHANGED <<disk, offset, base, stale, pc, pos, file>> PROVE NothingLost'
  BY <1>3, <1>4, <1>6, <1>7
<1>8. ASSUME WriteCheckpoint PROVE pc' = "save" /\ disk' = NoOffsets
  BY <1>2, <1>3, <1>8 DEF WriteCheckpoint, Fault
<1>9. ASSUME NEW f \in Files, Create(f) \/ EndLine(f) \/ NothingNew(f) PROVE NothingLost'
  BY <1>7, <1>9 DEF Create, EndLine, NothingNew
<1>10. ASSUME NEW f \in Files, NEW m \in Messages, BeginLine(f, m) PROVE NothingLost'
  BY <1>7, <1>10 DEF BeginLine
<1>11. ASSUME NEW f \in Files, Truncate(f) PROVE FALSE
  BY <1>2, <1>3, <1>11 DEF Truncate
<1>12. ASSUME NEW g \in Files, Baseline(g) PROVE NothingLost'
  <2>1. /\ pc = "idle" /\ offset[g] = NoEntry /\ WriteCheckpoint /\ UNCHANGED <<text, tail>>
        /\ offset' = [offset EXCEPT ![g] = ResolveStart(g)]
        /\ stale' = stale \ {<<"memory", g>>}
        /\ base' = IF base[g] = NoEntry THEN [base EXCEPT ![g] = Size(g)] ELSE base
    BY <1>12 DEF Baseline, Look
  <2>2. base[g] = NoEntry
    BY <1>1, <2>1 DEF Entries
  <2>3. /\ offset'[g] = Size(g) /\ base'[g] = Size(g)
        /\ \A f \in Files \ {g} : offset'[f] = offset[f] /\ base'[f] = base[f]
    BY <1>3, <2>1, <2>2 DEF ResolveStart
  <2>4. CompleteNext(g, Size(g))
    <3>1. \A i \in 1..Len(text[g]) : ~(2 * (i - 1) >= Size(g))
      BY <1>1, NoLinePastSize
    <3>2. QED
      BY <2>1, <2>3, <3>1 DEF CompleteNext
  <2>5. \A f \in Files : CompleteNext(f, offset'[f]) /\ CompleteNext(f, disk'[f])
    <3>1. \A f \in Files : CompleteNext(f, offset'[f])
      BY <1>4, <2>3, <2>4
    <3>2. \A f \in Files : CompleteNext(f, disk'[f])
      BY <1>8, <2>1 DEF NoOffsets, CompleteNext
    <3>3. QED
      BY <3>1, <3>2
  <2>6. Entries'
    <3>1. Size(g) # NoEntry
      BY <1>1, SizeType, NamesAssumption
    <3>2. pc' = "save"
      BY <1>8, <2>1
    <3>3. ASSUME NEW f \in Files, base'[f] # NoEntry PROVE offset'[f] # NoEntry
      <4>1. CASE f = g
        BY <2>3, <3>1, <4>1
      <4>2. CASE f # g
        <5>1. offset'[f] = offset[f] /\ base'[f] = base[f]
          BY <2>3, <4>2
        <5>2. QED
          BY <1>1, <2>1, <3>3, <5>1 DEF Entries
      <4>3. QED
        BY <4>1, <4>2
    <3>4. QED
      BY <3>2, <3>3 DEF Entries
  <2>7. QED
    BY <1>1, <1>5, <1>8, <2>1, <2>5, <2>6
<1>13. ASSUME NEW g \in Files, Read(g) PROVE NothingLost'
  <2>1. /\ pc = "idle" /\ pc' = "read" /\ file' = g /\ pos' = ResolveStart(g)
        /\ ResolveStart(g) < Size(g) /\ UNCHANGED <<disk, offset, base>>
        /\ stale' = stale \ {<<"pos", g>>}
    BY <1>13 DEF Read, Look
  <2>2. Size(g) \in Nat
    BY <1>1, SizeType
  <2>3. offset[g] # NoEntry
    BY <2>1, <2>2 DEF ResolveStart
  <2>4. offset[g] <= Size(g) /\ offset[g] \in Nat
    BY <1>1, <1>3, <2>3 DEF OffsetsSound, Sound
  <2>5. pos' = offset[g]
    BY <2>1, <2>2, <2>3, <2>4 DEF ResolveStart
  <2>6. QED
    BY <1>1, <1>4, <1>6, <2>1, <2>5
<1>14. CASE FillBuffer
  BY <1>7, <1>14 DEF FillBuffer
<1>15. CASE Suppress \/ Publish
  <2>1. CompleteNext(file, pos')
    BY <1>15, CompletePastLine
  <2>2. UNCHANGED <<disk, offset, base, stale, pc, file>>
    BY <1>15 DEF Suppress, Publish, NextLine
  <2>3. QED
    BY <1>6, <2>1, <2>2
<1>16. CASE PublishFails
  BY <1>2, <1>3, <1>16 DEF PublishFails, Fault
<1>17. CASE EndOfFile
  <2>1. /\ pc = "read" /\ WriteCheckpoint /\ offset' = [offset EXCEPT ![file] = pos]
        /\ CopyAge({file}, "pos", "memory") /\ UNCHANGED base
    BY <1>17 DEF EndOfFile
  <2>2. file \in Files /\ offset'[file] = pos /\ pos # NoEntry
        /\ \A f \in Files \ {file} : offset'[f] = offset[f]
    BY <1>3, <2>1, NamesAssumption
  <2>3. stale' = {}
    BY <1>1, <2>1 DEF CopyAge
  <2>4. \A f \in Files : CompleteNext(f, offset'[f]) /\ CompleteNext(f, disk'[f])
    <3>1. \A f \in Files : CompleteNext(f, offset'[f])
      BY <1>4, <2>1, <2>2
    <3>2. \A f \in Files : CompleteNext(f, disk'[f])
      BY <1>8, <2>1 DEF NoOffsets, CompleteNext
    <3>3. QED
      BY <3>1, <3>2
  <2>5. Entries'
    BY <1>1, <1>8, <2>1, <2>2 DEF Entries
  <2>6. QED
    BY <1>5, <1>8, <2>1, <2>3, <2>4, <2>5
<1>18. CASE Save
  <2>1. /\ disk' = offset /\ CopyAge(Files, "memory", "disk")
        /\ pc = "save" /\ pc' = "idle" /\ UNCHANGED <<offset, base>>
    BY <1>2, <1>3, <1>18 DEF Save, Fault
  <2>2. stale' = {}
    BY <1>1, <2>1 DEF CopyAge
  <2>3. Entries'
    BY <1>1, <2>1 DEF Entries
  <2>4. QED
    BY <1>4, <1>5, <2>1, <2>2, <2>3
<1>19. CASE Start
  <2>1. /\ offset' = disk /\ CopyAge(Files, "disk", "memory")
        /\ pc = "down" /\ pc' = "idle" /\ UNCHANGED <<disk, base>>
    BY <1>19 DEF Start
  <2>2. stale' = {}
    BY <1>1, <2>1 DEF CopyAge
  <2>3. Entries'
    BY <1>1, <2>1 DEF Entries
  <2>4. QED
    BY <1>4, <1>5, <2>1, <2>2, <2>3
<1>20. CASE Crash
  <2>1. /\ offset' = NoOffsets /\ pc # "save" /\ pc' = "down" /\ UNCHANGED <<disk, base, stale>>
    BY <1>2, <1>20 DEF Crash
  <2>2. Entries'
    BY <1>1, <2>1 DEF Entries
  <2>3. \A f \in Files : CompleteNext(f, offset'[f])
    BY <2>1 DEF NoOffsets, CompleteNext
  <2>4. QED
    BY <1>1, <1>4, <1>5, <2>1, <2>2, <2>3
<1>21. CASE UNCHANGED vars
  BY <1>7, <1>21 DEF vars
<1>22. QED
  BY <1>9, <1>10, <1>11, <1>12, <1>13, <1>14, <1>15, <1>16, <1>17, <1>18, <1>19, <1>20, <1>21
  DEF Next, ProcessFile

\* What the comment promises ("no ERROR line is silently skipped if
\* perception-svc is briefly down", checkpoint.go:12-13) does hold, across any
\* number of crashes, as long as none of them falls between the truncation of
\* the checkpoint file and its write, and nothing fails and no log is cleared:
\* that one window is what the run logmonitor_lost finds.
THEOREM RestartSkipsNothingUndisturbed ==
  Spec /\ [][Undisturbed]_vars => []RestartSkipsNothing
<1>1. Init => IInv /\ NothingLost
  BY InitIInv DEF Init, NothingLost, Entries, Complete, NoOffsets
<1>2. IInv /\ NothingLost /\ [Next]_vars /\ [Undisturbed]_vars => (IInv /\ NothingLost)'
  BY NextIInv, NextNothingLost
<1>3. IInv /\ NothingLost => RestartSkipsNothing
  <2> SUFFICES ASSUME IInv, NothingLost, NEW f \in Files, NEW i \in 1..Len(text[f]),
                      Passed(f, i), base[f] # NoEntry, 2 * (i - 1) >= base[f]
               PROVE  pubs[f][text[f][i]] > 0
    BY DEF RestartSkipsNothing
  <2>1. CASE disk[f] # NoEntry /\ 2 * i <= disk[f]
    BY <2>1 DEF NothingLost, Complete
  <2>2. CASE offset[f] # NoEntry /\ 2 * i <= offset[f]
    BY <2>2 DEF NothingLost, Complete
  <2>3. QED
    BY <2>1, <2>2 DEF Passed, IsPast
<1>4. QED
  BY <1>1, <1>2, <1>3, PTL DEF Spec
=============================================================================
