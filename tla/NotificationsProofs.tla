------------------------ MODULE NotificationsProofs ------------------------
(***************************************************************************)
(* For any items, goroutines and bounds: no item disappears between the    *)
(* batcher, the pending file and Discord, and none is left in the file.    *)
(***************************************************************************)
EXTENDS Notifications, FiniteSetTheorems, TLAPS

\* A goroutine without a batch has nothing in its hand.
EmptyHanded ==
  \A t \in Threads : pc[t] \in {"idle", "flush", "check", "next", "read"} => hand[t] = {}

\* A stopped process has no goroutines and no timers.
Stopped ==
  ~up => /\ \A t \in Threads : pc[t] = "idle"
         /\ grace = "nil" /\ max = "nil" /\ ~due

\* The file is appended to and cleared under the lock, and what is cleared is
\* in the hand of the one who clears it.
Locked ==
  /\ \A t \in Threads : pc[t] \in {"append", "clear"} => fileMu = t
  /\ \A t \in Threads : pc[t] = "clear" => pending \subseteq hand[t]

\* A flusher that will yet read the file, or clears it.
Coming(t) == pc[t] \in {"read", "clear"} \/ (t = "catchup" /\ pc[t] = "check")

\* What is in the file, or on its way there, is in the window, or somebody
\* will come for it, or the window's end was missed.
Served ==
  (up /\ faults = 0 /\ (pending # {} \/ \E t \in Threads : pc[t] = "append"))
    => active \/ due \/ missed \/ \E t \in Flushers : Coming(t)

Holders(i) == {t \in Threads : i \in hand[t]}
InBatch(i) == IF i \in items THEN 1 ELSE 0

\* What somebody is about to clear is counted as in his hand only.
InFile(i) ==
  IF i \in pending /\ \A t \in Threads : pc[t] # "clear" THEN 1 ELSE 0

\* The copies of an item that were delivered or may yet be: one, and one more
\* for each fault.
Copies ==
  \A i \in Items :
    /\ IsFiniteSet(Holders(i))
    /\ i \notin added =>
         i \notin items \cup pending /\ Cardinality(Holders(i)) = 0 /\ delivered[i] = 0
    /\ delivered[i] + Cardinality(Holders(i)) + InBatch(i) + InFile(i) <= 1 + faults

IInv ==
  /\ TypeOK /\ EmptyHanded /\ Stopped /\ Locked
  /\ ItemsAccountedFor /\ Served /\ Copies

-----------------------------------------------------------------------------

LEMMA InitIInv == Init => IInv
<1> SUFFICES ASSUME Init PROVE IInv
  OBVIOUS
<1>1. TypeOK
  <2>1. /\ active \in BOOLEAN /\ due \in BOOLEAN /\ missed \in BOOLEAN /\ up \in BOOLEAN
    BY DEF Init
  <2>2. QED
    BY <2>1, BoundsAssumption DEF Init, TypeOK
<1>2. EmptyHanded /\ Stopped /\ Locked /\ ItemsAccountedFor /\ Served
  BY DEF Init, EmptyHanded, Stopped, Locked, ItemsAccountedFor, Served
<1>3. Copies
  <2>1. \A i \in Items : Holders(i) = {}
    BY DEF Init, Holders
  <2>2. IsFiniteSet({}) /\ Cardinality({}) = 0
    BY FS_EmptySet
  <2>3. ASSUME NEW i \in Items
        PROVE  /\ IsFiniteSet(Holders(i))
               /\ i \notin added =>
                    /\ i \notin items \cup pending
                    /\ Cardinality(Holders(i)) = 0 /\ delivered[i] = 0
               /\ delivered[i] + Cardinality(Holders(i)) + InBatch(i) + InFile(i)
                    <= 1 + faults
    <3>1. InBatch(i) = 0 /\ InFile(i) = 0 /\ delivered[i] = 0 /\ faults = 0
          /\ i \notin items \cup pending
      BY DEF Init, InBatch, InFile
    <3>2. Holders(i) = {}
      BY <2>1
    <3>3. QED
      BY <2>2, <3>1, <3>2
  <2>4. QED
    BY <2>3 DEF Copies
<1>4. QED
  BY <1>1, <1>2, <1>3 DEF IInv

\* What a step may do to what was delivered.
LEMMA DeliverType ==
  ASSUME TypeOK, NEW batch \in SUBSET Items, NEW n \in Nat, Deliver(batch, n)
  PROVE  /\ delivered' \in [Items -> Nat]
         /\ \A i \in Items : delivered'[i] >= delivered[i]
         /\ n > 0 => \A i \in batch : delivered'[i] > 0
  BY DEF TypeOK, Deliver

LEMMA FaultType ==
  ASSUME TypeOK, Fault \/ NoFault
  PROVE  faults' \in 0..MaxFaults /\ faults' >= faults /\ faults \in Nat
  BY BoundsAssumption DEF TypeOK, Fault, NoFault

\* Every step keeps the types of the variables.
LEMMA NextTypeOK == TypeOK /\ [Next]_vars => TypeOK'
<1> SUFFICES ASSUME TypeOK, [Next]_vars PROVE TypeOK'
  OBVIOUS
<1> USE BoundsAssumption DEF batcher, threads, dnd, clock, outcome, mishaps
<1>1. ASSUME NEW i \in Items, Add(i) PROVE TypeOK'
  BY <1>1 DEF TypeOK, Add
<1>2. ASSUME NEW t \in Batchers, GraceFires(t) \/ MaxFires(t) PROVE TypeOK'
  BY <1>2 DEF TypeOK, GraceFires, MaxFires, Goto
<1>3. ASSUME NEW t \in Batchers, Flush(t) \/ Decide(t) PROVE TypeOK'
  BY <1>3 DEF TypeOK, Flush, Decide, Goto, Threads
<1>4. ASSUME NEW t \in Batchers, AppendLocked(t) PROVE TypeOK'
  <2>1. t \in Threads /\ hand[t] \in SUBSET Items
    BY DEF TypeOK, Threads
  <2>2. faults' \in 0..MaxFaults
    BY <1>4, FaultType DEF AppendLocked
  <2>3. pending' \in SUBSET Items
    BY <1>4, <2>1 DEF TypeOK, AppendLocked
  <2>4. /\ pc' \in [Threads -> {"idle", "flush", "send", "append", "real", "check",
                                "next", "read", "clear", "deliver"}]
        /\ hand' \in [Threads -> SUBSET Items]
    BY <1>4 DEF TypeOK, AppendLocked, Finish, Goto, Rest
  <2>5. QED
    BY <1>4, <2>2, <2>3, <2>4 DEF TypeOK, AppendLocked
<1>5. ASSUME NEW t \in Threads, SendBatch(t) \/ SendPending(t) PROVE TypeOK'
  <2>1. hand[t] \in SUBSET Items /\ \A part \in SUBSET hand[t] : part \in SUBSET Items
    BY DEF TypeOK
  <2>2. delivered' \in [Items -> Nat]
    BY <1>5, <2>1, DeliverType DEF SendBatch, SendPending
  <2>3. lost' \in SUBSET Items
    BY <1>5, <2>1 DEF TypeOK, SendBatch, SendPending
  <2>4. faults' \in 0..MaxFaults
    BY <1>5, FaultType DEF SendBatch, SendPending
  <2>5. /\ pc' \in [Threads -> {"idle", "flush", "send", "append", "real", "check",
                                "next", "read", "clear", "deliver"}]
        /\ hand' \in [Threads -> SUBSET Items]
    BY <1>5 DEF TypeOK, SendBatch, SendPending, Finish, Goto, Rest
  <2>6. QED
    BY <1>5, <2>2, <2>3, <2>4, <2>5 DEF TypeOK, SendBatch, SendPending
<1>6. CASE WakeFlusher \/ NextWindowEnd \/ CatchUp \/ Start
  BY <1>6 DEF TypeOK, WakeFlusher, NextWindowEnd, CatchUp, Start, Goto
<1>7. ASSUME NEW t \in Flushers, Read(t) PROVE TypeOK'
  <2>1. faults' \in 0..MaxFaults
    BY <1>7, FaultType DEF Read
  <2>2. /\ t \in Threads /\ pending \in SUBSET Items
        /\ UNCHANGED <<batcher, pending, clock, up, outcome, crashes>>
        /\ \E p \in {"idle", "next", "clear"} : pc' = [pc EXCEPT ![t] = p]
        /\ hand' = hand \/ hand' = [hand EXCEPT ![t] = pending]
        /\ fileMu' = fileMu \/ fileMu' = t
    BY <1>7 DEF TypeOK, Read, Goto, Rest, Threads
  <2>3. QED
    BY <2>1, <2>2 DEF TypeOK
<1>8. ASSUME NEW t \in Flushers, Clear(t) PROVE TypeOK'
  <2>1. faults' \in 0..MaxFaults
    BY <1>8, FaultType DEF Clear
  <2>2. /\ t \in Threads /\ fileMu' = Free /\ pending' \in {{}, pending}
        /\ pc' = [pc EXCEPT ![t] = "deliver"]
        /\ UNCHANGED <<batcher, hand, clock, up, outcome, crashes>>
    BY <1>8 DEF Clear, Goto, Threads
  <2>3. QED
    BY <2>1, <2>2 DEF TypeOK
<1>9. CASE WindowStarts \/ WindowEnds
  <2>1. active' \in BOOLEAN /\ due' \in BOOLEAN /\ missed' \in BOOLEAN
    BY <1>9 DEF TypeOK, WindowStarts, WindowEnds
  <2>2. UNCHANGED <<batcher, threads, dnd, up, outcome, mishaps>>
    BY <1>9 DEF WindowStarts, WindowEnds
  <2>3. QED
    BY <2>1, <2>2 DEF TypeOK
<1>10. CASE Crash
  <2>1. lost' \in SUBSET Items
    <3>1. lost \subseteq Items /\ items \subseteq Items
          /\ \A t \in Threads : hand[t] \subseteq Items
      BY DEF TypeOK
    <3>2. lost' = lost \cup items \cup UNION {hand[t] : t \in Threads}
      BY <1>10 DEF Crash
    <3>3. QED
      BY <3>1, <3>2
  <2>2. crashes' \in 0..MaxCrashes
    BY <1>10 DEF TypeOK, Crash
  <2>3. up' \in BOOLEAN /\ due' \in BOOLEAN /\ missed' \in BOOLEAN
    BY <1>10 DEF Crash
  <2>4. /\ items' = {} /\ grace' = "nil" /\ max' = "nil" /\ fileMu' = Free
        /\ pc' = [t \in Threads |-> "idle"] /\ hand' = [t \in Threads |-> {}]
        /\ UNCHANGED <<added, pending, active, delivered, faults>>
    BY <1>10 DEF Crash
  <2>5. QED
    BY <2>1, <2>2, <2>3, <2>4 DEF TypeOK
<1>11. CASE UNCHANGED vars
  BY <1>11 DEF TypeOK, vars
<1>12. QED
  BY <1>1, <1>2, <1>3, <1>4, <1>5, <1>6, <1>7, <1>8, <1>9, <1>10, <1>11
  DEF Next, Batching, Flushing, Threads

\* Only the holder of the lock is at the file.
LEMMA NextLocked ==
  TypeOK /\ EmptyHanded /\ Stopped /\ Locked /\ [Next]_vars
    => EmptyHanded' /\ Stopped' /\ Locked'
<1> SUFFICES ASSUME TypeOK, EmptyHanded, Stopped, Locked, [Next]_vars
             PROVE  EmptyHanded' /\ Stopped' /\ Locked'
  OBVIOUS
<1> USE ThreadsAssumption
    DEF TypeOK, EmptyHanded, Stopped, Locked, Goto, Finish, Rest, Threads,
        batcher, threads, dnd, clock, outcome, mishaps
<1>1. ASSUME NEW i \in Items, Add(i) PROVE EmptyHanded' /\ Stopped' /\ Locked'
  BY <1>1 DEF Add
<1>2. ASSUME NEW t \in Batchers, GraceFires(t) \/ MaxFires(t) \/ Flush(t)
      PROVE  EmptyHanded' /\ Stopped' /\ Locked'
  BY <1>2 DEF GraceFires, MaxFires, Flush
<1>3. ASSUME NEW t \in Batchers, Decide(t) PROVE EmptyHanded' /\ Stopped' /\ Locked'
  BY <1>3 DEF Decide
<1>4. ASSUME NEW t \in Batchers, AppendLocked(t) PROVE EmptyHanded' /\ Stopped' /\ Locked'
  BY <1>4 DEF AppendLocked
<1>5. ASSUME NEW t \in Threads, SendBatch(t) \/ SendPending(t)
      PROVE  EmptyHanded' /\ Stopped' /\ Locked'
  BY <1>5 DEF SendBatch, SendPending
<1>6. CASE WakeFlusher \/ NextWindowEnd \/ CatchUp \/ Start
  BY <1>6 DEF WakeFlusher, NextWindowEnd, CatchUp, Start, Flushers
<1>7. ASSUME NEW t \in Flushers, Read(t) PROVE EmptyHanded' /\ Stopped' /\ Locked'
  BY <1>7 DEF Read
<1>8. ASSUME NEW t \in Flushers, Clear(t) PROVE EmptyHanded' /\ Stopped' /\ Locked'
  BY <1>8 DEF Clear
<1>9. CASE WindowStarts \/ WindowEnds
  BY <1>9 DEF WindowStarts, WindowEnds
<1>10. CASE Crash
  BY <1>10 DEF Crash
<1>11. CASE UNCHANGED vars
  BY <1>11 DEF vars
<1>12. QED
  BY <1>1, <1>2, <1>3, <1>4, <1>5, <1>6, <1>7, <1>8, <1>9, <1>10, <1>11
  DEF Next, Batching, Flushing

\* Every step moves an item on, delivers it or counts it as lost.
LEMMA NextItemsAccountedFor == IInv /\ [Next]_vars => ItemsAccountedFor'
<1> SUFFICES ASSUME IInv, [Next]_vars, NEW i \in added'
             PROVE  i \in items' \cup InHand' \cup pending' \cup lost' \/ delivered'[i] > 0
  BY DEF ItemsAccountedFor
<1> DEFINE Goal == \/ i \in items' \/ i \in pending' \/ i \in lost'
                   \/ (\E t \in Threads : i \in hand'[t]) \/ delivered'[i] > 0
           Was  == \/ i \in items \/ i \in pending \/ i \in lost
                   \/ (\E t \in Threads : i \in hand[t]) \/ delivered[i] > 0
<1>1. Goal => i \in items' \cup InHand' \cup pending' \cup lost' \/ delivered'[i] > 0
  BY DEF InHand
<1>2. i \in added => Was
  BY DEF IInv, ItemsAccountedFor, InHand
<1>3. TypeOK /\ TypeOK'
  BY NextTypeOK DEF IInv
<1> USE DEF batcher, threads, dnd, clock, outcome, mishaps
<1>4. ASSUME NEW j \in Items, Add(j) PROVE Goal
  BY <1>2, <1>4 DEF Add
<1>5. ASSUME UNCHANGED <<added, items, hand, delivered, lost>>, pending \subseteq pending'
      PROVE  Goal
  BY <1>2, <1>5
<1>6. ASSUME NEW t \in Batchers, GraceFires(t) \/ MaxFires(t) \/ Decide(t) PROVE Goal
  BY <1>5, <1>6 DEF GraceFires, MaxFires, Decide
<1>7. ASSUME NEW t \in Batchers, Flush(t) PROVE Goal
  <2>1. t \in Threads /\ hand[t] = {} /\ hand' = [hand EXCEPT ![t] = items]
        /\ UNCHANGED <<added, pending, delivered, lost>>
    BY <1>7 DEF IInv, EmptyHanded, Flush, Threads
  <2>2. hand'[t] = items /\ \A u \in Threads : hand[u] \subseteq hand'[u]
    BY <1>3, <2>1 DEF TypeOK
  <2>3. QED
    BY <1>2, <2>1, <2>2
<1>8. ASSUME NEW t \in Batchers, AppendLocked(t) PROVE Goal
  <2>1. /\ UNCHANGED <<added, items, delivered, lost>> /\ pending \subseteq pending'
        /\ \A u \in Threads \ {t} : hand'[u] = hand[u]
        /\ hand'[t] = hand[t] \/ hand[t] \subseteq pending'
    BY <1>3, <1>8 DEF TypeOK, AppendLocked, Finish, Threads
  <2>2. QED
    BY <1>2, <2>1
<1>9. ASSUME NEW t \in Threads, SendBatch(t) \/ SendPending(t) PROVE Goal
  <2>1. /\ UNCHANGED <<added, items, pending>>
        /\ \A u \in Threads \ {t} : hand'[u] = hand[u]
        /\ lost \subseteq lost'
    BY <1>3, <1>9 DEF TypeOK, SendBatch, SendPending, Finish
  <2>2. \E part \in SUBSET hand[t] : \E n \in {1, 2} :
          Deliver(part, n) /\ hand[t] \ part \subseteq lost'
    BY <1>9 DEF SendBatch, SendPending
  <2>3. PICK part \in SUBSET hand[t] : \E n \in {1, 2} :
          Deliver(part, n) /\ hand[t] \ part \subseteq lost'
    BY <2>2
  <2>4. part \in SUBSET Items /\ added \subseteq Items
    BY <1>3 DEF TypeOK
  <2>5. /\ \A j \in Items : delivered'[j] >= delivered[j]
        /\ \A j \in part : delivered'[j] > 0
    BY <1>3, <2>3, <2>4, DeliverType
  <2>6. i \in Items /\ delivered[i] \in Nat /\ delivered'[i] \in Nat
    BY <1>3, <2>1, <2>4 DEF TypeOK
  <2>7. QED
    BY <1>2, <2>1, <2>3, <2>5, <2>6
<1>10. ASSUME WakeFlusher \/ NextWindowEnd \/ CatchUp \/ Start \/ WindowStarts \/ WindowEnds
       PROVE  Goal
  <2>1. UNCHANGED <<added, items, hand, delivered, lost>> /\ pending \subseteq pending'
    BY <1>10 DEF WakeFlusher, NextWindowEnd, CatchUp, Start, WindowStarts, WindowEnds
  <2>2. QED
    BY <1>5, <2>1
<1>11. ASSUME NEW t \in Flushers, Read(t) PROVE Goal
  <2>1. /\ hand[t] = {} /\ UNCHANGED <<added, items, pending, delivered, lost>>
        /\ hand' = hand \/ hand' = [hand EXCEPT ![t] = pending]
    BY <1>11 DEF IInv, EmptyHanded, Read, Threads
  <2>2. \A u \in Threads : hand[u] \subseteq hand'[u]
    BY <1>3, <2>1 DEF TypeOK
  <2>3. QED
    BY <1>2, <2>1, <2>2
<1>12. ASSUME NEW t \in Flushers, Clear(t) PROVE Goal
  <2>1. /\ pending \subseteq hand[t] /\ t \in Threads
        /\ UNCHANGED <<added, items, hand, delivered, lost>>
    BY <1>12 DEF IInv, Locked, Clear, Threads
  <2>2. QED
    BY <1>2, <2>1
<1>13. ASSUME Crash PROVE Goal
  <2>1. /\ UNCHANGED <<added, pending, delivered>> /\ lost \subseteq lost'
        /\ items \subseteq lost' /\ \A t \in Threads : hand[t] \subseteq lost'
    BY <1>13 DEF Crash
  <2>2. QED
    BY <1>2, <2>1
<1>14. ASSUME UNCHANGED vars PROVE Goal
  <2>1. UNCHANGED <<added, items, hand, delivered, lost>> /\ pending \subseteq pending'
    BY <1>14 DEF vars
  <2>2. QED
    BY <1>5, <2>1
<1>15. Goal
  BY <1>4, <1>6, <1>7, <1>8, <1>9, <1>10, <1>11, <1>12, <1>13, <1>14
  DEF Next, Batching, Flushing, Threads
<1>16. QED
  BY <1>1, <1>15

\* A window that ends makes a flush due; a flusher that goes away leaves an
\* empty file, and nobody who is about to append.
LEMMA NextServed ==
  TypeOK /\ Stopped /\ Locked /\ Served /\ [Next]_vars => Served'
<1> SUFFICES ASSUME TypeOK, Stopped, Locked, Served, [Next]_vars,
                    up', faults' = 0,
                    pending' # {} \/ \E t \in Threads : pc'[t] = "append"
             PROVE  active' \/ due' \/ missed' \/ \E t \in Flushers : Coming(t)'
  BY DEF Served
<1> DEFINE Goal == active' \/ due' \/ missed' \/ \E t \in Flushers : Coming(t)'
<1> USE ThreadsAssumption DEF batcher, threads, dnd, clock, outcome, mishaps
<1>1. faults \in Nat /\ ~Fault
  BY BoundsAssumption DEF TypeOK, Fault
<1>2. pc \in [Threads -> {"idle", "flush", "send", "append", "real", "check",
                          "next", "read", "clear", "deliver"}]
  BY DEF TypeOK
<1>3. ASSUME UNCHANGED <<pending, faults, clock, up>>,
             \A t \in Threads : pc'[t] = "append" => pc[t] = "append",
             \A t \in Flushers : Coming(t) => Coming(t)'
      PROVE  Goal
  BY <1>3 DEF Served
<1>4. ASSUME NEW i \in Items, Add(i) PROVE Goal
  BY <1>3, <1>4 DEF Add, Coming
<1>5. ASSUME NEW t \in Batchers,
             GraceFires(t) \/ MaxFires(t) \/ Flush(t) \/ SendBatch(t)
      PROVE  Goal
  <2>1. \E p \in {"idle", "flush", "send"} : Goto(t, p)
    BY <1>5 DEF GraceFires, MaxFires, Flush, SendBatch, Finish, Rest, Flushers
  <2>2. UNCHANGED <<pending, faults, clock, up>>
    BY <1>1, <1>5 DEF GraceFires, MaxFires, Flush, SendBatch, NoFault
  <2>3. /\ t \in Threads /\ t \notin Flushers
        /\ \A u \in Threads \ {t} : pc'[u] = pc[u]
        /\ pc'[t] # "append"
    BY <1>2, <2>1 DEF Goto, Threads
  <2>4. \A u \in Flushers : Coming(u) => Coming(u)'
    BY <2>3 DEF Coming, Threads
  <2>5. \A u \in Threads : pc'[u] = "append" => pc[u] = "append"
    BY <2>3
  <2>6. QED
    BY <1>3, <2>2, <2>4, <2>5
<1>6. ASSUME NEW t \in Batchers, Decide(t) PROVE Goal
  <2>1. CASE active
    BY <1>6, <2>1 DEF Decide
  <2>2. CASE ~active
    BY <1>2, <1>3, <1>6, <2>2 DEF Decide, Goto, Coming, Threads
  <2>3. QED
    BY <2>1, <2>2
<1>7. ASSUME NEW t \in Batchers, AppendLocked(t) PROVE Goal
  <2>1. /\ pc[t] = "append" /\ t \in Threads /\ Goto(t, Rest(t))
        /\ UNCHANGED <<faults, clock, up>>
    BY <1>1, <1>7 DEF AppendLocked, Finish, NoFault, Threads
  <2>2. active \/ due \/ missed \/ \E u \in Flushers : Coming(u)
    BY <2>1 DEF Served
  <2>3. \A u \in Flushers : Coming(u) => Coming(u)'
    BY <1>2, <2>1 DEF Goto, Rest, Coming, Threads
  <2>4. QED
    BY <2>1, <2>2, <2>3
<1>8. CASE WakeFlusher
  BY <1>2, <1>8 DEF WakeFlusher, Goto, Coming, Flushers, Threads
<1>9. CASE CatchUp
  <2>1. CASE active
    BY <1>9, <2>1 DEF CatchUp
  <2>2. CASE ~active
    BY <1>2, <1>9, <2>2 DEF CatchUp, Goto, Coming, Flushers, Threads
  <2>3. QED
    BY <2>1, <2>2
<1>10. ASSUME NEW t \in Flushers, Read(t) PROVE Goal
  <2>1. CASE pending # {}
    BY <1>1, <1>2, <1>10, <2>1 DEF Read, Goto, Coming, Threads
  <2>2. CASE pending = {}
    <3>1. fileMu = Free /\ Goto(t, Rest(t)) /\ UNCHANGED pending
      BY <1>1, <1>10, <2>2 DEF Read
    <3>2. \A u \in Threads : pc[u] # "append"
      BY <3>1 DEF Locked
    <3>3. QED
      BY <1>2, <2>2, <3>1, <3>2 DEF Goto, Rest, Threads
  <2>3. QED
    BY <2>1, <2>2
<1>11. ASSUME NEW t \in Flushers, Clear(t) PROVE FALSE
  <2>1. pc[t] = "clear" /\ t \in Threads /\ pending' = {} /\ Goto(t, "deliver")
    BY <1>1, <1>11 DEF Clear, Threads
  <2>2. \A u \in Threads : pc[u] # "append"
    BY <2>1 DEF Locked
  <2>3. QED
    BY <1>2, <2>1, <2>2 DEF Goto
<1>12. ASSUME NEW t \in Flushers, SendPending(t) PROVE Goal
  <2>1. /\ pc[t] = "deliver" /\ Goto(t, Rest(t))
        /\ UNCHANGED <<pending, faults, clock, up>>
    BY <1>1, <1>12 DEF SendPending, Finish, NoFault
  <2>2. QED
    BY <1>2, <1>3, <2>1 DEF Goto, Rest, Coming, Threads
<1>13. CASE WindowStarts \/ WindowEnds
  <2>1. CASE WindowStarts
    BY <2>1 DEF WindowStarts
  <2>2. CASE WindowEnds
    <3>1. up /\ pc' = pc /\ "catchup" \in Flushers
      BY <2>2 DEF WindowEnds, Flushers
    <3>2. CASE pc["loop"] # "next"
      BY <2>2, <3>1, <3>2 DEF WindowEnds
    <3>3. CASE pc["loop"] = "next" /\ pc["catchup"] # "check"
      BY <2>2, <3>1, <3>3 DEF WindowEnds
    <3>4. CASE pc["catchup"] = "check"
      BY <3>1, <3>4 DEF Coming
    <3>5. QED
      BY <3>2, <3>3, <3>4
  <2>3. QED
    BY <1>13, <2>1, <2>2
<1>14. CASE Start
  BY <1>2, <1>14 DEF Start, Coming, Flushers, Threads
<1>15. CASE Crash
  BY <1>15 DEF Crash
<1>16. CASE UNCHANGED vars
  BY <1>3, <1>16 DEF vars, Coming
<1>17. CASE NextWindowEnd
  BY <1>2, <1>3, <1>17 DEF NextWindowEnd, Goto, Coming, Flushers, Threads
<1>18. QED
  BY <1>4, <1>5, <1>6, <1>7, <1>8, <1>9, <1>10, <1>11, <1>12, <1>13, <1>14, <1>15,
     <1>16, <1>17 DEF Next, Batching, Flushing

\* A goroutine changes what it has in hand.
LEMMA HandChange ==
  ASSUME TypeOK, NEW i \in Items, NEW t \in Threads, IsFiniteSet(Holders(i)),
         \A u \in Threads \ {t} : hand'[u] = hand[u]
  PROVE  /\ IsFiniteSet(Holders(i)')
         /\ Cardinality(Holders(i)') = Cardinality(Holders(i))
              + (IF i \in hand'[t] THEN 1 ELSE 0) - (IF i \in hand[t] THEN 1 ELSE 0)
<1>1. Cardinality(Holders(i)) \in Nat
  BY FS_CardinalityType
<1>2. CASE i \in hand'[t] /\ i \notin hand[t]
  <2>1. Holders(i)' = Holders(i) \cup {t} /\ t \notin Holders(i)
    BY <1>2 DEF Holders, TypeOK
  <2>2. QED
    BY <1>1, <1>2, <2>1, FS_AddElement
<1>3. CASE i \notin hand'[t] /\ i \in hand[t]
  <2>1. Holders(i)' = Holders(i) \ {t} /\ t \in Holders(i)
    BY <1>3 DEF Holders, TypeOK
  <2>2. QED
    BY <1>1, <1>3, <2>1, FS_RemoveElement
<1>4. CASE i \in hand'[t] <=> i \in hand[t]
  <2>1. Holders(i)' = Holders(i)
    BY <1>4 DEF Holders, TypeOK
  <2>2. QED
    BY <1>1, <1>4, <2>1
<1>5. QED
  BY <1>2, <1>3, <1>4

\* Every step moves a copy; only a fault leaves one behind.
LEMMA NextCopies ==
  TypeOK /\ EmptyHanded /\ Stopped /\ Locked /\ Copies /\ [Next]_vars => Copies'
<1> SUFFICES ASSUME TypeOK, EmptyHanded, Stopped, Locked, Copies, [Next]_vars,
                    NEW i \in Items
             PROVE  /\ IsFiniteSet(Holders(i)')
                    /\ i \notin added' =>
                         /\ i \notin items' \cup pending'
                         /\ Cardinality(Holders(i)') = 0 /\ delivered'[i] = 0
                    /\ delivered'[i] + Cardinality(Holders(i)') + InBatch(i)' + InFile(i)'
                         <= 1 + faults'
  BY DEF Copies
<1> DEFINE c == Cardinality(Holders(i))
           Goal == /\ IsFiniteSet(Holders(i)')
                   /\ i \notin added' =>
                        /\ i \notin items' \cup pending'
                        /\ c' = 0 /\ delivered'[i] = 0
                   /\ delivered'[i] + c' + InBatch(i)' + InFile(i)' <= 1 + faults'
<1> USE ThreadsAssumption DEF batcher, threads, dnd, clock, outcome, mishaps
<1>1. /\ IsFiniteSet(Holders(i)) /\ c \in Nat /\ delivered[i] \in Nat /\ faults \in Nat
      /\ i \notin added => i \notin items \cup pending /\ c = 0 /\ delivered[i] = 0
      /\ delivered[i] + c + InBatch(i) + InFile(i) <= 1 + faults
  BY FS_CardinalityType, BoundsAssumption DEF Copies, TypeOK
<1>2. /\ pc \in [Threads -> {"idle", "flush", "send", "append", "real", "check",
                             "next", "read", "clear", "deliver"}]
      /\ hand \in [Threads -> SUBSET Items] /\ delivered \in [Items -> Nat]
  BY DEF TypeOK
<1>3. hand' = hand => IsFiniteSet(Holders(i)') /\ c' = c
  BY <1>1 DEF Holders
<1>4. ASSUME NEW t \in Threads, \A u \in Threads \ {t} : hand'[u] = hand[u]
      PROVE  /\ IsFiniteSet(Holders(i)')
             /\ c' = c + (IF i \in hand'[t] THEN 1 ELSE 0) - (IF i \in hand[t] THEN 1 ELSE 0)
  BY <1>1, <1>4, HandChange
<1>5. ASSUME NEW t \in Threads, NEW p, Goto(t, p)
      PROVE  /\ p # "clear" /\ pc[t] # "clear" /\ i \notin pending' \ pending
                 => InFile(i)' <= InFile(i)
             /\ p = "clear" => InFile(i)' = 0
  BY <1>2, <1>5 DEF Goto, InFile
<1>6. ASSUME UNCHANGED <<added, items, hand, pending, delivered, faults>>,
             InFile(i)' <= InFile(i)
      PROVE  Goal
  BY <1>1, <1>3, <1>6 DEF InBatch, InFile
<1>7. ASSUME NEW j \in Items, Add(j) PROVE Goal
  <2>1. UNCHANGED <<hand, pending, delivered, faults>> /\ InFile(i)' = InFile(i)
    BY <1>7 DEF Add, InFile
  <2>2. CASE i = j
    BY <1>1, <1>3, <1>7, <2>1, <2>2 DEF Add, InBatch, InFile
  <2>3. CASE i # j
    BY <1>1, <1>3, <1>7, <2>1, <2>3 DEF Add, InBatch, InFile
  <2>4. QED
    BY <2>2, <2>3
<1>8. ASSUME NEW t \in Batchers, GraceFires(t) \/ MaxFires(t) \/ Decide(t) PROVE Goal
  <2>1. UNCHANGED <<added, items, hand, pending, delivered, faults>>
    BY <1>8 DEF GraceFires, MaxFires, Decide
  <2>2. pc[t] \in {"idle", "send"} /\ \E p \in {"flush", "append", "real"} : Goto(t, p)
    BY <1>8 DEF GraceFires, MaxFires, Decide
  <2>3. InFile(i)' <= InFile(i)
    BY <1>5, <2>1, <2>2 DEF Threads
  <2>4. QED
    BY <1>6, <2>1, <2>3
<1>9. ASSUME NEW t \in Batchers, Flush(t) PROVE Goal
  <2>1. /\ t \in Threads /\ hand[t] = {} /\ hand' = [hand EXCEPT ![t] = items]
        /\ items' = {} /\ UNCHANGED <<added, pending, delivered, faults>>
    BY <1>9 DEF EmptyHanded, Flush, Threads
  <2>2. InFile(i)' <= InFile(i)
    BY <1>5, <1>9, <2>1 DEF Flush
  <2>7. hand'[t] = items /\ \A u \in Threads \ {t} : hand'[u] = hand[u]
    BY <1>2, <2>1
  <2>3. c' = c + InBatch(i) /\ InBatch(i)' = 0 /\ IsFiniteSet(Holders(i)')
    BY <1>1, <1>2, <1>4, <2>1, <2>7 DEF InBatch
  <2>4. QED
    BY <1>1, <2>1, <2>2, <2>3 DEF InBatch, InFile
<1>10. ASSUME NEW t \in Batchers, AppendLocked(t) PROVE Goal
  <2>1. /\ t \in Threads /\ pc[t] = "append" /\ UNCHANGED <<added, items, delivered>>
        /\ InBatch(i)' = InBatch(i)
    BY <1>10 DEF AppendLocked, Threads, InBatch
  <2>2. \A u \in Threads : pc[u] # "clear"
    BY <2>1 DEF Locked
  <2>3. CASE pending' = pending \cup hand[t] /\ Finish(t) /\ NoFault
    <3>5. hand'[t] = {} /\ \A u \in Threads \ {t} : hand'[u] = hand[u]
      BY <1>2, <2>1, <2>3 DEF Finish
    <3>1. /\ IsFiniteSet(Holders(i)')
          /\ c' = c - (IF i \in hand[t] THEN 1 ELSE 0)
      BY <1>1, <1>4, <2>1, <3>5
    <3>2. i \in hand[t] => c # 0
      BY <1>1, <2>1, FS_EmptySet DEF Holders
    <3>3. InFile(i)' <= InFile(i) + (IF i \in hand[t] THEN 1 ELSE 0)
      BY <2>2, <2>3 DEF InFile
    <3>4. QED
      BY <1>1, <2>1, <2>3, <3>1, <3>2, <3>3 DEF NoFault, InBatch, InFile
  <2>4. ASSUME NEW part \in SUBSET hand[t], pending' = pending \cup part,
               UNCHANGED hand, Fault
        PROVE  Goal
    <3>1. i \in hand[t] => c # 0
      BY <1>1, <2>1, FS_EmptySet DEF Holders
    <3>2. InFile(i)' <= InFile(i) + 1
      BY <2>2, <2>4 DEF InFile
    <3>3. QED
      BY <1>1, <1>3, <2>1, <2>4, <3>1, <3>2 DEF Fault, InBatch, InFile
  <2>5. QED
    BY <1>10, <2>3, <2>4 DEF AppendLocked
<1>11. ASSUME NEW t \in Threads, SendBatch(t) \/ SendPending(t) PROVE Goal
  <2>1. /\ pc[t] \in {"real", "deliver"} /\ Finish(t)
        /\ UNCHANGED <<added, items, pending>> /\ InBatch(i)' = InBatch(i)
    BY <1>11 DEF SendBatch, SendPending, InBatch
  <2>2. InFile(i)' <= InFile(i)
    BY <1>5, <2>1 DEF Finish, Rest
  <2>7. hand'[t] = {} /\ \A u \in Threads \ {t} : hand'[u] = hand[u]
    BY <1>2, <2>1 DEF Finish
  <2>3. /\ IsFiniteSet(Holders(i)')
        /\ c' = c - (IF i \in hand[t] THEN 1 ELSE 0)
    BY <1>1, <1>4, <2>7
  <2>4. i \in hand[t] => c # 0
    BY <1>1, FS_EmptySet DEF Holders
  <2>5. ASSUME NEW part \in SUBSET hand[t], NEW n \in {1, 2}, Deliver(part, n),
               faults' = faults + n - 1 \/ faults' = faults + 1
        PROVE  Goal
    <3>1. delivered'[i] <= delivered[i] + (IF i \in hand[t] THEN n ELSE 0)
          /\ delivered'[i] \in Nat /\ (i \notin hand[t] => delivered'[i] = delivered[i])
      BY <1>1, <2>5 DEF Deliver
    <3>2. QED
      BY <1>1, <2>1, <2>2, <2>3, <2>4, <2>5, <3>1 DEF InBatch, InFile
  <2>6. QED
    BY <1>1, <1>11, <2>5 DEF SendBatch, SendPending, Fault, NoFault
<1>12. CASE WakeFlusher \/ NextWindowEnd \/ CatchUp
  <2>1. UNCHANGED <<added, items, hand, pending, delivered, faults>>
    BY <1>12 DEF WakeFlusher, NextWindowEnd, CatchUp
  <2>2. \E t \in Threads : \E p \in {"idle", "read"} : pc[t] # "clear" /\ Goto(t, p)
    BY <1>12 DEF WakeFlusher, NextWindowEnd, CatchUp, Threads, Flushers
  <2>3. InFile(i)' <= InFile(i)
    BY <1>5, <2>1, <2>2
  <2>4. QED
    BY <1>6, <2>1, <2>3
<1>13. CASE Start
  <2>1. UNCHANGED <<added, items, hand, pending, delivered, faults>>
    BY <1>13 DEF Start
  <2>2. \A t \in Threads : pc[t] # "clear" /\ pc'[t] # "clear"
    BY <1>2, <1>13 DEF Start, Stopped
  <2>3. InFile(i)' <= InFile(i)
    BY <2>1, <2>2 DEF InFile
  <2>4. QED
    BY <1>6, <2>1, <2>3
<1>14. CASE WindowStarts \/ WindowEnds \/ UNCHANGED vars
  <2>1. UNCHANGED <<added, items, hand, pending, delivered, faults, pc>>
    BY <1>14 DEF WindowStarts, WindowEnds, vars
  <2>2. InFile(i)' <= InFile(i)
    BY <2>1 DEF InFile
  <2>3. QED
    BY <1>6, <2>1, <2>2
<1>15. ASSUME NEW t \in Flushers, Read(t) PROVE Goal
  <2>1. /\ t \in Threads /\ hand[t] = {} /\ pc[t] = "read" /\ fileMu = Free
        /\ UNCHANGED <<added, items, pending, delivered>> /\ InBatch(i)' = InBatch(i)
    BY <1>15 DEF EmptyHanded, Read, Threads, InBatch
  <2>2. CASE Goto(t, Rest(t)) /\ UNCHANGED hand /\ faults' >= faults /\ faults' \in Nat
    <3>1. InFile(i)' <= InFile(i)
      BY <1>5, <2>1, <2>2 DEF Rest
    <3>2. QED
      BY <1>1, <1>3, <2>1, <2>2, <3>1 DEF InBatch, InFile
  <2>3. CASE NoFault /\ Goto(t, "clear") /\ hand' = [hand EXCEPT ![t] = pending]
    <3>1. InFile(i)' = 0
      BY <1>5, <2>1, <2>3
    <3>2. InFile(i) = IF i \in pending THEN 1 ELSE 0
      BY <2>1 DEF Locked, InFile
    <3>5. hand'[t] = pending /\ \A u \in Threads \ {t} : hand'[u] = hand[u]
      BY <1>2, <2>1, <2>3
    <3>3. /\ IsFiniteSet(Holders(i)')
          /\ c' = c + (IF i \in pending THEN 1 ELSE 0)
      BY <1>1, <1>4, <2>1, <3>5
    <3>4. QED
      BY <1>1, <2>1, <2>3, <3>1, <3>2, <3>3 DEF InBatch, NoFault
  <2>4. QED
    BY <1>1, <1>15, <2>2, <2>3 DEF Read, Fault, NoFault
<1>16. ASSUME NEW t \in Flushers, Clear(t) PROVE Goal
  <2>1. /\ UNCHANGED <<added, items, hand, delivered>> /\ InBatch(i)' = InBatch(i)
        /\ (pending' = {} /\ NoFault) \/ (UNCHANGED pending /\ Fault)
    BY <1>16 DEF Clear, InBatch
  <2>2. pending' = {} => InFile(i)' = 0
    BY DEF InFile
  <2>3. InFile(i)' <= InFile(i) + 1
    BY DEF InFile
  <2>4. QED
    BY <1>1, <1>3, <2>1, <2>2, <2>3 DEF Fault, NoFault, InBatch, InFile
<1>17. CASE Crash
  <2>1. /\ UNCHANGED <<added, pending, delivered, faults>> /\ items' = {}
        /\ hand' = [t \in Threads |-> {}]
    BY <1>17 DEF Crash
  <2>2. Holders(i)' = {} /\ InBatch(i)' = 0
    BY <2>1 DEF Holders, InBatch
  <2>3. IsFiniteSet(Holders(i)') /\ c' = 0
    BY <2>2, FS_EmptySet
  <2>4. InFile(i)' <= c + InFile(i)
    <3>1. CASE \E t \in Threads : pc[t] = "clear" /\ i \in pending
      <4>1. Holders(i) # {}
        BY <3>1 DEF Locked, Holders
      <4>2. QED
        BY <1>1, <4>1, FS_EmptySet DEF InFile
    <3>2. CASE ~ \E t \in Threads : pc[t] = "clear" /\ i \in pending
      BY <1>1, <2>1, <3>2 DEF InFile
    <3>3. QED
      BY <3>1, <3>2
  <2>5. QED
    BY <1>1, <2>1, <2>2, <2>3, <2>4 DEF InBatch, InFile
<1>18. Goal
  BY <1>7, <1>8, <1>9, <1>10, <1>11, <1>12, <1>13, <1>14, <1>15, <1>16, <1>17
  DEF Next, Batching, Flushing, Threads
<1>19. QED
  BY <1>18

LEMMA Invariance == Spec => []IInv
<1>1. IInv /\ [Next]_vars => IInv'
  BY NextTypeOK, NextLocked, NextItemsAccountedFor, NextServed, NextCopies DEF IInv
<1>2. QED
  BY InitIInv, <1>1, PTL DEF Spec

-----------------------------------------------------------------------------

\* The batch, the goroutines and the file keep their shape (Batcher,
\* dndNotifier, Flusher).
THEOREM TypeCorrect == Spec => []TypeOK
<1>1. IInv => TypeOK
  BY DEF IInv
<1>2. QED
  BY <1>1, Invariance, PTL

\* Whatever timers, senders and flushers do at the same time: an item is in
\* memory, in somebody's hand, in the file, delivered, or counted as lost
\* (Batcher.Flush, dndNotifier.Send, readAndClearPending).
THEOREM ItemsAccountedForHolds == Spec => []ItemsAccountedFor
<1>1. IInv => ItemsAccountedFor
  BY DEF IInv
<1>2. QED
  BY <1>1, Invariance, PTL

\* A message that was decided to go to the file before the window ended is not
\* left there (dndNotifier.Send and FlushIfPending under one lock), unless the
\* end fell between the two looks at the clock of a start.
THEOREM NotStrandedHolds == Spec => []NotStranded
<1>1. IInv => NotStranded
  BY DEF IInv, Served, NotStranded, Coming
<1>2. QED
  BY <1>1, Invariance, PTL

\* An item is sent once, and once more for each send, append or clearing that
\* fails (Batcher.Flush, dndNotifier.Send, sendWithRetry).
THEOREM DeliveredOnceHolds == Spec => []DeliveredOnce
<1>1. IInv => DeliveredOnce
  <2> SUFFICES ASSUME IInv, NEW i \in Items PROVE delivered[i] <= 1 + faults
    BY DEF DeliveredOnce
  <2>1. /\ Cardinality(Holders(i)) \in Nat /\ delivered[i] \in Nat /\ faults \in Nat
        /\ delivered[i] + Cardinality(Holders(i)) + InBatch(i) + InFile(i) <= 1 + faults
    BY FS_CardinalityType, BoundsAssumption DEF IInv, Copies, TypeOK
  <2>2. QED
    BY <2>1 DEF InBatch, InFile
<1>2. QED
  BY <1>1, Invariance, PTL
=============================================================================
