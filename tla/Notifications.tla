---------------------------- MODULE Notifications ----------------------------
(***************************************************************************)
(* action-svc: how an important item becomes a Discord message.            *)
(*                                                                         *)
(* The consumer goroutine adds items to the Batcher; its grace and         *)
(* max-wait timers each start a goroutine that takes the whole batch and   *)
(* sends it (notifybatch/batcher.go) through the do-not-disturb notifier:  *)
(* inside the window the message is appended to a pending file, outside it *)
(* goes to Discord (dnd/notifier.go).  The Flusher empties the file at the *)
(* window's end, and at start when the window is not active: two           *)
(* goroutines, each with its own look at the clock (dnd/flusher.go).  One  *)
(* package-level mutex guards the file and the decision to use it.         *)
(*                                                                         *)
(* A batch is a set of items, the file the set of items whose text is in   *)
(* it.  Durations are not modelled: a timer that runs may fire.            *)
(***************************************************************************)
EXTENDS Integers

CONSTANTS
  Items,      \* important items, each added once
  Batchers,   \* bound: goroutines in Batcher.Flush at one time
  Free,
  MaxCrashes, \* bound: crashes of action-svc
  MaxFaults   \* bound: failed sends and file operations

Flushers == {"catchup", "loop"}
Threads  == Batchers \cup Flushers

ASSUME ThreadsAssumption ==
  Batchers \cap Flushers = {} /\ Free \notin Threads

ASSUME BoundsAssumption ==
  MaxCrashes \in Nat /\ MaxFaults \in Nat

VARIABLES
  added,      \* history: items handed to Batcher.Add
  items,      \* Batcher.items
  grace, max, \* its timers: "nil", "armed", or "fired" (and still referenced)
  pc,         \* pc[t]: where the goroutine t is
  hand,       \* hand[t]: the items it has taken and is to send
  fileMu,     \* pendingFileMu: its holder, or Free
  pending,    \* items in logs/dnd-pending.txt
  active,     \* the window is active
  due,        \* the Flusher's loop has a window end to serve
  missed,     \* history: the last window's end was served by neither goroutine
  up,         \* action-svc is running
  delivered,  \* history: delivered[i] messages with i reached Discord
  lost,       \* history: items that a failed send or a crash dropped
  crashes, faults  \* what the bounds count

batcher == <<added, items, grace, max>>
threads == <<pc, hand>>
dnd     == <<fileMu, pending>>
clock   == <<active, due, missed>>
outcome == <<delivered, lost>>
mishaps == <<crashes, faults>>
vars == <<batcher, threads, dnd, clock, up, outcome, mishaps>>

Init ==
  /\ added = {} /\ items = {} /\ grace = "nil" /\ max = "nil"
  /\ pc = [t \in Threads |-> "idle"] /\ hand = [t \in Threads |-> {}]
  /\ fileMu = Free /\ pending = {}
  /\ active \in BOOLEAN /\ due = FALSE /\ missed = FALSE /\ up = FALSE
  /\ delivered = [i \in Items |-> 0] /\ lost = {}
  /\ crashes = 0 /\ faults = 0

-----------------------------------------------------------------------------
(* Building blocks *)

Fault   == faults < MaxFaults /\ faults' = faults + 1
NoFault == UNCHANGED faults

Goto(t, l) == pc' = [pc EXCEPT ![t] = l]

\* The Flusher's loop goes round; every other goroutine ends.
Rest(t) == IF t = "loop" THEN "next" ELSE "idle"

\* t is done with what it had in hand.
Finish(t) == Goto(t, Rest(t)) /\ hand' = [hand EXCEPT ![t] = {}]

Deliver(batch, n) ==
  delivered' = [i \in Items |-> delivered[i] + IF i \in batch THEN n ELSE 0]

-----------------------------------------------------------------------------
(* Batcher *)

\* Add: the first item of a batch starts both timers, a later one restarts
\* the grace timer.  A timer that has fired already cannot be stopped.
Add(i) ==
  /\ up
  /\ i \notin added
  /\ added' = added \cup {i}
  /\ items' = items \cup {i}
  /\ grace' = "armed"
  /\ max' = IF grace = "nil" THEN "armed" ELSE max
  /\ UNCHANGED <<threads, dnd, clock, up, outcome, mishaps>>

\* A timer fires: a goroutine of its own calls Flush.
GraceFires(t) ==
  /\ grace = "armed"
  /\ grace' = "fired"
  /\ pc[t] = "idle" /\ Goto(t, "flush")
  /\ UNCHANGED <<added, items, max, hand, dnd, clock, up, outcome, mishaps>>

MaxFires(t) ==
  /\ max = "armed"
  /\ max' = "fired"
  /\ pc[t] = "idle" /\ Goto(t, "flush")
  /\ UNCHANGED <<added, items, grace, hand, dnd, clock, up, outcome, mishaps>>

\* A mutant: the batch is not cleared.
FlushKeepsItems(t) ==
  /\ pc[t] = "flush"
  /\ grace' = "nil" /\ max' = "nil"
  /\ hand' = [hand EXCEPT ![t] = items]
  /\ Goto(t, IF items = {} THEN "idle" ELSE "send")
  /\ UNCHANGED <<added, items, dnd, clock, up, outcome, mishaps>>

\* Flush takes the batch and stops both timers, in one critical section.
Flush(t) ==
  /\ pc[t] = "flush"
  /\ items' = {}
  /\ grace' = "nil" /\ max' = "nil"
  /\ hand' = [hand EXCEPT ![t] = items]
  /\ Goto(t, IF items = {} THEN "idle" ELSE "send")
  /\ UNCHANGED <<added, dnd, clock, up, outcome, mishaps>>

-----------------------------------------------------------------------------
(* dndNotifier.Send, called by Flush *)

\* A mutant: the window is checked before the lock is taken.
DecideBeforeLock(t) ==
  /\ pc[t] = "send"
  /\ Goto(t, IF active THEN "append" ELSE "real")
  /\ UNCHANGED <<batcher, hand, dnd, clock, up, outcome, mishaps>>

\* Under the lock: inside the window go on to the file and keep the lock,
\* outside release it and send.
Decide(t) ==
  /\ pc[t] = "send"
  /\ fileMu = Free
  /\ IF active
       THEN Goto(t, "append") /\ fileMu' = t
       ELSE Goto(t, "real") /\ UNCHANGED fileMu
  /\ UNCHANGED <<batcher, hand, pending, clock, up, outcome, mishaps>>

\* A failed append leaves nothing or a part of the text, and the message is
\* sent instead.
AppendLocked(t) ==
  /\ pc[t] = "append"
  /\ fileMu \in {t, Free}
  /\ fileMu' = Free
  /\ \/ pending' = pending \cup hand[t] /\ Finish(t) /\ NoFault
     \/ /\ \E part \in SUBSET hand[t] : pending' = pending \cup part
        /\ Goto(t, "real") /\ UNCHANGED hand /\ Fault
  /\ UNCHANGED <<batcher, clock, up, outcome, crashes>>

\* Discord takes the message, or the batch is lost: Flush does not retry.  A
\* send that reports an error may have delivered some of it.
SendBatch(t) ==
  /\ pc[t] = "real"
  /\ \/ Deliver(hand[t], 1) /\ UNCHANGED lost /\ NoFault
     \/ /\ \E part \in SUBSET hand[t] :
             Deliver(part, 1) /\ lost' = lost \cup (hand[t] \ part)
        /\ Fault
  /\ Finish(t)
  /\ UNCHANGED <<batcher, dnd, clock, up, crashes>>

-----------------------------------------------------------------------------
(* Flusher.FlushIfPending *)

\* The loop asks nextWindowEnd, by its own clock, and waits for that.
NextWindowEnd ==
  /\ pc["loop"] = "next"
  /\ Goto("loop", "idle")
  /\ UNCHANGED <<batcher, hand, dnd, clock, up, outcome, mishaps>>

\* The loop's timer: the window has ended.
WakeFlusher ==
  /\ up /\ due
  /\ pc["loop"] = "idle"
  /\ due' = FALSE /\ missed' = FALSE
  /\ Goto("loop", "read")
  /\ UNCHANGED <<batcher, hand, dnd, active, up, outcome, mishaps>>

\* flushIfOutsideWindow.
CatchUp ==
  /\ pc["catchup"] = "check"
  /\ Goto("catchup", IF active THEN "idle" ELSE "read")
  /\ UNCHANGED <<batcher, hand, dnd, clock, up, outcome, mishaps>>

\* A mutant: the file is read without the lock.
ReadUnlocked(t) ==
  /\ pc[t] = "read"
  /\ IF pending = {} THEN Goto(t, Rest(t)) /\ UNCHANGED hand
     ELSE Goto(t, "clear") /\ hand' = [hand EXCEPT ![t] = pending]
  /\ UNCHANGED <<batcher, dnd, clock, up, outcome, mishaps>>

\* readAndClearPending: read under the lock; nothing to do, or a failed
\* read, ends the flush; else keep the lock for the clearing.
Read(t) ==
  /\ pc[t] = "read"
  /\ fileMu = Free
  /\ \/ /\ pending = {} /\ NoFault
        /\ Goto(t, Rest(t)) /\ UNCHANGED <<hand, fileMu>>
     \/ /\ pending # {} /\ NoFault
        /\ Goto(t, "clear") /\ hand' = [hand EXCEPT ![t] = pending]
        /\ fileMu' = t
     \/ Goto(t, Rest(t)) /\ UNCHANGED <<hand, fileMu>> /\ Fault
  /\ UNCHANGED <<batcher, pending, clock, up, outcome, crashes>>

\* The clearing may fail: that is logged, and the content sent all the same.
Clear(t) ==
  /\ pc[t] = "clear"
  /\ fileMu \in {t, Free}
  /\ fileMu' = Free
  /\ \/ pending' = {} /\ NoFault
     \/ UNCHANGED pending /\ Fault
  /\ Goto(t, "deliver")
  /\ UNCHANGED <<batcher, hand, clock, up, outcome, crashes>>

\* sendWithRetry: an attempt that fails after delivering is repeated; after
\* three the content is given up.
SendPending(t) ==
  /\ pc[t] = "deliver"
  /\ \/ Deliver(hand[t], 1) /\ UNCHANGED lost /\ NoFault
     \/ Deliver(hand[t], 2) /\ UNCHANGED lost /\ Fault
     \/ /\ \E part \in SUBSET hand[t] :
             Deliver(part, 1) /\ lost' = lost \cup (hand[t] \ part)
        /\ Fault
  /\ Finish(t)
  /\ UNCHANGED <<batcher, dnd, clock, up, crashes>>

-----------------------------------------------------------------------------
(* The window and the process *)

\* A day is longer than a flush, or than the loop's look at the clock.
WindowStarts ==
  /\ ~active
  /\ up => ~due /\ pc["loop"] = "idle"
  /\ active' = TRUE
  /\ UNCHANGED <<batcher, threads, dnd, due, missed, up, outcome, mishaps>>

\* A loop that has yet to ask for the next end gets tomorrow's.
WindowEnds ==
  /\ active
  /\ active' = FALSE
  /\ due' = (up /\ pc["loop"] # "next")
  /\ missed' = (up /\ pc["loop"] = "next" /\ pc["catchup"] # "check")
  /\ UNCHANGED <<batcher, threads, dnd, up, outcome, mishaps>>

\* A mutant: no catch-up at start.
StartWithoutCatchUp ==
  /\ ~up
  /\ up' = TRUE
  /\ Goto("loop", "next")
  /\ UNCHANGED <<batcher, hand, dnd, clock, outcome, mishaps>>

\* Two goroutines, each of which looks at the clock when it gets to it.
Start ==
  /\ ~up
  /\ up' = TRUE
  /\ pc' = [pc EXCEPT !["catchup"] = "check", !["loop"] = "next"]
  /\ UNCHANGED <<batcher, hand, dnd, clock, outcome, mishaps>>

\* Everything in memory goes; the file stays.
Crash ==
  /\ up
  /\ crashes < MaxCrashes
  /\ crashes' = crashes + 1
  /\ up' = FALSE /\ due' = FALSE /\ missed' = FALSE
  /\ items' = {} /\ grace' = "nil" /\ max' = "nil"
  /\ pc' = [t \in Threads |-> "idle"] /\ hand' = [t \in Threads |-> {}]
  /\ fileMu' = Free
  /\ lost' = lost \cup items \cup UNION {hand[t] : t \in Threads}
  /\ UNCHANGED <<added, pending, active, delivered, faults>>

-----------------------------------------------------------------------------
Batching(t) ==
  GraceFires(t) \/ MaxFires(t) \/ Flush(t) \/ Decide(t) \/ AppendLocked(t) \/ SendBatch(t)

Flushing(t) == Read(t) \/ Clear(t) \/ SendPending(t)

Next ==
  \/ \E i \in Items : Add(i)
  \/ \E t \in Batchers : Batching(t)
  \/ WakeFlusher \/ NextWindowEnd \/ CatchUp
  \/ \E t \in Flushers : Flushing(t)
  \/ WindowStarts \/ WindowEnds
  \/ Start \/ Crash

Spec == Init /\ [][Next]_vars

\* Timers fire, goroutines run, a mutex starves nobody, a window ends, the
\* service is restarted.  No other window is owed.
Fairness ==
  /\ WF_vars(\E t \in Batchers : GraceFires(t))
  /\ \A t \in Batchers :
       WF_vars(Flush(t) \/ AppendLocked(t) \/ SendBatch(t)) /\ SF_vars(Decide(t))
  /\ WF_vars(WakeFlusher) /\ WF_vars(NextWindowEnd) /\ WF_vars(CatchUp)
  /\ \A t \in Flushers : SF_vars(Read(t)) /\ WF_vars(Clear(t) \/ SendPending(t))
  /\ WF_vars(WindowEnds)
  /\ WF_vars(Start)

FairSpec == Spec /\ Fairness

-----------------------------------------------------------------------------
(* Properties *)

TypeOK ==
  /\ added \subseteq Items /\ items \subseteq Items
  /\ grace \in {"nil", "armed", "fired"} /\ max \in {"nil", "armed", "fired"}
  /\ pc \in [Threads -> {"idle", "flush", "send", "append", "real", "check",
                         "next", "read", "clear", "deliver"}]
  /\ hand \in [Threads -> SUBSET Items]
  /\ fileMu \in Threads \cup {Free} /\ pending \subseteq Items
  /\ active \in BOOLEAN /\ due \in BOOLEAN /\ missed \in BOOLEAN /\ up \in BOOLEAN
  /\ delivered \in [Items -> Nat] /\ lost \subseteq Items
  /\ crashes \in 0..MaxCrashes /\ faults \in 0..MaxFaults

InHand == UNION {hand[t] : t \in Threads}

\* No item disappears between the goroutines: it is queued, in somebody's
\* hand, in the file or delivered, unless a crash took it from memory or a
\* send failed for good (batcher.go:84-110, notifier.go:22-44: "clearing the
\* file out from under a message appended between the flush's read and its
\* clear step, silently losing it").
ItemsAccountedFor ==
  \A i \in added :
    i \in items \cup InHand \cup pending \cup lost \/ delivered[i] > 0

\* An item is in a message once, and again only for a failed send, append or
\* clearing (batcher.go:84-98, flusher.go:101-109).
DeliveredOnce == \A i \in Items : delivered[i] <= 1 + faults

\* Outside the window, when no flush is due or under way, nothing is left in
\* the file until the next window's end (notifier.go:32-44: "stranding the
\* message until tomorrow's flush").  One thing strands it without a fault: a
\* start at the window's end, with the catch-up looking at the clock before it
\* and the loop after it (flusher.go:55-58, 71-88).
NotStranded ==
  (up /\ ~active /\ ~due /\ faults = 0 /\ \A t \in Flushers : pc[t] \in {"idle", "next"})
    => pending = {} \/ missed

\* Every item gets out or is lost, also across a restart inside or outside
\* the window, and without another window to wait for, unless it is in the
\* file when an end is missed (flusher.go:55-88).
EventuallyOut ==
  [](faults = 0) =>
    \A i \in Items :
      i \in added ~> (delivered[i] > 0 \/ i \in lost \/ (missed /\ i \in pending))
=============================================================================
