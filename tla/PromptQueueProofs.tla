------------------------- MODULE PromptQueueProofs -------------------------
(***************************************************************************)
(* For any set of prompts, any number of dispatching goroutines and any    *)
(* bounds: the dispatcher of projects-svc lets one prompt at a time into    *)
(* CREATING_SPEC, whatever the user edits.                                 *)
(***************************************************************************)
EXTENDS PromptQueue, TLAPS

\* Only the mutex holder is inside TryDispatchNext.
MutexHeld == \A c \in Callers : pc[c] \in Locked => mu = c

\* Between the check and the update nobody is let into the slot: this is what
\* the mutex buys, and why the check may be trusted when the update runs.
SlotStaysEmpty ==
  \A c \in Callers :
    pc[c] \in {"oldest", "project", "launch", "error", "mark"} =>
      Dispatched = {}

\* A goroutine past the query works on a prompt.
HasPicked ==
  \A c \in Callers :
    pc[c] \in {"project", "launch", "error", "mark"} => picked[c] \in Prompts

\* Only an edit forces a prompt into the state.
ForcedByEdit == edits = 0 => forced = {}

IInv ==
  /\ TypeOK
  /\ MutexHeld
  /\ SlotStaysEmpty
  /\ HasPicked
  /\ AtMostOneCreatingSpec
  /\ SlotHasNoError
  /\ ForcedByEdit

-----------------------------------------------------------------------------

\* The bounds, one by one.
LEMMA Bounds == MaxEdits \in Nat /\ MaxCrashes \in Nat /\ MaxFaults \in Nat
  BY BoundsAssumption

\* Counting the sessions of one prompt up or down keeps a table of counts.
LEMMA CountUp ==
  ASSUME NEW S, NEW f \in [S -> Nat], NEW x \in S
  PROVE  [f EXCEPT ![x] = @ + 1] \in [S -> Nat]
<1>1. f[x] + 1 \in Nat
  OBVIOUS
<1>2. QED
  BY <1>1

\* The same for counting down what is not zero.
LEMMA CountDown ==
  ASSUME NEW S, NEW f \in [S -> Nat], NEW x \in S, f[x] > 0
  PROVE  [f EXCEPT ![x] = @ - 1] \in [S -> Nat]
<1>1. f[x] - 1 \in Nat
  OBVIOUS
<1>2. QED
  BY <1>1

\* The service starts with every goroutine idle and every row absent.
LEMMA InitIInv == Init => IInv
<1> SUFFICES ASSUME Init PROVE IInv
  OBVIOUS
<1>1. TypeOK
  <2>1. launchError \in [Prompts -> BOOLEAN]
    BY Zenon DEF Init
  <2>2. /\ edits \in 0..MaxEdits /\ crashes \in 0..MaxCrashes
        /\ faults \in 0..MaxFaults
    BY Bounds DEF Init
  <2>3. /\ state \in [Prompts -> States \cup {"absent"}]
        /\ pc \in [Callers -> {"idle", "lock"} \cup Locked]
        /\ picked \in [Callers -> Prompts \cup {NoPrompt}]
    BY DEF Init
  <2>4. /\ specs \in [Prompts -> Nat] /\ impls \in [Prompts -> Nat]
        /\ launches \in [Prompts -> Nat]
    BY DEF Init
  <2>5. QED
    BY <2>1, <2>2, <2>3, <2>4 DEF Init, TypeOK
<1>2. Dispatched = {} /\ forced = {}
  BY DEF Init, InState, Dispatched
<1>3. \A c \in Callers : pc[c] = "idle"
  BY DEF Init
<1>4. QED
  BY <1>1, <1>2, <1>3
  DEF IInv, MutexHeld, SlotStaysEmpty, HasPicked, Locked,
      AtMostOneCreatingSpec, SlotHasNoError, ForcedByEdit

\* Every step of every actor keeps the types of the variables.
LEMMA NextTypeOK == TypeOK /\ HasPicked /\ [Next]_vars => TypeOK'
<1> SUFFICES ASSUME TypeOK, HasPicked, [Next]_vars PROVE TypeOK'
  OBVIOUS
<1> USE Bounds, BoundsAssumption, PromptsAssumption, CallersAssumption
    DEF TypeOK, HasPicked, Locked, States, InState
<1>1. ASSUME NEW c \in Callers, TryDispatchNext(c) PROVE TypeOK'
  <2>1. CASE Lock(c)
    BY <2>1 DEF Lock, Goto, rows, sessions, history, budgets
  <2>2. CASE HasCreatingSpec(c)
    BY <2>2 DEF HasCreatingSpec, Return, StoreError, Fault, NoFault, Goto,
                rows, sessions, history
  <2>3. CASE OldestNotStarted(c)
    BY <2>3 DEF OldestNotStarted, Return, StoreError, Fault, NoFault, Goto,
                rows, sessions, history
  <2>4. CASE GetProject(c)
    BY <2>4 DEF GetProject, Return, StoreError, Fault, NoFault, Goto, rows,
                sessions, history
  <2>5. CASE Launch(c)
    <3>1. picked[c] \in Prompts
      BY <2>5 DEF Launch
    <3>2. specs' \in [Prompts -> Nat] /\ launches' \in [Prompts -> Nat]
      BY <2>5, <3>1, CountUp DEF Launch
    <3>3. QED
      BY <2>5, <3>2 DEF Launch, Goto, rows, budgets, dispatch
  <2>6. CASE LaunchFails(c)
    BY <2>6 DEF LaunchFails, Fault, NoFault, Goto, rows, sessions, history
  <2>7. CASE SetLaunchError(c)
    <3>1. launchError' \in [Prompts -> BOOLEAN]
      BY <2>7, Zenon DEF SetLaunchError, rows
    <3>2. QED
      BY <2>7, <3>1 DEF SetLaunchError, Return, Fault, NoFault, Goto, rows,
                        sessions, history
  <2>8. CASE MarkCreatingSpec(c)
    <3>1. launchError' \in [Prompts -> BOOLEAN]
      BY <2>8, Zenon DEF MarkCreatingSpec, rows
    <3>2. forced' \subseteq Prompts
      BY <2>8 DEF MarkCreatingSpec
    <3>3. state' \in {state, [state EXCEPT ![picked[c]] = "CREATING_SPEC"]}
      BY <2>8 DEF MarkCreatingSpec, rows
    <3>4. state' \in [Prompts -> States \cup {"absent"}]
      BY <3>3
    <3>5. faults' \in 0..MaxFaults
      BY <2>8 DEF MarkCreatingSpec, Fault, NoFault
    <3>6. QED
      BY <2>8, <3>1, <3>2, <3>4, <3>5 DEF MarkCreatingSpec, Return, Goto, sessions
  <2>9. QED
    BY <1>1, <2>1, <2>2, <2>3, <2>4, <2>5, <2>6, <2>7, <2>8 DEF TryDispatchNext
<1>2. ASSUME NEW p \in Prompts, CreatePrompt(p) PROVE TypeOK'
  BY <1>2 DEF CreatePrompt, Spawn, Goto, sessions, history, budgets
<1>3. ASSUME NEW p \in Prompts, NEW s \in EditStates, UpdatePromptState(p, s)
      PROVE  TypeOK'
  BY <1>3 DEF UpdatePromptState, ForcedBy, Spawn, Goto, sessions
<1>4. ASSUME NEW p \in Prompts, NotifyImplementing(p) PROVE TypeOK'
  BY <1>4 DEF NotifyImplementing, Spawn, Goto, budgets
<1>5. ASSUME NEW p \in Prompts, NotifyDone(p) PROVE TypeOK'
  BY <1>5 DEF NotifyDone, dispatch, history, budgets
<1>6. ASSUME NEW p \in Prompts, ReportLost(p) \/ SessionDies(p) PROVE TypeOK'
  <2>1. specs' \in [Prompts -> Nat] /\ impls' \in [Prompts -> Nat]
    BY <1>6, CountUp, CountDown DEF ReportLost, SessionDies
  <2>2. faults' \in 0..MaxFaults
    BY <1>6 DEF ReportLost, SessionDies, Fault
  <2>3. UNCHANGED <<rows, dispatch, up, history, edits, crashes>>
    BY <1>6 DEF ReportLost, SessionDies
  <2>4. QED
    BY <2>1, <2>2, <2>3 DEF rows, dispatch, history
<1>7. CASE Start
  BY <1>7 DEF Start, Spawn, Goto, rows, sessions, history, budgets
<1>8. CASE Crash
  <2>1. /\ pc' \in [Callers -> {"idle", "lock"} \cup Locked]
        /\ picked' \in [Callers -> Prompts \cup {NoPrompt}]
    BY <1>8 DEF Crash
  <2>2. crashes' \in 0..MaxCrashes
    BY <1>8 DEF Crash
  <2>3. mu' \in Callers \cup {Free} /\ up' \in BOOLEAN
    BY <1>8 DEF Crash
  <2>4. QED
    BY <1>8, <2>1, <2>2, <2>3 DEF Crash, rows, sessions, history
<1>9. CASE UNCHANGED vars
  BY <1>9 DEF vars, rows, dispatch, sessions, history, budgets
<1>10. QED
  BY <1>1, <1>2, <1>3, <1>4, <1>5, <1>6, <1>7, <1>8, <1>9 DEF Next

-----------------------------------------------------------------------------

\* A goroutine that enters TryDispatchNext holds the mutex until it returns,
\* and carries the prompt it has picked.
LEMMA NextMutex ==
  TypeOK /\ MutexHeld /\ HasPicked /\ [Next]_vars => MutexHeld' /\ HasPicked'
<1> SUFFICES ASSUME TypeOK, MutexHeld, HasPicked, [Next]_vars
             PROVE  MutexHeld' /\ HasPicked'
  OBVIOUS
<1> USE PromptsAssumption, CallersAssumption
    DEF TypeOK, MutexHeld, HasPicked, Locked, InState
<1>1. ASSUME NEW c \in Callers, TryDispatchNext(c)
      PROVE  MutexHeld' /\ HasPicked'
  <2>1. CASE Lock(c)
    BY <2>1 DEF Lock, Goto
  <2>2. CASE HasCreatingSpec(c)
    BY <2>2 DEF HasCreatingSpec, Return, StoreError, Goto
  <2>3. CASE OldestNotStarted(c)
    BY <2>3 DEF OldestNotStarted, Return, StoreError, Goto
  <2>4. CASE GetProject(c)
    BY <2>4 DEF GetProject, Return, StoreError, Goto
  <2>5. CASE Launch(c) \/ LaunchFails(c)
    BY <2>5 DEF Launch, LaunchFails, Goto
  <2>6. CASE SetLaunchError(c) \/ MarkCreatingSpec(c)
    BY <2>6 DEF SetLaunchError, MarkCreatingSpec, Return, Goto
  <2>7. QED
    BY <1>1, <2>1, <2>2, <2>3, <2>4, <2>5, <2>6 DEF TryDispatchNext
<1>2. ASSUME Spawn, UNCHANGED <<mu, picked>>
      PROVE  MutexHeld' /\ HasPicked'
  BY <1>2 DEF Spawn, Goto
<1>3. ASSUME NEW p \in Prompts, CreatePrompt(p) \/ NotifyImplementing(p)
      PROVE  MutexHeld' /\ HasPicked'
  BY <1>2, <1>3 DEF CreatePrompt, NotifyImplementing
<1>4. ASSUME NEW p \in Prompts, NEW s \in EditStates, UpdatePromptState(p, s)
      PROVE  MutexHeld' /\ HasPicked'
  BY <1>2, <1>4 DEF UpdatePromptState
<1>5. ASSUME UNCHANGED dispatch PROVE MutexHeld' /\ HasPicked'
  BY <1>5 DEF dispatch
<1>6. ASSUME NEW p \in Prompts, NotifyDone(p) \/ ReportLost(p) \/ SessionDies(p)
      PROVE  MutexHeld' /\ HasPicked'
  BY <1>5, <1>6 DEF NotifyDone, ReportLost, SessionDies
<1>7. CASE Start
  BY <1>2, <1>7 DEF Start
<1>8. CASE Crash
  BY <1>8 DEF Crash
<1>9. CASE UNCHANGED vars
  BY <1>5, <1>9 DEF vars
<1>10. QED
  BY <1>1, <1>3, <1>4, <1>6, <1>7, <1>8, <1>9 DEF Next

-----------------------------------------------------------------------------

SlotInv == SlotStaysEmpty /\ AtMostOneCreatingSpec /\ SlotHasNoError /\ ForcedByEdit

\* A step that lets nobody into the slot.
Keeps == Dispatched' \subseteq Dispatched

\* A step of MarkCreatingSpec that does: one prompt, while the slot is empty.
Fills(c) ==
  /\ pc[c] = "mark" /\ picked[c] \in Prompts
  /\ Dispatched = {} /\ Dispatched' = {picked[c]}
  /\ launchError' = [launchError EXCEPT ![picked[c]] = FALSE]

\* Only MarkCreatingSpec lets a prompt into the slot, and no edit does.
LEMMA NextSlotStep ==
  ASSUME IInv, [Next]_vars
  PROVE  Keeps \/ \E c \in Callers : MarkCreatingSpec(c) /\ Fills(c)
<1> USE PromptsAssumption DEF IInv, TypeOK, Dispatched, InState
<1>1. ASSUME UNCHANGED <<state, forced>> PROVE Keeps
  BY <1>1 DEF Keeps
<1>2. ASSUME NEW p \in Prompts, forced' = forced \ {p}, NEW s,
             state' = [state EXCEPT ![p] = s], s # "CREATING_SPEC"
      PROVE  Keeps
  BY <1>2 DEF Keeps
<1>3. ASSUME NEW c \in Callers, MarkCreatingSpec(c) PROVE Keeps \/ Fills(c)
  <2>1. picked[c] \in Prompts /\ Dispatched = {} /\ pc[c] = "mark"
    BY <1>3 DEF MarkCreatingSpec, HasPicked, SlotStaysEmpty
  <2>2. CASE UNCHANGED <<rows, forced>>
    BY <1>1, <2>2 DEF rows
  <2>3. CASE /\ state' = [state EXCEPT ![picked[c]] = "CREATING_SPEC"]
             /\ launchError' = [launchError EXCEPT ![picked[c]] = FALSE]
             /\ forced' = forced \ {picked[c]}
    BY <2>1, <2>3 DEF Fills
  <2>4. QED
    BY <1>3, <2>2, <2>3 DEF MarkCreatingSpec
<1>4. ASSUME NEW c \in Callers, TryDispatchNext(c), ~MarkCreatingSpec(c) PROVE Keeps
  <2>1. CASE Lock(c) \/ LaunchFails(c) \/ Launch(c)
    BY <1>1, <2>1 DEF Lock, LaunchFails, Launch, rows, history
  <2>2. CASE HasCreatingSpec(c) \/ OldestNotStarted(c) \/ GetProject(c)
    BY <1>1, <2>2 DEF HasCreatingSpec, OldestNotStarted, GetProject, rows, history
  <2>3. CASE SetLaunchError(c)
    BY <1>1, <2>3 DEF SetLaunchError, rows, history
  <2>4. QED
    BY <1>4, <2>1, <2>2, <2>3 DEF TryDispatchNext
<1>5. ASSUME NEW p \in Prompts, CreatePrompt(p) PROVE Keeps
  BY <1>5 DEF CreatePrompt, history, Keeps
<1>6. ASSUME NEW p \in Prompts, NotifyImplementing(p) \/ NotifyDone(p) PROVE Keeps
  BY <1>2, <1>6 DEF NotifyImplementing, NotifyDone
<1>7. ASSUME NEW p \in Prompts, NEW s \in EditStates, UpdatePromptState(p, s)
      PROVE  Keeps
  <2>1. state' = [state EXCEPT ![p] = s] /\ forced' = ForcedBy(p, s)
    BY <1>7 DEF UpdatePromptState
  <2>2. CASE s # "CREATING_SPEC"
    BY <1>2, <2>1, <2>2 DEF ForcedBy
  <2>3. CASE s = "CREATING_SPEC"
    BY <2>1, <2>3 DEF ForcedBy, Keeps
  <2>4. QED
    BY <2>2, <2>3
<1>8. ASSUME NEW p \in Prompts, ReportLost(p) \/ SessionDies(p) PROVE Keeps
  BY <1>1, <1>8 DEF ReportLost, SessionDies, rows, history
<1>9. CASE Start \/ Crash \/ UNCHANGED vars
  BY <1>1, <1>9 DEF Start, Crash, vars, rows, history
<1>10. QED
  BY <1>3, <1>4, <1>5, <1>6, <1>7, <1>8, <1>9 DEF Next, TryDispatchNext

\* The slot is filled by MarkCreatingSpec only, under the mutex, while it is
\* empty; every other step can only empty it.
LEMMA NextSlot == ASSUME IInv, [Next]_vars PROVE SlotInv'
<1> USE PromptsAssumption
    DEF IInv, TypeOK, MutexHeld, SlotStaysEmpty, HasPicked, Locked, SlotInv,
        AtMostOneCreatingSpec, SlotHasNoError
<1>a. Dispatched \subseteq Prompts /\ Dispatched' \subseteq Prompts
  BY DEF Dispatched, InState
\* Only an edit forces.
<1>b. ForcedByEdit'
  <2>1. ASSUME forced' \subseteq forced, edits' = edits PROVE ForcedByEdit'
    BY <2>1 DEF ForcedByEdit
  <2>2. ASSUME NEW c \in Callers, TryDispatchNext(c)
        PROVE  forced' \subseteq forced /\ edits' = edits
    BY <2>2 DEF TryDispatchNext, Lock, HasCreatingSpec, OldestNotStarted, GetProject,
                Launch, LaunchFails, SetLaunchError, MarkCreatingSpec, history, budgets
  <2>3. ASSUME NEW p \in Prompts, NEW s \in EditStates, UpdatePromptState(p, s)
        PROVE  edits' # 0
    BY <2>3, Bounds DEF UpdatePromptState
  <2>4. ASSUME NEW p \in Prompts,
               \/ CreatePrompt(p) \/ NotifyImplementing(p) \/ NotifyDone(p)
               \/ ReportLost(p) \/ SessionDies(p)
        PROVE  forced' \subseteq forced /\ edits' = edits
    BY <2>4 DEF CreatePrompt, NotifyImplementing, NotifyDone, ReportLost, SessionDies,
                history, budgets
  <2>5. CASE Start \/ Crash \/ UNCHANGED vars
    BY <2>1, <2>5 DEF Start, Crash, vars, history, budgets
  <2>6. QED
    BY <2>1, <2>2, <2>3, <2>4, <2>5 DEF Next, ForcedByEdit
\* A step that adds no holder of the slot, sets no error and takes nobody
\* past the check.
<1>1. ASSUME Keeps, UNCHANGED launchError,
             \A c \in Callers :
               pc'[c] \in {"oldest", "project", "launch", "error", "mark"} =>
                 pc[c] \in {"oldest", "project", "launch", "error", "mark"}
      PROVE  SlotInv'
  BY <1>1, <1>a, <1>b DEF Keeps
<1>2. ASSUME Keeps, Spawn, UNCHANGED launchError PROVE SlotInv'
  <2>1. \A c \in Callers :
          pc'[c] \in {"oldest", "project", "launch", "error", "mark"} =>
            pc[c] \in {"oldest", "project", "launch", "error", "mark"}
    BY <1>2 DEF Spawn, Goto
  <2>2. QED
    BY <1>1, <1>2, <2>1
<1>3. ASSUME NEW c \in Callers, MarkCreatingSpec(c), Fills(c) PROVE SlotInv'
  <2>1. \A d \in Callers :
          pc'[d] \notin {"oldest", "project", "launch", "error", "mark"}
    BY <1>3 DEF MarkCreatingSpec, Return, Goto
  <2>2. Dispatched' = {picked[c]} /\ ~launchError'[picked[c]]
    BY <1>3 DEF Fills
  <2>3. QED
    BY <1>b, <2>1, <2>2
<1>4. ASSUME NEW c \in Callers, TryDispatchNext(c), Keeps PROVE SlotInv'
  <2>1. CASE Lock(c)
    BY <1>1, <1>4, <2>1 DEF Lock, Goto, rows
  <2>2. CASE HasCreatingSpec(c)
    <3>1. CASE InState("CREATING_SPEC") = {}
      <4>1. Dispatched' = {} /\ UNCHANGED launchError
        BY <1>4, <2>2, <3>1 DEF Dispatched, Keeps, HasCreatingSpec, StoreError, rows
      <4>2. QED
        BY <1>b, <4>1
    <3>2. CASE Return(c) /\ UNCHANGED rows
      BY <1>1, <1>4, <3>2 DEF Return, Goto, rows
    <3>3. QED
      BY <2>2, <3>1, <3>2 DEF HasCreatingSpec, StoreError
  <2>3. CASE OldestNotStarted(c)
    BY <1>1, <1>4, <2>3 DEF OldestNotStarted, Return, StoreError, Goto, rows
  <2>4. CASE GetProject(c)
    BY <1>1, <1>4, <2>4 DEF GetProject, Return, StoreError, Goto, rows
  <2>5. CASE Launch(c) \/ LaunchFails(c)
    BY <1>1, <1>4, <2>5 DEF Launch, LaunchFails, Goto, rows
  <2>6. CASE SetLaunchError(c) \/ MarkCreatingSpec(c)
    <3>1. Dispatched' = {}
      BY <1>4, <2>6 DEF SetLaunchError, MarkCreatingSpec, Keeps
    <3>2. QED
      BY <1>b, <3>1
  <2>7. QED
    BY <1>4, <2>1, <2>2, <2>3, <2>4, <2>5, <2>6 DEF TryDispatchNext
<1>5. ASSUME NEW p \in Prompts, CreatePrompt(p) \/ NotifyImplementing(p), Keeps
      PROVE  SlotInv'
  BY <1>2, <1>5 DEF CreatePrompt, NotifyImplementing
<1>6. ASSUME NEW p \in Prompts, NEW s \in EditStates, UpdatePromptState(p, s), Keeps
      PROVE  SlotInv'
  BY <1>2, <1>6 DEF UpdatePromptState
<1>7. ASSUME NEW p \in Prompts, NotifyDone(p) \/ ReportLost(p) \/ SessionDies(p), Keeps
      PROVE  SlotInv'
  BY <1>1, <1>7 DEF NotifyDone, ReportLost, SessionDies, rows, dispatch
<1>8. CASE Start /\ Keeps
  BY <1>2, <1>8 DEF Start, rows
<1>9. CASE Crash /\ Keeps
  BY <1>1, <1>9 DEF Crash, rows
<1>10. CASE UNCHANGED vars /\ Keeps
  BY <1>1, <1>10 DEF vars, rows, dispatch
<1>11. CASE Keeps
  BY <1>4, <1>5, <1>6, <1>7, <1>8, <1>9, <1>10, <1>11 DEF Next
<1>12. QED
  BY <1>3, <1>11, NextSlotStep

-----------------------------------------------------------------------------

\* The variables of the queue keep their types.
THEOREM TypeCorrect == Spec => []TypeOK
<1>1. Init => TypeOK /\ HasPicked /\ MutexHeld
  BY InitIInv DEF IInv
<1>2. TypeOK /\ HasPicked /\ MutexHeld /\ [Next]_vars
        => (TypeOK /\ HasPicked /\ MutexHeld)'
  BY NextTypeOK, NextMutex
<1>3. QED
  BY <1>1, <1>2, PTL DEF Spec

\* The conjuncts hold together.
LEMMA Invariance == Spec => []IInv
<1>1. Init => IInv
  BY InitIInv
<1>2. IInv /\ [Next]_vars => IInv'
  BY NextTypeOK, NextMutex, NextSlot DEF IInv, SlotInv
<1>3. QED
  BY <1>1, <1>2, PTL DEF Spec

\* The dispatcher lets at most one prompt at a time into CREATING_SPEC
\* (dispatch.go:1-6), for any number of prompts, goroutines, manual edits to any
\* state, crashes and failed calls.
THEOREM OneSlot == Spec => []AtMostOneCreatingSpec
<1>1. IInv => AtMostOneCreatingSpec
  BY DEF IInv
<1>2. QED
  BY <1>1, Invariance, PTL

\* The row of the prompt it has let in shows no launch error (store.go:215-223).
THEOREM SlotClean == Spec => []SlotHasNoError
<1>1. IInv => SlotHasNoError
  BY DEF IInv
<1>2. QED
  BY <1>1, Invariance, PTL
-----------------------------------------------------------------------------

\* The dispatcher implements the slot of SpecSlot: it lets a prompt in only while
\* the slot is empty, and the slot is emptied before the next one is let in.
THEOREM SlotRefinement == Spec => ImplementsSlot
<1>1. Init => Slot!Init
  BY DEF Init, Slot!Init, InState, Dispatched
<1>2. ASSUME IInv, [Next]_vars PROVE [Slot!Next]_Dispatched
  <2>1. ASSUME NEW c \in Callers, Fills(c) PROVE Slot!Next
    BY <2>1 DEF Fills, Slot!Next, Slot!Take
  <2>2. CASE Keeps
    <3>1. Dispatched' = Dispatched \/ (Dispatched # {} /\ Dispatched' = {})
      BY <1>2, <2>2 DEF IInv, AtMostOneCreatingSpec, Keeps
    <3>2. QED
      BY <3>1 DEF Slot!Next, Slot!Leave
  <2>3. QED
    BY <1>2, <2>1, <2>2, NextSlotStep
<1>3. QED
  BY <1>1, <1>2, Invariance, PTL DEF Spec, ImplementsSlot, Slot!Spec
-----------------------------------------------------------------------------

\* What the counting below rests on.
Base == TypeOK /\ HasPicked /\ MutexHeld

\* A prompt at its launch has not reported since, unless its session was
\* faster than the update of its row.
Reports ==
  ~early =>
    /\ \A p \in reported : state[p] # "CREATING_SPEC"
    /\ \A c \in Callers : pc[c] = "mark" => picked[c] \notin reported

Troubles == edits + crashes + faults

\* A prompt that waits, and is not launched at this moment, has been launched
\* once less than one that does not.
Counted ==
  /\ \A p \in Prompts :
       /\ launches[p] <= 1 + Troubles
       /\ state[p] = "NOT_STARTED" /\ ~Launching(p) => launches[p] <= Troubles
       /\ state[p] = "absent" => launches[p] = 0
  /\ \A c \in Callers :
       /\ pc[c] \in {"project", "launch"} => launches[picked[c]] <= Troubles
       /\ pc[c] \in {"project", "launch", "error", "mark"} =>
            state[picked[c]] # "absent"

\* Every session was launched; while nothing goes wrong, one that writes a
\* spec is of the prompt in the slot, or of one on its way there.
Writers ==
  /\ \A p \in Prompts : specs[p] + impls[p] <= launches[p]
  /\ Troubles = 0 =>
       \A p \in Prompts :
         specs[p] > 0 => state[p] = "CREATING_SPEC" \/ Launching(p)

\* A report is overwritten by the update after its own launch only.
LEMMA NextReports ==
  ASSUME Base, Reports, [Next]_vars
  PROVE  Reports'
<1> USE PromptsAssumption, CallersAssumption
    DEF Base, TypeOK, MutexHeld, HasPicked, Locked, Reports
<1>1. ASSUME UNCHANGED <<state, reported, early>>,
             \A c \in Callers :
               pc'[c] = "mark" => pc[c] = "mark" /\ picked'[c] = picked[c]
      PROVE  Reports'
  BY <1>1
<1>2. ASSUME NEW c \in Callers, TryDispatchNext(c) PROVE Reports'
  <2>1. CASE Lock(c) \/ LaunchFails(c)
    BY <1>1, <2>1 DEF Lock, LaunchFails, Goto, rows, history
  <2>2. CASE HasCreatingSpec(c)
    BY <1>1, <2>2 DEF HasCreatingSpec, Return, StoreError, Goto, rows, history
  <2>3. CASE OldestNotStarted(c)
    BY <1>1, <2>3 DEF OldestNotStarted, Return, StoreError, Goto, rows, history
  <2>4. CASE GetProject(c)
    BY <1>1, <2>4 DEF GetProject, Return, StoreError, Goto, rows, history
  <2>5. CASE Launch(c)
    BY <2>5 DEF Launch, Goto, rows
  <2>6. CASE SetLaunchError(c)
    BY <1>1, <2>6 DEF SetLaunchError, Return, Goto, rows, history
  <2>7. CASE MarkCreatingSpec(c)
    BY <2>7 DEF MarkCreatingSpec, Return, Goto, rows, history
  <2>8. QED
    BY <1>2, <2>1, <2>2, <2>3, <2>4, <2>5, <2>6, <2>7 DEF TryDispatchNext
<1>3. ASSUME NEW p \in Prompts, CreatePrompt(p) PROVE Reports'
  BY <1>3 DEF CreatePrompt, Spawn, Goto, history
<1>4. ASSUME NEW p \in Prompts, NEW s \in EditStates, UpdatePromptState(p, s)
      PROVE  Reports'
  BY <1>4 DEF UpdatePromptState, Spawn, Goto
<1>5. ASSUME NEW p \in Prompts, NotifyImplementing(p) PROVE Reports'
  <2>1. SUFFICES ASSUME ~early' PROVE Reports'
    OBVIOUS
  <2>2. ~early /\ ~Launching(p)
    BY <1>5, <2>1 DEF NotifyImplementing
  <2>3. \A q \in reported' : state'[q] # "CREATING_SPEC"
    BY <1>5, <2>2 DEF NotifyImplementing
  <2>4. \A c \in Callers : pc'[c] = "mark" => pc[c] = "mark" /\ picked'[c] = picked[c]
    BY <1>5 DEF NotifyImplementing, Spawn, Goto
  <2>5. \A c \in Callers : pc'[c] = "mark" => picked'[c] \notin reported'
    BY <1>5, <2>2, <2>4 DEF NotifyImplementing, Launching
  <2>6. QED
    BY <2>3, <2>5
<1>6. ASSUME NEW p \in Prompts, NotifyDone(p) PROVE Reports'
  BY <1>6 DEF NotifyDone, dispatch, history
<1>7. ASSUME NEW p \in Prompts, ReportLost(p) \/ SessionDies(p) PROVE Reports'
  BY <1>1, <1>7 DEF ReportLost, SessionDies, rows, dispatch, history
<1>8. CASE Start
  BY <1>1, <1>8 DEF Start, Spawn, Goto, rows, history
<1>9. CASE Crash
  BY <1>1, <1>9 DEF Crash, rows, history
<1>10. CASE UNCHANGED vars
  BY <1>1, <1>10 DEF vars, rows, dispatch, history
<1>11. QED
  BY <1>2, <1>3, <1>4, <1>5, <1>6, <1>7, <1>8, <1>9, <1>10 DEF Next

\* A new goroutine waits for the mutex.
LEMMA SpawnMoves ==
  ASSUME TypeOK, Spawn
  PROVE  \A c \in Callers : pc'[c] # pc[c] => pc[c] = "idle" /\ pc'[c] = "lock"
  BY DEF TypeOK, Spawn, Goto

\* A launch is paid for by the one that the prompt waits for, or by an edit, a
\* crash or a failed call.
LEMMA NextCounted ==
  ASSUME Base, Counted, [Next]_vars
  PROVE  Counted'
<1> USE PromptsAssumption, CallersAssumption, BoundsAssumption
    DEF Base, TypeOK, MutexHeld, HasPicked, Locked, Counted, Troubles, Launching
<1>0. Troubles \in Nat /\ \A p \in Prompts : launches[p] \in Nat
  BY Bounds
\* A step that adds no waiting prompt, launches nothing and moves no
\* goroutine to or from a launch.
<1>1. ASSUME UNCHANGED <<launches, edits, crashes>>,
             Fault \/ NoFault,
             \A p \in Prompts :
               /\ state'[p] = "NOT_STARTED" => state[p] = "NOT_STARTED"
               /\ state'[p] = "absent" <=> state[p] = "absent",
             \A c \in Callers :
               /\ pc'[c] \in {"project", "launch", "error", "mark"} =>
                    picked'[c] = picked[c]
               /\ pc'[c] \in {"project", "launch"} => pc[c] \in {"project", "launch"}
               /\ pc'[c] \in {"project", "launch", "error", "mark"} =>
                    pc[c] \in {"project", "launch", "error", "mark"}
               /\ pc[c] = "mark" => pc'[c] = "mark" /\ picked'[c] = picked[c]
      PROVE  Counted'
  <2>1. Troubles' >= Troubles /\ Troubles' \in Nat
    BY <1>1, Bounds DEF Fault, NoFault
  <2>2. ASSUME NEW p \in Prompts PROVE Launching(p) => Launching(p)'
    BY <1>1
  <2>3. ASSUME NEW p \in Prompts
        PROVE  /\ launches'[p] <= 1 + Troubles'
               /\ state'[p] = "NOT_STARTED" /\ ~Launching(p)' => launches'[p] <= Troubles'
               /\ state'[p] = "absent" => launches'[p] = 0
    <3> HIDE DEF Launching, Troubles
    <3>1. QED
      BY <1>0, <1>1, <2>1, <2>2
  <2>4. ASSUME NEW c \in Callers,
               pc'[c] \in {"project", "launch", "error", "mark"}
        PROVE  /\ state'[picked'[c]] # "absent"
               /\ pc'[c] \in {"project", "launch"} => launches'[picked'[c]] <= Troubles'
    <3>1. /\ picked'[c] = picked[c] /\ picked[c] \in Prompts
          /\ pc[c] \in {"project", "launch", "error", "mark"}
          /\ pc'[c] \in {"project", "launch"} => pc[c] \in {"project", "launch"}
      BY <1>1, <2>4
    <3>2. state[picked[c]] # "absent"
      BY <3>1
    <3>3. state'[picked[c]] # "absent"
      BY <1>1, <3>1, <3>2
    <3>4. pc'[c] \in {"project", "launch"} => launches[picked[c]] <= Troubles
      BY <3>1
    <3>5. launches[picked[c]] \in Nat /\ launches' = launches
      BY <1>0, <1>1, <3>1
    <3>6. ASSUME pc'[c] \in {"project", "launch"}
          PROVE  launches[picked[c]] <= Troubles'
      <4>1. launches[picked[c]] <= Troubles
        BY <3>4, <3>6
      <4> HIDE DEF Troubles
      <4>2. QED
        BY <1>0, <2>1, <3>5, <4>1
    <3>7. QED
      BY <3>1, <3>3, <3>5, <3>6
  <2>5. QED
    BY <2>3, <2>4
\* A step that costs an edit, a crash or a fault may lose a launch.
<1>2. ASSUME UNCHANGED launches, Troubles' >= Troubles + 1, Troubles' \in Nat,
             \A p \in Prompts : state'[p] = "absent" => state[p] = "absent",
             \A c \in Callers :
               pc'[c] \in {"project", "launch", "error", "mark"} =>
                 /\ picked'[c] = picked[c]
                 /\ pc[c] \in {"project", "launch", "error", "mark"}
      PROVE  Counted'
  <2>1. Troubles \in Nat /\ \A p \in Prompts : launches[p] <= 1 + Troubles
    BY <1>0
  <2>2. ASSUME NEW p \in Prompts PROVE launches'[p] <= Troubles'
    <3>1. launches' = launches /\ Troubles' >= Troubles + 1 /\ Troubles' \in Nat
      BY <1>2
    <3>2. launches[p] \in Nat /\ launches[p] <= 1 + Troubles /\ Troubles \in Nat
      BY <1>0, <2>1
    <3> HIDE DEF Base, Counted, Troubles, TypeOK
    <3>3. QED
      BY <3>1, <3>2
  <2>3. ASSUME NEW p \in Prompts, state'[p] = "absent" PROVE launches'[p] = 0
    BY <1>2, <2>3
  <2>4. ASSUME NEW c \in Callers,
               pc'[c] \in {"project", "launch", "error", "mark"}
        PROVE  launches'[picked'[c]] <= Troubles' /\ state'[picked'[c]] # "absent"
    <3>1. /\ picked'[c] = picked[c] /\ picked[c] \in Prompts
          /\ pc[c] \in {"project", "launch", "error", "mark"}
      BY <1>2, <2>4
    <3>2. state[picked[c]] # "absent"
      BY <3>1
    <3>3. state'[picked[c]] # "absent"
      BY <1>2, <3>1, <3>2
    <3>4. QED
      BY <2>2, <3>1, <3>3
  <2>5. ASSUME NEW p \in Prompts PROVE launches'[p] <= 1 + Troubles'
    <3>1. Troubles' \in Nat /\ launches'[p] \in Nat
      BY <1>0, <1>2
    <3> HIDE DEF Base, Counted, Troubles, TypeOK
    <3>2. QED
      BY <2>2, <3>1
  <2> HIDE DEF Launching, Troubles
  <2>6. QED
    BY <2>2, <2>3, <2>4, <2>5
<1> DEFINE Spent == Troubles' >= Troubles + 1 /\ Troubles' \in Nat
<1>3. ASSUME Fault, UNCHANGED <<edits, crashes>> PROVE Spent
  BY <1>3, Bounds DEF Fault
<1>4. ASSUME NEW c \in Callers, TryDispatchNext(c) PROVE Counted'
  <2>1. CASE Lock(c)
    BY <1>1, <2>1 DEF Lock, Goto, rows, history, budgets, NoFault
  <2>2. CASE HasCreatingSpec(c)
    BY <1>1, <2>2 DEF HasCreatingSpec, Return, StoreError, Goto, rows, history
  <2>3. CASE OldestNotStarted(c)
    <3>1. CASE Return(c)
      <4>1. Fault \/ NoFault
        BY <2>3 DEF OldestNotStarted, StoreError
      <4>2. QED
        BY <1>1, <2>3, <3>1, <4>1 DEF OldestNotStarted, Return, Goto, rows, history
    <3>2. CASE ~Return(c)
      <4>1. PICK p \in Prompts :
              /\ state[p] = "NOT_STARTED" /\ picked' = [picked EXCEPT ![c] = p]
              /\ pc' = [pc EXCEPT ![c] = "project"] /\ pc[c] = "oldest"
              /\ UNCHANGED <<state, launches, edits, crashes, faults>>
        BY <2>3, <3>2 DEF OldestNotStarted, StoreError, Goto, InState, NoFault, rows,
                          history
      <4>2. ~Launching(p)
        BY <4>1
      <4>3. launches[p] <= Troubles
        BY <4>1, <4>2
      <4>4. \A q \in Prompts : Launching(q)' <=> Launching(q)
        BY <4>1
      <4>5. Troubles' = Troubles
        BY <4>1
      <4> HIDE DEF Launching, Troubles
      <4>6. QED
        BY <4>1, <4>3, <4>4, <4>5
    <3>3. QED
      BY <3>1, <3>2
  <2>4. CASE GetProject(c)
    BY <1>1, <2>4 DEF GetProject, Return, StoreError, Goto, rows, history
  <2>5. CASE Launch(c)
    <3>1. /\ pc[c] = "launch" /\ picked[c] \in Prompts /\ UNCHANGED <<state, picked>>
          /\ launches' = [launches EXCEPT ![picked[c]] = @ + 1]
          /\ pc' = [pc EXCEPT ![c] = "mark"]
      BY <2>5 DEF Launch, Goto, rows
    <3>2. Troubles' = Troubles
      BY <2>5 DEF Launch, budgets
    <3>3. \A p \in Prompts : Launching(p)' <=> (Launching(p) \/ p = picked[c])
      BY <3>1
    <3>4. \A d \in Callers \ {c} : pc[d] \notin Locked
      BY <3>1
    <3>5. ASSUME NEW p \in Prompts
          PROVE  /\ launches'[p] <= 1 + Troubles'
                 /\ state'[p] = "NOT_STARTED" /\ ~Launching(p)' => launches'[p] <= Troubles'
                 /\ state'[p] = "absent" => launches'[p] = 0
      <4> HIDE DEF Launching, Troubles
      <4>1. QED
        BY <1>0, <3>1, <3>2, <3>3
    <3>6. ASSUME NEW d \in Callers
          PROVE  /\ pc'[d] \in {"project", "launch"} => launches'[picked'[d]] <= Troubles'
                 /\ pc'[d] \in {"project", "launch", "error", "mark"} =>
                      state'[picked'[d]] # "absent"
      <4> HIDE DEF Launching, Troubles
      <4>1. QED
        BY <3>1, <3>4
    <3>7. QED
      BY <3>5, <3>6
  <2>6. CASE LaunchFails(c)
    BY <1>1, <2>6 DEF LaunchFails, Goto, rows, history
  <2>7. CASE SetLaunchError(c)
    BY <1>1, <2>7 DEF SetLaunchError, Return, Goto, rows, history
  <2>8. CASE MarkCreatingSpec(c)
    <3>1. /\ pc[c] = "mark" /\ picked[c] \in Prompts
          /\ pc' = [pc EXCEPT ![c] = "idle"] /\ picked' = [picked EXCEPT ![c] = NoPrompt]
          /\ UNCHANGED <<launches, edits, crashes>>
      BY <2>8 DEF MarkCreatingSpec, Return, Goto, history
    <3>2. CASE UNCHANGED rows /\ Fault
      BY <1>2, <1>3, <3>1, <3>2 DEF rows
    <3>3. CASE state' = [state EXCEPT ![picked[c]] = "CREATING_SPEC"] /\ NoFault
      <4>1. Troubles' = Troubles
        BY <3>1, <3>3 DEF NoFault
      <4>2. \A p \in Prompts \ {picked[c]} : Launching(p) => Launching(p)'
        BY <3>1
      <4>3. ASSUME NEW p \in Prompts
            PROVE  /\ launches'[p] <= 1 + Troubles'
                   /\ state'[p] = "NOT_STARTED" /\ ~Launching(p)' => launches'[p] <= Troubles'
                   /\ state'[p] = "absent" => launches'[p] = 0
        <5> HIDE DEF Launching, Troubles
        <5>1. QED
          BY <3>1, <3>3, <4>1, <4>2
      <4>4. ASSUME NEW d \in Callers
            PROVE  /\ pc'[d] \in {"project", "launch"} => launches'[picked'[d]] <= Troubles'
                   /\ pc'[d] \in {"project", "launch", "error", "mark"} =>
                        state'[picked'[d]] # "absent"
        <5> HIDE DEF Launching, Troubles
        <5>1. QED
          BY <3>1, <3>3, <4>1
      <4>5. QED
        BY <4>3, <4>4
    <3>4. QED
      BY <2>8, <3>2, <3>3 DEF MarkCreatingSpec
  <2>9. QED
    BY <1>4, <2>1, <2>2, <2>3, <2>4, <2>5, <2>6, <2>7, <2>8 DEF TryDispatchNext
<1>5. ASSUME NEW p \in Prompts, CreatePrompt(p) PROVE Counted'
  <2>1. /\ state[p] = "absent" /\ state' = [state EXCEPT ![p] = "NOT_STARTED"]
        /\ UNCHANGED <<picked, launches, edits, crashes, faults>>
        /\ \A c \in Callers : pc'[c] # pc[c] => pc[c] = "idle" /\ pc'[c] = "lock"
    BY <1>5, SpawnMoves DEF CreatePrompt, history, budgets
  <2>2. Troubles' = Troubles
    BY <2>1
  <2>3. \A q \in Prompts : Launching(q)' <=> Launching(q)
    BY <2>1
  <2> HIDE DEF Launching, Troubles
  <2>4. QED
    BY <1>0, <2>1, <2>2, <2>3
<1>6. ASSUME NEW p \in Prompts, NEW s \in EditStates, UpdatePromptState(p, s)
      PROVE  Counted'
  <2>1. Spent
    BY <1>6, Bounds DEF UpdatePromptState
  <2>2. s # "absent"
    BY <1>6 DEF States
  <2>3. /\ state' = [state EXCEPT ![p] = s] /\ UNCHANGED <<picked, launches>>
        /\ \A c \in Callers : pc'[c] # pc[c] => pc[c] = "idle" /\ pc'[c] = "lock"
    BY <1>6, SpawnMoves DEF UpdatePromptState
  <2>4. QED
    BY <1>2, <2>1, <2>2, <2>3
<1>7. ASSUME NEW p \in Prompts, NotifyImplementing(p) \/ NotifyDone(p)
      PROVE  Counted'
  <2>1. PICK s \in {"IMPLEMENTING", "DONE"} : state' = [state EXCEPT ![p] = s]
    BY <1>7 DEF NotifyImplementing, NotifyDone
  <2>2. /\ UNCHANGED <<picked, launches, edits, crashes, faults>>
        /\ \A c \in Callers : pc'[c] # pc[c] => pc[c] = "idle" /\ pc'[c] = "lock"
    BY <1>7, SpawnMoves DEF NotifyImplementing, NotifyDone, dispatch, history, budgets
  <2>3. Troubles' = Troubles
    BY <2>2
  <2>4. \A q \in Prompts : Launching(q)' <=> Launching(q)
    BY <2>2
  <2>5. state'[p] # "absent" /\ state'[p] # "NOT_STARTED"
    BY <2>1
  <2> HIDE DEF Launching, Troubles
  <2>6. QED
    BY <2>1, <2>2, <2>3, <2>4, <2>5
<1>8. ASSUME NEW p \in Prompts, ReportLost(p) \/ SessionDies(p) PROVE Counted'
  BY <1>2, <1>3, <1>8 DEF ReportLost, SessionDies, rows, dispatch, history
<1>9. CASE Start
  BY <1>1, <1>9 DEF Start, Spawn, Goto, rows, history, budgets, NoFault
<1>10. CASE Crash
  <2>1. Spent
    BY <1>10, Bounds DEF Crash
  <2>2. QED
    BY <1>2, <1>10, <2>1 DEF Crash, rows, history
<1>11. CASE UNCHANGED vars
  BY <1>1, <1>11 DEF vars, rows, dispatch, history, budgets, NoFault
<1>12. QED
  BY <1>4, <1>5, <1>6, <1>7, <1>8, <1>9, <1>10, <1>11 DEF Next

\* A session of a prompt is one of its launches, and while nothing goes wrong
\* the last one writes the spec of the prompt that has the slot, or gets it.
LEMMA NextWriters ==
  ASSUME Base, Counted, Writers, [Next]_vars
  PROVE  Writers'
<1> USE PromptsAssumption, CallersAssumption, BoundsAssumption
    DEF Base, TypeOK, MutexHeld, HasPicked, Locked, Writers, Troubles, Launching
<1>0. /\ Troubles \in Nat
      /\ \A p \in Prompts : specs[p] \in Nat /\ impls[p] \in Nat /\ launches[p] \in Nat
  BY Bounds
<1>1. ASSUME Fault, UNCHANGED <<edits, crashes>> PROVE Troubles' # 0
  BY <1>1, Bounds DEF Fault
\* A step that starts and ends no session, and takes nobody from the slot or
\* from the way there.
<1>2. ASSUME UNCHANGED sessions, UNCHANGED <<launches, edits, crashes>>,
             Fault \/ NoFault,
             \A p \in Prompts :
               state[p] = "CREATING_SPEC" => state'[p] = "CREATING_SPEC",
             \A c \in Callers :
               pc[c] = "mark" => pc'[c] = "mark" /\ picked'[c] = picked[c]
      PROVE  Writers'
  <2>1. Troubles' = 0 => Troubles = 0
    BY <1>1, <1>2 DEF NoFault
  <2>2. ASSUME NEW p \in Prompts, Launching(p) PROVE Launching(p)'
    BY <1>2, <2>2
  <2> HIDE DEF Troubles, Launching
  <2>3. QED
    BY <1>2, <2>1, <2>2 DEF sessions
<1>3. ASSUME Troubles' # 0,
             \A p \in Prompts : specs'[p] + impls'[p] <= launches'[p]
      PROVE  Writers'
  <2> HIDE DEF Troubles
  <2>1. QED
    BY <1>3
<1>4. ASSUME NEW c \in Callers, TryDispatchNext(c) PROVE Writers'
  <2>1. CASE Lock(c)
    BY <1>2, <2>1 DEF Lock, Goto, rows, sessions, history, budgets, NoFault
  <2>2. CASE HasCreatingSpec(c)
    BY <1>2, <2>2 DEF HasCreatingSpec, Return, StoreError, Goto, rows, history
  <2>3. CASE OldestNotStarted(c)
    <3>1. Fault \/ NoFault
      BY <2>3 DEF OldestNotStarted, StoreError
    <3>2. QED
      BY <1>2, <2>3, <3>1 DEF OldestNotStarted, Return, StoreError, Goto, rows, history
  <2>4. CASE GetProject(c)
    BY <1>2, <2>4 DEF GetProject, Return, StoreError, Goto, rows, history
  <2>5. CASE Launch(c)
    <3>1. /\ pc[c] = "launch" /\ picked[c] \in Prompts /\ UNCHANGED <<state, picked, impls>>
          /\ specs' = [specs EXCEPT ![picked[c]] = @ + 1]
          /\ launches' = [launches EXCEPT ![picked[c]] = @ + 1]
          /\ pc' = [pc EXCEPT ![c] = "mark"]
      BY <2>5 DEF Launch, Goto, rows
    <3>2. Troubles' = Troubles
      BY <2>5 DEF Launch, budgets
    <3>3. \A p \in Prompts : Launching(p)' <=> (Launching(p) \/ p = picked[c])
      BY <3>1
    <3> HIDE DEF Troubles, Launching
    <3>4. ASSUME NEW p \in Prompts
          PROVE  /\ specs'[p] + impls'[p] <= launches'[p]
                 /\ Troubles' = 0 /\ specs'[p] > 0 =>
                      state'[p] = "CREATING_SPEC" \/ Launching(p)'
      BY <1>0, <3>1, <3>2, <3>3
    <3>5. QED
      BY <3>4
  <2>6. CASE LaunchFails(c)
    BY <1>2, <2>6 DEF LaunchFails, Goto, rows, history
  <2>7. CASE SetLaunchError(c)
    BY <1>2, <2>7 DEF SetLaunchError, Return, Goto, rows, history
  <2>8. CASE MarkCreatingSpec(c)
    <3>1. /\ pc[c] = "mark" /\ picked[c] \in Prompts
          /\ pc' = [pc EXCEPT ![c] = "idle"] /\ picked' = [picked EXCEPT ![c] = NoPrompt]
          /\ UNCHANGED <<specs, impls, launches, edits, crashes>>
      BY <2>8 DEF MarkCreatingSpec, Return, Goto, history, sessions
    <3>2. CASE Fault
      BY <1>1, <1>3, <3>1, <3>2
    <3>3. CASE state' = [state EXCEPT ![picked[c]] = "CREATING_SPEC"] /\ NoFault
      <4>1. Troubles' = Troubles
        BY <3>1, <3>3 DEF NoFault
      <4>2. \A p \in Prompts \ {picked[c]} : Launching(p) => Launching(p)'
        BY <3>1
      <4> HIDE DEF Troubles, Launching
      <4>3. QED
        BY <3>1, <3>3, <4>1, <4>2
    <3>4. QED
      BY <2>8, <3>2, <3>3 DEF MarkCreatingSpec
  <2>9. QED
    BY <1>4, <2>1, <2>2, <2>3, <2>4, <2>5, <2>6, <2>7, <2>8 DEF TryDispatchNext
<1>5. ASSUME NEW p \in Prompts, CreatePrompt(p) PROVE Writers'
  <2>1. /\ state[p] = "absent" /\ state' = [state EXCEPT ![p] = "NOT_STARTED"]
        /\ UNCHANGED <<picked, specs, impls, launches, edits, crashes, faults>>
        /\ \A c \in Callers : pc[c] = "mark" => pc'[c] = "mark"
    BY <1>5, SpawnMoves DEF CreatePrompt, history, budgets, sessions
  <2>2. QED
    BY <1>2, <2>1 DEF sessions, NoFault
<1>6. ASSUME NEW p \in Prompts, NEW s \in EditStates, UpdatePromptState(p, s)
      PROVE  Writers'
  <2>1. Troubles' # 0 /\ UNCHANGED <<specs, impls, launches>>
    BY <1>6, Bounds DEF UpdatePromptState, sessions
  <2>2. QED
    BY <1>3, <2>1
<1>7. ASSUME NEW p \in Prompts, NotifyImplementing(p) \/ NotifyDone(p)
      PROVE  Writers'
  <2>1. /\ \A q \in Prompts \ {p} : state'[q] = state[q] /\ specs'[q] = specs[q]
                                     /\ impls'[q] = impls[q]
        /\ UNCHANGED <<picked, launches, edits, crashes, faults>>
        /\ \A c \in Callers : pc[c] = "mark" => pc'[c] = "mark"
    BY <1>7, SpawnMoves DEF NotifyImplementing, NotifyDone, dispatch, history, budgets
  <2>2. Troubles' = Troubles
    BY <2>1
  <2>3. \A q \in Prompts : Launching(q) => Launching(q)'
    BY <2>1
  <2>4. /\ specs'[p] \in Nat /\ impls'[p] \in Nat
        /\ specs'[p] + impls'[p] <= specs[p] + impls[p]
        /\ specs'[p] < specs[p] + impls[p]
    <3>1. CASE NotifyImplementing(p)
      BY <1>0, <3>1 DEF NotifyImplementing
    <3>2. CASE NotifyDone(p)
      BY <1>0, <3>2 DEF NotifyDone
    <3>3. QED
      BY <1>7, <3>1, <3>2
  <2>5. Troubles = 0 => launches[p] <= 1
    <3>1. launches[p] <= 1 + Troubles
      BY DEF Counted
    <3> HIDE DEF Troubles
    <3>2. QED
      BY <1>0, <3>1
  <2>6. Troubles = 0 => specs'[p] = 0
    <3> HIDE DEF Troubles
    <3>1. QED
      BY <1>0, <2>4, <2>5
  <2>7. ASSUME NEW q \in Prompts PROVE specs'[q] + impls'[q] <= launches'[q]
    <3> HIDE DEF Troubles
    <3>1. QED
      BY <1>0, <2>1, <2>4
  <2>8. ASSUME NEW q \in Prompts, Troubles' = 0, specs'[q] > 0
        PROVE  state'[q] = "CREATING_SPEC" \/ Launching(q)'
    <3>1. q # p
      BY <2>2, <2>6, <2>8
    <3> HIDE DEF Troubles, Launching
    <3>2. QED
      BY <2>1, <2>2, <2>3, <2>8, <3>1
  <2>9. QED
    BY <2>7, <2>8
<1>8. ASSUME NEW p \in Prompts, ReportLost(p) \/ SessionDies(p) PROVE Writers'
  <2>1. UNCHANGED <<launches, edits, crashes>> /\ Fault
    BY <1>8 DEF ReportLost, SessionDies, history
  <2>2. /\ specs'[p] + impls'[p] <= specs[p] + impls[p]
        /\ specs'[p] \in Nat /\ impls'[p] \in Nat
        /\ \A q \in Prompts \ {p} : specs'[q] = specs[q] /\ impls'[q] = impls[q]
    <3>1. CASE ReportLost(p)
      BY <1>0, <3>1 DEF ReportLost
    <3>2. CASE SessionDies(p)
      BY <1>0, <3>2 DEF SessionDies
    <3>3. QED
      BY <1>8, <3>1, <3>2
  <2>3. \A q \in Prompts : specs'[q] + impls'[q] <= launches'[q]
    BY <1>0, <2>1, <2>2
  <2>4. QED
    BY <1>1, <1>3, <2>1, <2>3
<1>9. CASE Start
  BY <1>2, <1>9, SpawnMoves DEF Start, rows, history, budgets, NoFault
<1>10. CASE Crash
  <2>1. Troubles' # 0 /\ UNCHANGED <<specs, impls, launches>>
    BY <1>10, Bounds DEF Crash, sessions, history
  <2>2. QED
    BY <1>3, <2>1
<1>11. CASE UNCHANGED vars
  BY <1>2, <1>11 DEF vars, rows, dispatch, history, budgets, NoFault
<1>12. QED
  BY <1>4, <1>5, <1>6, <1>7, <1>8, <1>9, <1>10, <1>11 DEF Next

\* At the start nothing has been launched or reported.
LEMMA InitCounts == Init => Base /\ Reports /\ Counted /\ Writers
<1> SUFFICES ASSUME Init PROVE Base /\ Reports /\ Counted /\ Writers
  OBVIOUS
<1>1. Base
  BY InitIInv DEF Base, IInv
<1>2. Troubles = 0 /\ \A c \in Callers : pc[c] = "idle"
  BY DEF Init, Troubles
<1>3. Reports
  BY <1>2 DEF Init, Reports
<1>4. Counted /\ Writers
  BY <1>2 DEF Init, Counted, Writers
<1>5. QED
  BY <1>1, <1>3, <1>4

LEMMA CountsInvariance == Spec => [](Base /\ Reports /\ Counted /\ Writers)
<1>1. Base /\ [Next]_vars => Base'
  BY NextTypeOK, NextMutex DEF Base
<1>2. Base /\ Reports /\ Counted /\ Writers /\ [Next]_vars
        => (Base /\ Reports /\ Counted /\ Writers)'
  BY <1>1, NextReports, NextCounted, NextWriters
<1>3. QED
  BY InitCounts, <1>2, PTL DEF Spec

\* An accepted report frees the slot for good, unless it was faster than the
\* update of its own launch (notify.go:53-67, dispatch.go:84).
THEOREM ReportFreesSlotHolds == Spec => []ReportFreesSlot
<1>1. Reports => ReportFreesSlot
  BY DEF Reports, ReportFreesSlot
<1>2. QED
  BY <1>1, CountsInvariance, PTL

\* Whatever interleaves, each launch of a prompt after the first is the price
\* of an edit, a crash or a failed call (dispatch.go:76-86).
THEOREM LaunchesAccountedForHolds == Spec => []LaunchesAccountedFor
<1>1. Base /\ Counted => LaunchesAccountedFor
  <2> SUFFICES ASSUME Base, Counted, NEW p \in Prompts
               PROVE  launches[p] <= 1 + edits + crashes + faults
    BY DEF LaunchesAccountedFor
  <2>1. launches[p] <= 1 + (edits + crashes + faults)
    BY DEF Counted, Troubles
  <2>2. QED
    BY <2>1, Bounds DEF Base, TypeOK
<1>2. QED
  BY <1>1, CountsInvariance, PTL

\* While nothing has gone wrong one session at most writes a spec: of the
\* prompt in the slot, or of the one that is about to get it
\* (dispatch.go:43-87).
THEOREM OneSpecWriterHolds == Spec => []OneSpecWriter
<1>1. IInv /\ Counted /\ Writers => OneSpecWriter
  <2> SUFFICES ASSUME IInv, Counted, Writers, edits + crashes + faults = 0
               PROVE  /\ \A p \in Prompts : specs[p] <= 1
                      /\ \A p, q \in Prompts : specs[p] > 0 /\ specs[q] > 0 => p = q
    BY DEF OneSpecWriter
  <2>1. Troubles = 0 /\ forced = {}
    BY Bounds DEF Troubles, IInv, TypeOK, ForcedByEdit
  <2>2. ASSUME NEW p \in Prompts PROVE specs[p] <= 1
    <3>1. specs[p] + impls[p] <= launches[p] /\ launches[p] <= 1 + 0
      BY <2>1 DEF Counted, Writers
    <3>2. QED
      BY <3>1 DEF IInv, TypeOK
  <2>3. ASSUME NEW p \in Prompts, NEW q \in Prompts, specs[p] > 0, specs[q] > 0
        PROVE  p = q
    <3>1. /\ state[p] = "CREATING_SPEC" \/ Launching(p)
          /\ state[q] = "CREATING_SPEC" \/ Launching(q)
      BY <2>1, <2>3 DEF Writers
    <3>2. QED
      BY <2>1, <3>1 DEF IInv, Launching, AtMostOneCreatingSpec, SlotStaysEmpty, MutexHeld,
                        Locked, Dispatched, InState
  <2>4. QED
    BY <2>2, <2>3
<1>2. QED
  BY <1>1, Invariance, CountsInvariance, PTL
=============================================================================
