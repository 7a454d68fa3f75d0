---------------------------- MODULE PromptQueue ----------------------------
(***************************************************************************)
(* projects-svc: the queue of prompts and the Claude Code sessions started *)
(* for them.                                                               *)
(*                                                                         *)
(* A prompt is a Postgres row (store/store.go) that goes from NOT_STARTED  *)
(* over CREATING_SPEC and IMPLEMENTING to DONE.  TryDispatchNext           *)
(* (dispatch/dispatch.go) launches the oldest NOT_STARTED prompt when no   *)
(* prompt is CREATING_SPEC; goroutines spawned by the HTTP handlers and by *)
(* main run it under one in-process mutex, with a store call or a process  *)
(* launch at every step.  The launched session is a process of its own: it *)
(* reports IMPLEMENTING and DONE to /notify (httpserver/notify.go), or     *)
(* dies.  The user edits states by hand (httpserver/server.go).  The       *)
(* service may crash at any point; rows and sessions survive.              *)
(***************************************************************************)
EXTENDS Integers

CONSTANTS
  Prompts,       \* ids: natural numbers, in the order the table assigns them
  Callers,       \* bound: goroutines in TryDispatchNext at one time
  Free, NoPrompt,
  EditStates,    \* the states the user's manual edits may set
  Unlaunchable,  \* prompts whose project path is missing
  MaxEdits,      \* bound: manual edits
  MaxCrashes,    \* bound: crashes of projects-svc
  MaxFaults      \* bound: failed store calls and launches, lost reports

States == {"NOT_STARTED", "CREATING_SPEC", "IMPLEMENTING", "DONE"}

ASSUME PromptsAssumption ==
  /\ Prompts \subseteq Nat
  /\ NoPrompt \notin Prompts
  /\ Unlaunchable \subseteq Prompts

ASSUME CallersAssumption == Free \notin Callers

ASSUME BoundsAssumption ==
  /\ EditStates \subseteq States
  /\ {MaxEdits, MaxCrashes, MaxFaults} \subseteq Nat

VARIABLES
  state,        \* state[p]: the row's state, "absent" before it is inserted
  launchError,  \* launchError[p]: last_launch_error is set
  mu,           \* Dispatcher.mu: its holder, or Free
  pc,           \* pc[c]: where the goroutine c is in TryDispatchNext
  picked,       \* picked[c]: the prompt it works on
  specs,        \* specs[p]: sessions of p that write the spec
  impls,        \* impls[p]: sessions of p that implement
  up,           \* projects-svc is running
  launches,     \* history: launches[p] sessions were started for p
  reported,     \* history: p's IMPLEMENTING report was accepted since its
                \*   last launch or manual edit
  early,        \* history: a report came before its launch was recorded
  forced,       \* history: prompts that a manual edit made CREATING_SPEC
  edits, crashes, faults  \* what the bounds count

rows     == <<state, launchError>>
dispatch == <<mu, pc, picked>>
sessions == <<specs, impls>>
history  == <<launches, reported, early, forced>>
budgets  == <<edits, crashes, faults>>
vars == <<rows, dispatch, sessions, up, history, budgets>>

InState(s) == {p \in Prompts : state[p] = s}
Created    == {p \in Prompts : state[p] # "absent"}

Init ==
  /\ state = [p \in Prompts |-> "absent"]
  /\ launchError = [p \in Prompts |-> FALSE]
  /\ mu = Free
  /\ pc = [c \in Callers |-> "idle"]
  /\ picked = [c \in Callers |-> NoPrompt]
  /\ specs = [p \in Prompts |-> 0] /\ impls = [p \in Prompts |-> 0]
  /\ up = FALSE
  /\ launches = [p \in Prompts |-> 0] /\ reported = {} /\ early = FALSE
  /\ forced = {}
  /\ edits = 0 /\ crashes = 0 /\ faults = 0

-----------------------------------------------------------------------------
(* Building blocks *)

Fault   == faults < MaxFaults /\ faults' = faults + 1
NoFault == UNCHANGED faults

Goto(c, l) == pc' = [pc EXCEPT ![c] = l]

\* go dispatchNextSafely(d): a goroutine that will call TryDispatchNext.
Spawn == \E c \in Callers : pc[c] = "idle" /\ Goto(c, "lock")

\* TryDispatchNext returns, and its deferred Unlock runs.
Return(c) ==
  /\ Goto(c, "idle")
  /\ mu' = Free
  /\ picked' = [picked EXCEPT ![c] = NoPrompt]

\* The error of a store call is logged, and TryDispatchNext returns.
StoreError(c) == Fault /\ Return(c) /\ UNCHANGED rows

-----------------------------------------------------------------------------
(* TryDispatchNext, by the goroutine c *)

\* A mutant: no mutex around the attempt.
LockUnguarded(c) ==
  /\ pc[c] = "lock"
  /\ mu' = c
  /\ Goto(c, "busy")
  /\ UNCHANGED <<rows, picked, sessions, up, history, budgets>>

Lock(c) ==
  /\ pc[c] = "lock"
  /\ mu = Free
  /\ mu' = c
  /\ Goto(c, "busy")
  /\ UNCHANGED <<rows, picked, sessions, up, history, budgets>>

HasCreatingSpec(c) ==
  /\ pc[c] = "busy"
  /\ \/ InState("CREATING_SPEC") # {} /\ Return(c) /\ NoFault
     \/ /\ InState("CREATING_SPEC") = {}
        /\ Goto(c, "oldest") /\ NoFault
        /\ UNCHANGED <<mu, picked>>
     \/ StoreError(c)
  /\ UNCHANGED <<rows, sessions, up, history, edits, crashes>>

OldestNotStarted(c) ==
  /\ pc[c] = "oldest"
  /\ LET waiting == InState("NOT_STARTED") IN
     \/ waiting = {} /\ Return(c) /\ NoFault
     \/ /\ \E p \in waiting :
             /\ \A q \in waiting : p <= q
             /\ picked' = [picked EXCEPT ![c] = p]
        /\ Goto(c, "project") /\ NoFault
        /\ UNCHANGED mu
     \/ StoreError(c)
  /\ UNCHANGED <<rows, sessions, up, history, edits, crashes>>

\* The foreign key keeps a prompt's project in place: only the call can fail.
GetProject(c) ==
  /\ pc[c] = "project"
  /\ \/ Goto(c, "launch") /\ NoFault /\ UNCHANGED <<mu, picked>>
     \/ StoreError(c)
  /\ UNCHANGED <<rows, sessions, up, history, edits, crashes>>

\* launcher.Launch: a detached process, running from here on.
Launch(c) ==
  /\ pc[c] = "launch"
  /\ LET p == picked[c] IN
     /\ p \notin Unlaunchable
     /\ specs' = [specs EXCEPT ![p] = @ + 1]
     /\ launches' = [launches EXCEPT ![p] = @ + 1]
     /\ reported' = reported \ {p}
  /\ Goto(c, "mark")
  /\ UNCHANGED <<rows, mu, picked, impls, up, early, forced, budgets>>

LaunchFails(c) ==
  /\ pc[c] = "launch"
  /\ (picked[c] \in Unlaunchable /\ NoFault) \/ Fault
  /\ Goto(c, "error")
  /\ UNCHANGED <<rows, mu, picked, sessions, up, history, edits, crashes>>

\* A failed SetLaunchError or MarkCreatingSpec is logged; both return.
SetLaunchError(c) ==
  /\ pc[c] = "error"
  /\ \/ /\ launchError' = [launchError EXCEPT ![picked[c]] = TRUE]
        /\ UNCHANGED state /\ NoFault
     \/ UNCHANGED rows /\ Fault
  /\ Return(c)
  /\ UNCHANGED <<sessions, up, history, edits, crashes>>

\* A mutant: the row is left as it is after a successful launch.
MarkForgotten(c) ==
  /\ pc[c] = "mark"
  /\ Return(c) /\ NoFault
  /\ UNCHANGED <<rows, sessions, up, history, edits, crashes>>

\* UPDATE ... SET state, whatever the state has become since it was read.
MarkCreatingSpec(c) ==
  /\ pc[c] = "mark"
  /\ \/ /\ state' = [state EXCEPT ![picked[c]] = "CREATING_SPEC"]
        /\ launchError' = [launchError EXCEPT ![picked[c]] = FALSE]
        /\ forced' = forced \ {picked[c]}
        /\ NoFault
     \/ UNCHANGED <<rows, forced>> /\ Fault
  /\ Return(c)
  /\ UNCHANGED <<sessions, up, launches, reported, early, edits, crashes>>

TryDispatchNext(c) ==
  \/ Lock(c) \/ HasCreatingSpec(c) \/ OldestNotStarted(c) \/ GetProject(c)
  \/ Launch(c) \/ LaunchFails(c) \/ SetLaunchError(c) \/ MarkCreatingSpec(c)

-----------------------------------------------------------------------------
(* The HTTP handlers: each ends with a goroutine for TryDispatchNext. *)

\* Concurrent INSERTs may commit out of the order of their ids.
CreatePrompt(p) ==
  /\ up
  /\ state[p] = "absent"
  /\ state' = [state EXCEPT ![p] = "NOT_STARTED"]
  /\ Spawn
  /\ UNCHANGED <<launchError, mu, picked, sessions, up, history, budgets>>

\* history: an edit that moves p into CREATING_SPEC forces it there.
ForcedBy(p, s) ==
  IF s # "CREATING_SPEC" THEN forced \ {p}
  ELSE IF state[p] # s THEN forced \cup {p} ELSE forced

\* A mutant: the edit does not trigger a dispatch.
UpdateWithoutDispatch(p, s) ==
  /\ up
  /\ p \in Created
  /\ edits < MaxEdits
  /\ edits' = edits + 1
  /\ state' = [state EXCEPT ![p] = s]
  /\ reported' = reported \ {p} /\ forced' = ForcedBy(p, s)
  /\ UNCHANGED <<launchError, dispatch, sessions, up, launches, early, crashes,
                 faults>>

\* PUT /prompts/{id}: any valid state, from any state, CREATING_SPEC included.
UpdatePromptState(p, s) ==
  /\ up
  /\ p \in Created
  /\ edits < MaxEdits
  /\ edits' = edits + 1
  /\ state' = [state EXCEPT ![p] = s]
  /\ reported' = reported \ {p} /\ forced' = ForcedBy(p, s)
  /\ Spawn
  /\ UNCHANGED <<launchError, mu, picked, sessions, up, launches, early,
                 crashes, faults>>

Launching(p) == \E c \in Callers : pc[c] = "mark" /\ picked[c] = p

\* A mutant: the report does not trigger the next dispatch.
NotifyWithoutDispatch(p) ==
  /\ up
  /\ specs[p] > 0
  /\ specs' = [specs EXCEPT ![p] = @ - 1]
  /\ impls' = [impls EXCEPT ![p] = @ + 1]
  /\ state' = [state EXCEPT ![p] = "IMPLEMENTING"] /\ forced' = forced \ {p}
  /\ reported' = reported \cup {p} /\ early' = (early \/ Launching(p))
  /\ UNCHANGED <<launchError, dispatch, up, launches, budgets>>

\* A mutant: the report is accepted and the row not updated.
NotifyKeepsState(p) ==
  /\ up
  /\ specs[p] > 0
  /\ specs' = [specs EXCEPT ![p] = @ - 1]
  /\ impls' = [impls EXCEPT ![p] = @ + 1]
  /\ reported' = reported \cup {p} /\ early' = (early \/ Launching(p))
  /\ Spawn
  /\ UNCHANGED <<rows, mu, picked, up, launches, forced, budgets>>

\* A session's first curl: POST /notify {prompt_id, IMPLEMENTING}.
NotifyImplementing(p) ==
  /\ up
  /\ specs[p] > 0
  /\ specs' = [specs EXCEPT ![p] = @ - 1]
  /\ impls' = [impls EXCEPT ![p] = @ + 1]
  /\ state' = [state EXCEPT ![p] = "IMPLEMENTING"] /\ forced' = forced \ {p}
  /\ reported' = reported \cup {p} /\ early' = (early \/ Launching(p))
  /\ Spawn
  /\ UNCHANGED <<launchError, mu, picked, up, launches, budgets>>

\* Its second: DONE, which triggers no dispatch.
NotifyDone(p) ==
  /\ up
  /\ impls[p] > 0
  /\ impls' = [impls EXCEPT ![p] = @ - 1]
  /\ state' = [state EXCEPT ![p] = "DONE"] /\ forced' = forced \ {p}
  /\ UNCHANGED <<launchError, dispatch, specs, up, launches, reported, early,
                 budgets>>

\* curl -s without a retry: a report is lost when the service is down or its
\* UPDATE fails, and the session goes on.
ReportLost(p) ==
  /\ Fault
  /\ \/ /\ specs[p] > 0
        /\ specs' = [specs EXCEPT ![p] = @ - 1]
        /\ impls' = [impls EXCEPT ![p] = @ + 1]
     \/ /\ impls[p] > 0
        /\ impls' = [impls EXCEPT ![p] = @ - 1]
        /\ UNCHANGED specs
  /\ UNCHANGED <<rows, dispatch, up, history, edits, crashes>>

SessionDies(p) ==
  /\ Fault
  /\ \/ specs[p] > 0 /\ specs' = [specs EXCEPT ![p] = @ - 1] /\ UNCHANGED impls
     \/ impls[p] > 0 /\ impls' = [impls EXCEPT ![p] = @ - 1] /\ UNCHANGED specs
  /\ UNCHANGED <<rows, dispatch, up, history, edits, crashes>>

-----------------------------------------------------------------------------
(* The process *)

\* main resumes the queue that built up while the service was down.
Start ==
  /\ ~up
  /\ up' = TRUE
  /\ Spawn
  /\ UNCHANGED <<rows, mu, picked, sessions, history, budgets>>

Crash ==
  /\ up
  /\ crashes < MaxCrashes
  /\ crashes' = crashes + 1
  /\ up' = FALSE
  /\ mu' = Free
  /\ pc' = [c \in Callers |-> "idle"]
  /\ picked' = [c \in Callers |-> NoPrompt]
  /\ UNCHANGED <<rows, sessions, history, edits, faults>>

-----------------------------------------------------------------------------
Next ==
  \/ \E c \in Callers : TryDispatchNext(c)
  \/ \E p \in Prompts :
       \/ CreatePrompt(p)
       \/ \E s \in EditStates : UpdatePromptState(p, s)
       \/ NotifyImplementing(p) \/ NotifyDone(p)
       \/ ReportLost(p) \/ SessionDies(p)
  \/ Start \/ Crash

Spec == Init /\ [][Next]_vars

\* Goroutines run, sync.Mutex starves no waiter, the service is restarted,
\* and a session that lives reports.  The user owes nothing.
Fairness ==
  /\ \A c \in Callers :
       WF_vars(TryDispatchNext(c) /\ pc[c] # "lock") /\ SF_vars(Lock(c))
  /\ \A p \in Prompts :
       SF_vars(NotifyImplementing(p)) /\ WF_vars(NotifyDone(p))
  /\ WF_vars(Start)

FairSpec == Spec /\ Fairness

-----------------------------------------------------------------------------
(* Properties *)

Locked == {"busy", "oldest", "project", "launch", "error", "mark"}

TypeOK ==
  /\ state \in [Prompts -> States \cup {"absent"}]
  /\ launchError \in [Prompts -> BOOLEAN]
  /\ mu \in Callers \cup {Free}
  /\ pc \in [Callers -> {"idle", "lock"} \cup Locked]
  /\ picked \in [Callers -> Prompts \cup {NoPrompt}]
  /\ specs \in [Prompts -> Nat] /\ impls \in [Prompts -> Nat]
  /\ up \in BOOLEAN
  /\ launches \in [Prompts -> Nat] /\ reported \subseteq Prompts
  /\ early \in BOOLEAN /\ forced \subseteq Prompts
  /\ edits \in 0..MaxEdits /\ crashes \in 0..MaxCrashes
  /\ faults \in 0..MaxFaults

\* The prompts the dispatcher has put into CREATING_SPEC.
Dispatched == InState("CREATING_SPEC") \ forced

\* The dispatcher keeps "at most one prompt CREATING_SPEC at a time, globally"
\* (dispatch.go:1-6), whatever goroutines, sessions, edits, crashes and failed
\* calls interleave with the check and the later update.  A second one there
\* is the work of a manual edit, which may set that state too
\* (server.go:177-221).
AtMostOneCreatingSpec == \A p, q \in Dispatched : p = q

\* While nothing has gone wrong at most one session writes a spec: the user
\* is never questioned by two at once (dispatch.go:43-87).
OneSpecWriter ==
  edits + crashes + faults = 0 =>
    /\ \A p \in Prompts : specs[p] <= 1
    /\ \A p, q \in Prompts : specs[p] > 0 /\ specs[q] > 0 => p = q

\* A prompt is launched again only because of an edit, a crash or a failed
\* call, one time for each (dispatch.go:76-86, server.go:167-172).
LaunchesAccountedFor ==
  \A p \in Prompts : launches[p] <= 1 + edits + crashes + faults

\* The row of a dispatched prompt never shows the error of an earlier launch
\* (store.go:206-223); an edit may take a row there with its error.
SlotHasNoError == \A p \in Dispatched : ~launchError[p]

\* The dispatcher's slot alone: no prompt is let into it before the last one has
\* left.
Slot == INSTANCE SpecSlot WITH slot <- Dispatched
ImplementsSlot == Slot!Spec

\* An accepted IMPLEMENTING report frees the slot for good: the prompt does
\* not fall back to CREATING_SPEC, whatever dispatches run at the time
\* (notify.go:53-67).  A session that reports before its own launch has been
\* recorded is the exception: MarkCreatingSpec then overwrites its report.
ReportFreesSlot ==
  ~early => \A p \in reported : state[p] # "CREATING_SPEC"

\* The queue advances by itself: while no call fails, no session dies and
\* nobody edits, every prompt is launched, whatever was created before it,
\* and across a restart (dispatch.go:48-87, main.go:72-73).
EventuallyLaunched ==
  [](faults = 0 /\ edits = 0 /\ ~early) =>
    \A p \in Prompts : state[p] = "NOT_STARTED" ~> launches[p] > 0

\* No edit, crash or fault is left to happen.
Calm == edits = MaxEdits /\ crashes = MaxCrashes /\ faults = MaxFaults

\* "A manual state edit back to NOT_STARTED is the documented way to unstick
\* a permanently-stuck CREATING_SPEC prompt" (server.go:202-210): after an
\* edit with which nothing goes wrong any more, every waiting prompt gets its
\* turn, though sessions died, calls failed or the service crashed before it.
\* Two things keep a queue stuck: a slot held by a prompt whose session is
\* dead, and one that DONE frees, because the report before it was lost.
EditUnsticksQueue ==
  LET writing == \A q \in InState("CREATING_SPEC") : specs[q] > 0
      skipped == \E q \in InState("CREATING_SPEC") : specs[q] = 0 /\ impls[q] > 0
  IN  []((edits = MaxEdits => Calm) /\ ~early /\ ~skipped) =>
        \A p \in Prompts :
          (Calm /\ mu = Free /\ writing /\ state[p] = "NOT_STARTED")
            ~> state[p] # "NOT_STARTED"
=============================================================================
