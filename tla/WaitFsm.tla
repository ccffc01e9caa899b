------------------------------- MODULE WaitFsm -------------------------------
(***************************************************************************)
(* "Wait for them to finish" in one chat: the timing state a wait decision *)
(* writes (src/pipeline/timing/state-store.ts), the delayed wait_resume    *)
(* job and its handler (src/pipeline/timing/chat-runtime.ts,               *)
(* src/queue/producer.ts) and the parked anchor entry                      *)
(* (src/pipeline/turn/buffer.ts).  Turns of a chat decide one at a time;   *)
(* resume handlers run beside them.                                        *)
(*                                                                         *)
(* A wait is one decision and also names its resume job.  Time is a        *)
(* counter of seconds bounded by MaxNow; a step takes any time, because    *)
(* the clock may tick between any two steps.                               *)
(***************************************************************************)
EXTENDS Integers, FiniteSetsExt

CONSTANTS
    Waits,       \* wait decisions, each with its own resume job
    None,
    Requested,   \* the waitSec values a gate or heart may ask for
    MinWait,     \* TIMING_WAIT_MIN_SEC
    MaxWait,     \* TIMING_WAIT_MAX_SEC
    Fallback,    \* WAIT_RESUME_FALLBACK_MS
    Tolerance,   \* the 2000 ms of handleWaitResume
    AnchorSlack, \* the 120 s an anchor outlives its wait
    MaxNow,      \* bound of the clock
    MaxFaults    \* bound: failed Redis calls

ASSUME WaitAssumption ==
    /\ None \notin Waits \cup Nat
    /\ MinWait \in Nat /\ MaxWait \in Nat /\ MinWait <= MaxWait
    /\ Requested \subseteq Nat /\ Fallback \in Nat /\ Tolerance \in Nat
    /\ AnchorSlack \in Nat /\ MaxNow \in Nat /\ MaxFaults \in Nat

VARIABLES
    now,
    state, waitUntil,      \* the timing hash (waitJobId is never read; the trigger
                           \* set does not bear on the properties here)
    anchor, anchorUntil,   \* xxb:turn:waitanchor and its expiry
    turn,        \* the deciding turn: where it is, its wait, and its locals
    sec,         \* per wait: the seconds it asked for, None before it is decided
    job, due,    \* per wait: the state of its resume job, and when it is due
    snapshot,    \* per wait: the waitUntil its handler read
    taken,       \* per wait: the anchor its handler took
    replayed,    \* history: how often each parked anchor was re-injected
    dropped,     \* history: jobs dropped while their own wait was stored
    stored,      \* history: the wait the hash holds
    faults

hashVars == <<state, waitUntil, stored>>
anchorVars == <<anchor, anchorUntil>>
turnVars == <<turn, sec>>
jobVars == <<job, due, snapshot, taken, replayed, dropped>>
vars == <<now, hashVars, anchorVars, turnVars, jobVars, faults>>

Idle == [at |-> "idle", wait |-> None, until |-> None]

Init ==
    /\ now = 0
    /\ state = "RUNNING" /\ waitUntil = 0 /\ stored = None
    /\ anchor = None /\ anchorUntil = 0
    /\ turn = Idle
    /\ sec = [w \in Waits |-> None]
    /\ job = [w \in Waits |-> "none"] /\ due = [w \in Waits |-> 0]
    /\ snapshot = [w \in Waits |-> 0] /\ taken = [w \in Waits |-> None]
    /\ replayed = [w \in Waits |-> 0] /\ dropped = {} /\ faults = 0

\* getChatState: a WAIT whose time is up reads as RUNNING, and stays stored.
Reads == IF state = "WAIT" /\ waitUntil <= now THEN "RUNNING" ELSE state
Fault == faults < MaxFaults /\ faults' = faults + 1
----------------------------------------------------------------------------
(* The deciding turn.                                                       *)

\* Mutant: the upper bound is not applied.
MutBounded(s) == Max({s, MinWait})

Bounded(s) == Min({Max({s, MinWait}), MaxWait})

DecideWait(w, s) ==
    /\ turn.at = "idle" /\ sec[w] = None
    /\ sec' = [sec EXCEPT ![w] = s]
    /\ turn' = [Idle EXCEPT !.at = "park", !.wait = w]
    /\ UNCHANGED <<now, hashVars, anchorVars, jobVars, faults>>

\* setWaitAnchor: one key per chat, overwritten.  Its failure is swallowed.
ParkAnchor ==
    /\ turn.at = "park"
    /\ turn' = [turn EXCEPT !.at = "enqueue"]
    /\ \/ /\ anchor' = turn.wait
          /\ anchorUntil' = now + sec[turn.wait] + AnchorSlack
          /\ UNCHANGED faults
       \/ Fault /\ UNCHANGED anchorVars
    /\ UNCHANGED <<now, hashVars, sec, jobVars>>

\* enqueueWaitResume: a job of its own id, delayed by the bounded seconds.
AddResume(w) ==
    /\ job' = [job EXCEPT ![w] = "delayed"]
    /\ due' = [due EXCEPT ![w] = now + Bounded(sec[w])]

\* It is tried twice; after two failures waitUntil is clamped.
EnqueueResume ==
    /\ turn.at \in {"enqueue", "retry"}
    /\ LET w == turn.wait IN
       \/ /\ AddResume(w)
          /\ turn' = [turn EXCEPT !.at = "enter"]
          /\ UNCHANGED faults
       \/ /\ Fault
          /\ turn' = IF turn.at = "enqueue" THEN [turn EXCEPT !.at = "retry"]
                     ELSE [turn EXCEPT !.at = "enter", !.until = now + Fallback]
          /\ UNCHANGED <<job, due>>
    /\ UNCHANGED <<now, hashVars, anchorVars, sec, snapshot, taken, replayed, dropped>>

\* Mutant: the override of a failed enqueue is not passed on.
MutEnterWait ==
    /\ turn.at = "enter"
    /\ LET w == turn.wait IN
       /\ state' = "WAIT"
       /\ waitUntil' = now + Bounded(sec[w])
       /\ stored' = w
    /\ turn' = Idle
    /\ UNCHANGED <<now, anchorVars, sec, jobVars, faults>>

\* A failed write is swallowed by persist.
EnterWait ==
    /\ turn.at = "enter"
    /\ \/ LET w == turn.wait IN
          /\ state' = "WAIT"
          /\ waitUntil' = IF turn.until # None THEN turn.until ELSE now + Bounded(sec[w])
          /\ stored' = w
          /\ UNCHANGED faults
       \/ Fault /\ UNCHANGED hashVars
    /\ turn' = Idle
    /\ UNCHANGED <<now, anchorVars, sec, jobVars>>

\* enterRunning and enterStop drop the wait's fields.
ClearWait(to) ==
    /\ state' = to /\ waitUntil' = 0 /\ stored' = None

\* A turn with a direct entry, or one whose gate says continue.
TurnWakes ==
    /\ turn.at = "idle" /\ state # "RUNNING"
    /\ ClearWait("RUNNING")
    /\ UNCHANGED <<now, anchorVars, turnVars, jobVars, faults>>

\* transitionToStop: a no_action outside actor mode, or after delivery.
TurnStops ==
    /\ turn.at = "idle" /\ state # "STOP"
    /\ ClearWait("STOP")
    /\ UNCHANGED <<now, anchorVars, turnVars, jobVars, faults>>
----------------------------------------------------------------------------
(* handleWaitResume.                                                        *)

Distance(a, b) == IF a > b THEN a - b ELSE b - a

Dropped(w) ==
    /\ job' = [job EXCEPT ![w] = "done"]
    /\ dropped' = IF state = "WAIT" /\ stored = w THEN dropped \cup {w} ELSE dropped
    /\ UNCHANGED snapshot

Accepted(w) ==
    /\ job' = [job EXCEPT ![w] = "accepted"]
    /\ snapshot' = [snapshot EXCEPT ![w] = waitUntil]
    /\ UNCHANGED dropped

\* Mutant: no comparison with the stored waitUntil.
MutResumeFires(w) ==
    /\ job[w] = "delayed" /\ now >= due[w]
    /\ \/ (IF Reads = "WAIT" THEN Accepted(w) ELSE Dropped(w)) /\ UNCHANGED faults
       \/ Fault /\ Dropped(w)
    /\ UNCHANGED <<now, hashVars, anchorVars, turnVars, due, taken, replayed>>

\* The job fires and reads the state: it drops itself when the chat no longer
\* reads WAIT, or when waitUntil is not the one it was scheduled for.  A failed
\* read counts as RUNNING.
ResumeFires(w) ==
    /\ job[w] = "delayed" /\ now >= due[w]
    /\ \/ /\ IF Reads = "WAIT" /\ Distance(due[w], waitUntil) <= Tolerance
             THEN Accepted(w) ELSE Dropped(w)
          /\ UNCHANGED faults
       \/ Fault /\ Dropped(w)
    /\ UNCHANGED <<now, hashVars, anchorVars, turnVars, due, taken, replayed>>

\* enterRunning; a failed write is swallowed.
ResumeWakes(w) ==
    /\ job[w] = "accepted"
    /\ job' = [job EXCEPT ![w] = "awake"]
    /\ \/ ClearWait("RUNNING") /\ UNCHANGED faults
       \/ Fault /\ UNCHANGED hashVars
    /\ UNCHANGED <<now, anchorVars, turnVars, due, snapshot, taken, replayed, dropped>>

\* Mutant: takeWaitAnchor reads the key and leaves it.
MutTakeAnchor(w) ==
    /\ job[w] = "awake"
    /\ job' = [job EXCEPT ![w] = "taken"]
    /\ taken' = [taken EXCEPT ![w] = anchor]
    /\ UNCHANGED <<now, hashVars, anchorVars, turnVars, due, snapshot, replayed, dropped, faults>>

\* takeWaitAnchor: GETDEL; if that fails, GET and then DEL.
TakeAnchor(w) ==
    /\ job[w] = "awake"
    /\ \/ /\ job' = [job EXCEPT ![w] = "taken"]
          /\ taken' = [taken EXCEPT ![w] = anchor]
          /\ anchor' = None
          /\ UNCHANGED faults
       \/ Fault /\ job' = [job EXCEPT ![w] = "get"] /\ UNCHANGED <<taken, anchor>>
    /\ UNCHANGED <<now, hashVars, anchorUntil, turnVars, due, snapshot, replayed, dropped>>

GetAnchor(w) ==
    /\ job[w] = "get"
    /\ job' = [job EXCEPT ![w] = IF anchor = None THEN "taken" ELSE "del"]
    /\ taken' = [taken EXCEPT ![w] = anchor]
    /\ UNCHANGED <<now, hashVars, anchorVars, turnVars, due, snapshot, replayed, dropped, faults>>

DeleteAnchor(w) ==
    /\ job[w] = "del"
    /\ job' = [job EXCEPT ![w] = "taken"]
    /\ anchor' = None
    /\ UNCHANGED <<now, hashVars, anchorUntil, turnVars, due, snapshot, taken, replayed, dropped,
                   faults>>

\* appendPending of the anchor (scheduleTurn is TurnScheduler's).  An error
\* after the take leaves the chat unblocked and the anchor gone.
Replay(w) ==
    /\ job[w] \in {"get", "del", "taken"}
    /\ job' = [job EXCEPT ![w] = "done"]
    /\ \/ /\ job[w] = "taken"
          /\ replayed' = IF taken[w] = None THEN replayed
                         ELSE [replayed EXCEPT ![taken[w]] = @ + 1]
          /\ UNCHANGED faults
       \/ Fault /\ UNCHANGED replayed
    /\ UNCHANGED <<now, hashVars, anchorVars, turnVars, due, snapshot, taken, dropped>>

AnchorExpires ==
    /\ anchor # None /\ anchorUntil <= now
    /\ anchor' = None
    /\ UNCHANGED <<now, hashVars, anchorUntil, turnVars, jobVars, faults>>

Tick ==
    /\ now < MaxNow
    /\ now' = now + 1
    /\ UNCHANGED <<hashVars, anchorVars, turnVars, jobVars, faults>>

Next ==
    \/ \E w \in Waits, s \in Requested : DecideWait(w, s)
    \/ ParkAnchor \/ EnqueueResume \/ EnterWait \/ TurnWakes \/ TurnStops
    \/ \E w \in Waits : ResumeFires(w) \/ ResumeWakes(w) \/ TakeAnchor(w)
                     \/ GetAnchor(w) \/ DeleteAnchor(w) \/ Replay(w)
    \/ AnchorExpires \/ Tick

Spec == Init /\ [][Next]_vars
----------------------------------------------------------------------------
(* Properties.                                                              *)

\* Types; waitUntil never promises a longer wait than TIMING_WAIT_MAX_SEC (or the
\* fallback window), whatever the gate asked for.
TypeOK ==
    /\ now \in 0..MaxNow /\ faults \in 0..MaxFaults
    /\ state \in {"RUNNING", "WAIT", "STOP"} /\ waitUntil \in 0..(now + Max({MaxWait, Fallback}))
    /\ stored \in Waits \cup {None}
    /\ anchor \in Waits \cup {None} /\ anchorUntil \in Nat
    /\ turn \in [at : {"idle", "park", "enqueue", "retry", "enter"},
                 wait : Waits \cup {None}, until : Nat \cup {None}]
    /\ sec \in [Waits -> Requested \cup {None}]
    /\ job \in [Waits -> {"none", "delayed", "accepted", "awake", "get", "del", "taken", "done"}]
    /\ due \in [Waits -> Nat] /\ snapshot \in [Waits -> Nat]
    /\ taken \in [Waits -> Waits \cup {None}] /\ replayed \in [Waits -> Nat]
    /\ dropped \subseteq Waits

\* Two resume jobs may be in their handlers at once, within the tolerance of
\* the same waitUntil; while GETDEL works a parked entry still comes back to
\* pending once at most (buffer.ts 213-227).
AnchorReplayedOnce == faults = 0 => \A w \in Waits : replayed[w] <= 1

\* A wait no resume job could be queued for (Redis failed twice) is over after
\* the fallback window, however long it was meant to be (chat-runtime.ts
\* 170-174): nobody would come to end it.
UnqueuedWaitIsShort ==
    state = "WAIT" /\ job[stored] = "none" => waitUntil <= now + Fallback

\* No resume job cuts a wait short by more than the tolerance, although jobs of
\* older waits fire while a newer one runs: it may end the wait it looked at
\* when it fired, close to its end, or one written behind its back since.
NeverCutShort ==
    [][\A w \in Waits : job[w] = "accepted" /\ job'[w] = "awake" /\ Reads = "WAIT" =>
          waitUntil <= now + Tolerance \/ waitUntil # snapshot[w]]_vars

----------------------------------------------------------------------------
(* What comments of the code say and TLC refutes (README, "Disagreements"). *)

\* What handleWaitResume's comment says (chat-runtime.ts 199-204): a resume job
\* is dropped because the chat was woken or a newer wait is active, and
\* "if still WAIT" it goes through.
ResumeHonoured == dropped = {}
=============================================================================
