----------------------------- MODULE Generations -----------------------------
(***************************************************************************)
(* The generations of one chat inside the process: the abort registry      *)
(* (src/pipeline/turn/abort-registry.ts), the judge loop that is           *)
(* interrupted and replans (runJudgedEntry, src/pipeline/turn/actor.ts),   *)
(* the self-continuation that follows a reply                              *)
(* (src/pipeline/turn/self-continue.ts), the points where delivery looks   *)
(* at its signal (src/pipeline/stages/deliver.ts) and the shutdown         *)
(* broadcast (src/index.ts).                                               *)
(*                                                                         *)
(* Flows are turns of the chat; without the execution lock, which is off   *)
(* by default, several overlap.  A step runs to the next await.  Which     *)
(* entries of a burst a turn judges and which it only tracks is left open. *)
(***************************************************************************)
EXTENDS Naturals, SequencesExt

CONSTANTS
    Msgs,         \* the entries users send
    Direct,       \* those that address the bot
    Edits,        \* those that are edits: they interrupt nothing
    Commands,     \* slash commands: transactions, never interrupted
    Flows,        \* turns of the chat
    Follow,       \* rounds of self-continuation
    None,
    Cap,          \* TURN_INTERRUPT_MAX_CONSECUTIVE
    MaxReplans,   \* maxReplans()
    MaxReplays    \* TURN_GATE_DEFER_MAX_REPLAYS

ASSUME SetsAssumption ==
    /\ Direct \cup Edits \cup Commands \subseteq Msgs
    /\ Flows \cap Follow = {} /\ None \notin Flows \cup Follow \cup Msgs
ASSUME BoundsAssumption == Cap \in Nat /\ MaxReplans \in Nat /\ MaxReplays \in Nat

VARIABLES
    pending,      \* the pending buffer, in order
    active,       \* active.get(chatId): whose controller is registered
    aborted,      \* controller.signal.aborted, per owner
    consecutive,  \* consecutiveInterrupts
    stopping,     \* 0, then 1 after abortAllGenerations, 2 after drainSelfContinuations
    flow,         \* where each turn is
    todo,         \* the entries of its burst it has not come to
    fresh,        \* the entries it drained to replan, those it has not come to
    current,      \* the entry it judges
    replans,      \* the loop's local
    follow,       \* where each self-continuation is
    deferCount,   \* entry.deferCount
    sent, answered, settled, displaced, dropped,  \* history: what became of entries
    gens,         \* history: generations started for an entry
    butted        \* history: self-continuations sent over an entry being judged

registry == <<active, aborted, consecutive>>
left     == <<todo, fresh>>
flowVars == <<flow, left, current, replans>>
history  == <<sent, answered, settled, displaced, dropped, gens, butted>>
vars == <<pending, registry, stopping, flowVars, follow, deferCount, history>>

Owners == Flows \cup Follow

Init ==
    /\ pending = <<>> /\ active = None /\ aborted = [x \in Owners |-> FALSE]
    /\ consecutive = 0 /\ stopping = 0
    /\ flow = [f \in Flows |-> "off"]
    /\ todo = [f \in Flows |-> {}] /\ fresh = [f \in Flows |-> {}]
    /\ current = [f \in Flows |-> None] /\ replans = [f \in Flows |-> 0]
    /\ follow = [w \in Follow |-> "off"] /\ deferCount = [m \in Msgs |-> 0]
    /\ sent = {} /\ answered = {} /\ settled = {} /\ displaced = {} /\ dropped = {}
    /\ gens = [m \in Msgs |-> 0] /\ butted = {}

ShuttingDown == stopping > 0
Step(f, step) == flow' = [flow EXCEPT ![f] = step]
----------------------------------------------------------------------------
(* The registry, as functions of the controller registered before.          *)

\* Mutant: a registration that comes after the broadcast is like any other.
MutRegister(x, prior) ==
    /\ active' = x
    /\ aborted' = [y \in Owners |-> IF y = x THEN FALSE ELSE aborted[y] \/ y = prior]

\* registerGeneration: supersedes the prior; after the broadcast it hands out
\* an aborted controller and registers nothing.
Register(x, prior) ==
    IF ShuttingDown
    THEN active' = prior /\ aborted' = [aborted EXCEPT ![x] = TRUE]
    ELSE /\ active' = x
         /\ aborted' = [y \in Owners |-> IF y = x THEN FALSE ELSE aborted[y] \/ y = prior]

\* Mutant: no identity guard.
MutClear(x, interrupted) ==
    /\ active' = None
    /\ consecutive' = IF ~interrupted THEN 0 ELSE consecutive

\* clearGeneration, guarded by the controller's identity.
Clear(x, interrupted) ==
    /\ active' = IF active = x THEN None ELSE active
    /\ consecutive' = IF ~interrupted /\ active = x THEN 0 ELSE consecutive

\* Mutant: the cap on consecutive interrupts is not asked.
MutInterrupt ==
    IF active # None /\ ~aborted[active]
    THEN aborted' = [aborted EXCEPT ![active] = TRUE] /\ consecutive' = consecutive + 1
    ELSE UNCHANGED <<aborted, consecutive>>

\* interruptGeneration.
Interrupt ==
    IF active # None /\ ~aborted[active] /\ consecutive < Cap
    THEN aborted' = [aborted EXCEPT ![active] = TRUE] /\ consecutive' = consecutive + 1
    ELSE UNCHANGED <<aborted, consecutive>>
----------------------------------------------------------------------------
(* Ingress.  The interrupt and the command that appends are one step.       *)

Ingress(m) ==
    /\ m \notin sent
    /\ sent' = sent \cup {m}
    /\ pending' = Append(pending, m)
    /\ IF m \in Edits THEN UNCHANGED <<aborted, consecutive>> ELSE Interrupt
    /\ UNCHANGED <<active, stopping, flowVars, follow, deferCount, answered, settled, displaced,
                   dropped, gens, butted>>
----------------------------------------------------------------------------
(* A turn.                                                                  *)

StartTurn(f) ==
    /\ flow[f] = "off" /\ pending # <<>>
    /\ todo' = [todo EXCEPT ![f] = ToSet(pending)]
    /\ pending' = <<>>
    /\ Step(f, "turn")
    /\ UNCHANGED <<registry, stopping, fresh, current, replans, follow, deferCount, history>>

EndTurn(f) ==
    /\ flow[f] = "turn" /\ todo[f] = {}
    /\ Step(f, "off")
    /\ UNCHANGED <<pending, registry, stopping, left, current, replans, follow, deferCount, history>>

\* The next entry: of the burst, or of what was drained to replan.
Take(f, m) ==
    \/ /\ flow[f] = "turn" /\ m \in todo[f]
       /\ todo' = [todo EXCEPT ![f] = @ \ {m}] /\ UNCHANGED fresh
    \/ /\ flow[f] = "again" /\ m \in fresh[f]
       /\ fresh' = [fresh EXCEPT ![f] = @ \ {m}] /\ UNCHANGED todo

Track(f, m) ==
    /\ m \notin Commands /\ Take(f, m)
    /\ settled' = settled \cup {m}
    /\ UNCHANGED <<pending, registry, stopping, flow, current, replans, follow, deferCount,
                   sent, answered, displaced, dropped, gens, butted>>

\* A command gets its receipt, or is pending again when the broadcast came first.
RunCommandEntry(f, m) ==
    /\ m \in Commands /\ Take(f, m)
    /\ IF ShuttingDown
       THEN pending' = Append(pending, m) /\ UNCHANGED answered
       ELSE answered' = answered \cup {m} /\ UNCHANGED pending
    /\ UNCHANGED <<registry, stopping, flow, current, replans, follow, deferCount,
                   sent, settled, displaced, dropped, gens, butted>>

Counted(m) == gens' = IF ShuttingDown THEN gens ELSE [gens EXCEPT ![m] = @ + 1]

Judge(f, m) ==
    /\ flow[f] = "turn" /\ m \in todo[f] \ Commands
    /\ todo' = [todo EXCEPT ![f] = @ \ {m}]
    /\ current' = [current EXCEPT ![f] = m]
    /\ replans' = [replans EXCEPT ![f] = 0]
    /\ Register(f, active)
    /\ Counted(m)
    /\ Step(f, "generate")
    /\ UNCHANGED <<pending, consecutive, stopping, fresh, follow, deferCount, sent, answered, settled,
                   displaced, dropped, butted>>

\* The pipeline returns without a reply, or fails with an error that is logged.
Complete(f) ==
    /\ flow[f] \in {"generate", "delay"}
    /\ settled' = settled \cup {current[f]}
    /\ current' = [current EXCEPT ![f] = None]
    /\ Clear(f, FALSE)
    /\ Step(f, "turn")
    /\ UNCHANGED <<pending, aborted, stopping, left, replans, follow, deferCount, sent, answered,
                   displaced, dropped, gens, butted>>

\* The reply is written and the look before sending finds no interrupt: what
\* accompanies the text, reactions and a poll, goes out now.
Deliver(f) ==
    /\ flow[f] = "generate" /\ ~aborted[f]
    /\ Step(f, "delay")
    /\ UNCHANGED <<pending, registry, stopping, left, current, replans, follow, deferCount,
                   history>>

\* The first segment of text goes out, after the read delay if there is one;
\* the loop's own look is at the broadcast only.
SendFirst(f) ==
    /\ flow[f] = "delay" /\ ~ShuttingDown
    /\ answered' = answered \cup {current[f]}
    /\ Step(f, "send")
    /\ UNCHANGED <<pending, registry, stopping, left, current, replans, follow, deferCount, sent,
                   settled, displaced, dropped, gens, butted>>

\* Mutant: the broadcast makes a later segment throw as it does the first.
MutSendRest(f) ==
    /\ flow[f] = "send"
    /\ Clear(f, FALSE)
    /\ pending' = IF ShuttingDown THEN Append(pending, current[f]) ELSE pending
    /\ current' = [current EXCEPT ![f] = None]
    /\ Step(f, "turn")
    /\ UNCHANGED <<aborted, stopping, left, replans, follow, deferCount, history>>

\* Later segments go out whatever the signal says; the broadcast cuts them
\* short without an error.
SendRest(f) ==
    /\ flow[f] = "send"
    /\ Clear(f, FALSE)
    /\ current' = [current EXCEPT ![f] = None]
    /\ Step(f, "turn")
    /\ UNCHANGED <<pending, aborted, stopping, left, replans, follow, deferCount, history>>

\* AI_ABORTED: the model call, the look before sending, and the looks after the
\* read delay and before the first segment.
Throws(f) ==
    \/ flow[f] = "generate" /\ aborted[f]
    \/ flow[f] = "delay" /\ (aborted[f] \/ ShuttingDown)

GiveBack(f) ==
    /\ pending' = Append(pending, current[f])
    /\ current' = [current EXCEPT ![f] = None]
    /\ Step(f, "ending")

\* Mutant: the shutdown branch returns without giving the entry back.
MutShutdownRequeue(f) ==
    /\ Throws(f) /\ ShuttingDown
    /\ current' = [current EXCEPT ![f] = None]
    /\ Step(f, "ending")
    /\ UNCHANGED <<pending, registry, stopping, left, replans, follow, deferCount, history>>

ShutdownRequeue(f) ==
    /\ Throws(f) /\ ShuttingDown
    /\ GiveBack(f)
    /\ UNCHANGED <<registry, stopping, left, replans, follow, deferCount, history>>

\* Mutant: deferCount is not counted up.
MutBudgetRequeue(f) ==
    /\ Throws(f) /\ ~ShuttingDown /\ replans[f] >= MaxReplans
    /\ deferCount[current[f]] < MaxReplays
    /\ GiveBack(f)
    /\ UNCHANGED <<registry, stopping, left, replans, follow, deferCount, history>>

\* Replans spent: the entry goes back as a defer replay while it has budget.
BudgetRequeue(f) ==
    /\ Throws(f) /\ ~ShuttingDown /\ replans[f] >= MaxReplans
    /\ deferCount[current[f]] < MaxReplays
    /\ GiveBack(f)
    /\ deferCount' = [deferCount EXCEPT ![current[f]] = @ + 1]
    /\ UNCHANGED <<registry, stopping, left, replans, follow, history>>

BudgetDrop(f) ==
    /\ Throws(f) /\ ~ShuttingDown /\ replans[f] >= MaxReplans
    /\ deferCount[current[f]] >= MaxReplays
    /\ dropped' = dropped \cup {current[f]}
    /\ current' = [current EXCEPT ![f] = None]
    /\ Step(f, "ending")
    /\ UNCHANGED <<pending, registry, stopping, left, replans, follow, deferCount, sent, answered,
                   settled, displaced, gens, butted>>

\* The finally of those three.
EndEntry(f) ==
    /\ flow[f] = "ending"
    /\ Clear(f, FALSE)
    /\ Step(f, "turn")
    /\ UNCHANGED <<pending, aborted, stopping, left, current, replans, follow, deferCount, history>>

Interrupted(f) ==
    /\ Throws(f) /\ ~ShuttingDown /\ replans[f] < MaxReplans
    /\ replans' = [replans EXCEPT ![f] = @ + 1]
    /\ Step(f, "quiet")
    /\ UNCHANGED <<pending, registry, stopping, left, current, follow, deferCount, history>>

\* The new anchor among the drained entries: the last addressed one, else the
\* last that is not an edit; commands never; None keeps the old one.
Anchor(drained) ==
    LET LastOf(S) == LET i == SelectLastInSeq(drained, LAMBDA m : m \in S)
                     IN IF i = 0 THEN None ELSE drained[i]
        direct == LastOf(Direct \ Commands)
    IN IF direct # None THEN direct ELSE LastOf(Msgs \ (Edits \cup Commands))

\* After the quiet period what interrupted is drained and the newest anchor
\* takes over; the rest is come to one by one (the locals that name the anchor
\* change after that loop, which nobody sees).
Replan(f) ==
    /\ flow[f] = "quiet"
    /\ pending' = <<>>
    /\ LET anchor == Anchor(pending)
       IN /\ fresh' = [fresh EXCEPT ![f] = ToSet(pending) \ {anchor}]
          /\ current' = IF anchor = None THEN current ELSE [current EXCEPT ![f] = anchor]
          /\ displaced' = IF anchor = None THEN displaced
                          ELSE displaced \cup {<<current[f], anchor>>}
    /\ Step(f, "again")
    /\ UNCHANGED <<registry, stopping, todo, replans, follow, deferCount, sent, answered, settled,
                   dropped, gens, butted>>

\* The finally, and the loop's next registration.
Again(f) ==
    /\ flow[f] = "again" /\ fresh[f] = {}
    /\ Register(f, IF active = f THEN None ELSE active)
    /\ Counted(current[f])
    /\ Step(f, "generate")
    /\ UNCHANGED <<pending, consecutive, stopping, left, current, replans, follow, deferCount,
                   sent, answered, settled, displaced, dropped, butted>>
----------------------------------------------------------------------------
(* A round of self-continuation, running beside the turns.                  *)

FollowStep(w, step) == follow' = [follow EXCEPT ![w] = step]

\* Fire and forget, while a turn is sending.
StartFollow(w) ==
    /\ follow[w] = "off" /\ stopping < 2
    /\ \E f \in Flows : flow[f] = "send"
    /\ FollowStep(w, "beat")
    /\ UNCHANGED <<pending, registry, stopping, flowVars, deferCount, history>>

Yield(w) ==
    /\ follow[w] \in {"beat", "register", "written", "locking", "locked"}
    /\ FollowStep(w, "done")
    /\ UNCHANGED <<pending, registry, stopping, flowVars, deferCount, history>>

\* shouldYield, asked after the beat, after the generation, and with the chat lock.
StillQuiet(w) ==
    /\ pending = <<>>
    /\ \/ follow[w] = "beat" /\ FollowStep(w, "register")
       \/ follow[w] = "written" /\ FollowStep(w, "locking")
       \/ follow[w] = "locking" /\ stopping < 2 /\ FollowStep(w, "locked")
    /\ UNCHANGED <<pending, registry, stopping, flowVars, deferCount, history>>

\* registerWeakGeneration: never over a generation that is not aborted.
RegisterWeak(w) ==
    /\ follow[w] = "register" /\ ~ShuttingDown
    /\ active # None => aborted[active]
    /\ active' = w /\ aborted' = [aborted EXCEPT ![w] = FALSE]
    /\ FollowStep(w, "generate")
    /\ UNCHANGED <<pending, consecutive, stopping, flowVars, deferCount, history>>

FollowWritten(w) ==
    /\ follow[w] = "generate" /\ ~aborted[w]
    /\ Clear(w, FALSE)
    /\ FollowStep(w, "written")
    /\ UNCHANGED <<pending, aborted, stopping, flowVars, deferCount, history>>

\* Mutant: the error path forgets the registration.
MutFollowFails(w) ==
    /\ follow[w] = "generate"
    /\ FollowStep(w, "done")
    /\ UNCHANGED <<pending, registry, stopping, flowVars, deferCount, history>>

\* Interrupted, superseded, stopped, or the model failed.
FollowFails(w) ==
    /\ follow[w] = "generate"
    /\ Clear(w, TRUE)
    /\ FollowStep(w, "done")
    /\ UNCHANGED <<pending, aborted, stopping, flowVars, deferCount, history>>

FollowSends(w) ==
    /\ follow[w] = "locked" /\ stopping < 2
    /\ FollowStep(w, "done")
    /\ butted' = IF \E f \in Flows : flow[f] # "send" /\ current[f] # None
                 THEN butted \cup {w} ELSE butted
    /\ UNCHANGED <<pending, registry, stopping, flowVars, deferCount, sent, answered, settled,
                   displaced, dropped, gens>>
----------------------------------------------------------------------------
(* shutdown() in index.ts.                                                  *)

AbortAllGenerations ==
    /\ stopping = 0 /\ stopping' = 1
    /\ aborted' = [x \in Owners |-> aborted[x] \/ x = active]
    /\ UNCHANGED <<pending, active, consecutive, flowVars, follow, deferCount, history>>

DrainSelfContinuations ==
    /\ stopping = 1 /\ stopping' = 2
    /\ UNCHANGED <<pending, registry, flowVars, follow, deferCount, history>>
----------------------------------------------------------------------------
Turn(f) ==
    \/ StartTurn(f) \/ EndTurn(f) \/ Complete(f) \/ Deliver(f) \/ SendFirst(f) \/ SendRest(f)
    \/ ShutdownRequeue(f) \/ BudgetRequeue(f) \/ BudgetDrop(f) \/ EndEntry(f)
    \/ Interrupted(f) \/ Replan(f) \/ Again(f)
SelfContinue(w) ==
    \/ StartFollow(w) \/ Yield(w) \/ StillQuiet(w) \/ RegisterWeak(w) \/ FollowWritten(w)
    \/ FollowFails(w) \/ FollowSends(w)

Next ==
    \/ \E m \in Msgs : Ingress(m)
    \/ \E f \in Flows : Turn(f)
    \/ \E f \in Flows, m \in Msgs : Track(f, m) \/ RunCommandEntry(f, m) \/ Judge(f, m)
    \/ \E w \in Follow : SelfContinue(w)
    \/ AbortAllGenerations \/ DrainSelfContinuations

Spec == Init /\ [][Next]_vars
----------------------------------------------------------------------------
(* Properties.                                                              *)

TypeOK ==
    /\ pending \in Seq(Msgs) /\ active \in Owners \cup {None} /\ aborted \in [Owners -> BOOLEAN]
    /\ consecutive \in 0..Cap /\ stopping \in 0..2
    /\ flow \in [Flows -> {"off", "turn", "generate", "delay", "send", "ending", "quiet", "again"}]
    /\ todo \in [Flows -> SUBSET Msgs] /\ fresh \in [Flows -> SUBSET Msgs]
    /\ current \in [Flows -> Msgs \cup {None}]
    /\ replans \in [Flows -> 0..MaxReplans] /\ deferCount \in [Msgs -> 0..MaxReplays]
    /\ follow \in [Follow -> {"off", "beat", "register", "generate", "written", "locking",
                              "locked", "done"}]

InFlight(x) ==
    IF x \in Flows THEN flow[x] \in {"generate", "delay", "send", "ending", "quiet", "again"}
    ELSE follow[x] = "generate"

\* However turns overlap, supersede one another, replan and race with
\* self-continuations, a generation that is not aborted is the registered one:
\* there is at most one, and users and shutdown can reach it.
LiveIsRegistered == \A x \in Owners : InFlight(x) /\ ~aborted[x] => active = x

\* ... and the registry names nobody who is gone: no interrupt is spent on, and
\* no self-continuation yields to, a generation that is over.
NoGhost == active # None => InFlight(active)

\* The registry is exact: both of the above.
RegistryExact == LiveIsRegistered /\ NoGhost

\* The broadcast reaches every generation, those registered after it too
\* (index.ts 403-406): closeWorker never waits for a live one.
ShutdownReachesAll == ShuttingDown => \A x \in Owners : InFlight(x) => aborted[x]

InTurns == (UNION {todo[f] \cup fresh[f] : f \in Flows}) \cup ({current[f] : f \in Flows} \ {None})
Displaced == {p[1] : p \in displaced}

\* Interrupts and shutdown postpone: an entry is pending, in a turn, or it has
\* been seen to, gave way to a newer anchor, or has used up its replays.
EntriesKept ==
    sent = ToSet(pending) \cup InTurns \cup answered \cup settled \cup Displaced \cup dropped

\* An entry whose first segment of text has gone out is never given back,
\* replanned or judged again (deliver.ts 617, 821-823): interrupts and the
\* broadcast that come while it is sent do not make the bot say it twice.  Of
\* what accompanies the text it does not hold: CompanionsGoWithText.
AnsweredOnce ==
    /\ answered \cap (ToSet(pending) \cup settled \cup Displaced \cup dropped) = {}
    /\ \A f \in Flows : /\ answered \cap (todo[f] \cup fresh[f]) = {}
                        /\ current[f] \in answered => flow[f] = "send"

\* No storm of interrupts, and no pair of overlapping turns that supersede each
\* other, makes the bot generate for the same entry without end.
StormBounded == \A m \in Msgs : gens[m] <= (MaxReplans + 1) * (MaxReplays + 1)

----------------------------------------------------------------------------
(* What comments of the code say and TLC refutes (README, "Disagreements"). *)

\* What actor.ts 367-371 says of the anchor: addressed entries first, so that a
\* passer-by's message does not push out somebody's question to the bot.
DirectNotDisplaced == \A p \in displaced : p[1] \in Direct => p[2] \in Direct

\* What self-continue.ts 203 and 233 say: when somebody has spoken the
\* self-continuation gives way, the true reply always comes first.
FollowGivesWay == butted = {}

\* What deliver.ts 513, 552-553 and 762 say: reactions and the poll wait for the
\* looks at the signals, so that a reply that is discarded leaves no orphan, and
\* while the read delay lasts nothing has been sent and a replay is safe.
CompanionsGoWithText ==
    [][\A f \in Flows : flow[f] = "delay" => flow'[f] \notin {"quiet", "ending"}]_vars
=============================================================================
