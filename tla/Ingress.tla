------------------------------- MODULE Ingress -------------------------------
(***************************************************************************)
(* How a Telegram update reaches the message handler, and how the process  *)
(* moves between the two transports: long polling, and the webhook it      *)
(* fails over to.  src/src/index.ts boots one transport from a flag in     *)
(* Redis, src/src/ingress/failover.ts flips the flag and exits,            *)
(* src/src/bot/handlers/message.ts and bot/middleware/dedup.ts mark an     *)
(* update and handle it.                                                   *)
(*                                                                         *)
(* External, modelled from how the code uses them: Telegram keeps an       *)
(* update until a getUpdates call with a higher offset, or a webhook call  *)
(* answered 200; grammY polls with the offset after the last update it     *)
(* tried and handles a batch in order; systemd restarts the process.       *)
(***************************************************************************)
EXTENDS Integers, FiniteSets

CONSTANTS
    MaxUpdates,     \* updates are numbered in the order they are sent
    Conns,          \* webhook connections Telegram may have open at once
    Loop,           \* the polling loop
    CanWebhook,     \* WEBHOOK_URL and WEBHOOK_SECRET are configured
    MaxFaults,      \* crashes, failed boots, Redis errors, throwing handlers
    MaxStops        \* SIGTERM (a deploy)

ASSUME UpdatesAssumption == MaxUpdates \in Nat
ASSUME SlotsAssumption == IsFiniteSet(Conns) /\ Loop \notin Conns

Updates == 1 .. MaxUpdates
Slots == Conns \union {Loop}

VARIABLES
    arrived,        \* the last update sent
    waiting,        \* updates Telegram still holds
    hook,           \* a webhook is registered, so getUpdates is refused
    blocked,        \* getUpdates gets no answer
    flag,           \* xxb:ingress:mode
    since,          \* xxb:ingress:webhook_since: none, within RECOVERY_MS, older
    beat,           \* xxb:poll:lastok: none, within STALL_MS, older
    marked,         \* xxb:dedup:*
    running,        \* the transport the process booted into, or "down"
    ready,          \* that transport has been set up
    young,          \* uptime is below BOOT_GRACE_MS
    switch,         \* the watchdog: idle, its next write, about to exit, or wedged
    stopping,       \* SIGTERM was received
    batch,          \* fetched updates the loop has not taken yet
    tried,          \* grammY's lastTriedUpdateId
    at,             \* the stage of each handler
    update,         \* the update it handles
    faults, stops,
    handled,        \* history: how often each update was handled
    cut,            \* history: updates whose handler did not come to its end
    opened          \* history: dedup checks that failed open, per update

telegram == <<arrived, waiting, hook, blocked>>
process == <<running, ready, young, switch, stopping>>
handlers == <<batch, tried, at, update>>
history == <<handled, cut, opened>>
bounds == <<faults, stops>>
vars == <<telegram, flag, since, beat, marked, process, handlers, bounds, history>>

Idle == [s \in Slots |-> "free"]
NoUpdate == [s \in Slots |-> 0]

Init ==
    /\ arrived = 0 /\ waiting = {} /\ hook = FALSE /\ blocked = FALSE
    /\ flag = "polling" /\ since = "none" /\ beat = "none" /\ marked = {}
    /\ running = "down" /\ ready = FALSE /\ young = TRUE /\ switch = "idle"
    /\ stopping = FALSE
    /\ batch = {} /\ tried = 0 /\ at = Idle /\ update = NoUpdate
    /\ faults = 0 /\ stops = 0
    /\ handled = [u \in Updates |-> 0] /\ cut = {}
    /\ opened = [u \in Updates |-> 0]

WorldTypes ==
    /\ arrived \in 0 .. MaxUpdates /\ waiting \subseteq Updates
    /\ hook \in BOOLEAN /\ blocked \in BOOLEAN
    /\ flag \in {"polling", "webhook"} /\ since \in {"none", "recent", "old"}
    /\ beat \in {"none", "fresh", "stale"} /\ marked \subseteq Updates

ProcessTypes ==
    /\ running \in {"down", "polling", "webhook"} /\ ready \in BOOLEAN
    /\ young \in BOOLEAN /\ stopping \in BOOLEAN
    /\ switch \in {"idle", "flag", "since", "exit", "wedged"}

HandlerTypes ==
    /\ batch \subseteq Updates /\ tried \in Updates \union {0}
    /\ at \in [Slots -> {"free", "checking", "working"}]
    /\ update \in [Slots -> Updates \union {0}]
    /\ \A s \in Slots : at[s] # "free" => update[s] \in Updates

HistoryTypes ==
    /\ handled \in [Updates -> Nat] /\ cut \subseteq Updates
    /\ opened \in [Updates -> Nat]
    /\ faults \in Nat /\ stops \in Nat

TypeOK == WorldTypes /\ ProcessTypes /\ HandlerTypes /\ HistoryTypes

Fault == faults < MaxFaults /\ faults' = faults + 1 /\ UNCHANGED stops
NoFault == UNCHANGED bounds

-----------------------------------------------------------------------------
(* Telegram and the network. *)

Arrive ==
    /\ arrived < MaxUpdates
    /\ arrived' = arrived + 1
    /\ waiting' = waiting \union {arrived + 1}
    /\ UNCHANGED <<hook, blocked, flag, since, beat, marked, process, handlers, history>>
    /\ NoFault

Outage ==
    /\ blocked' = ~blocked
    /\ UNCHANGED <<arrived, waiting, hook, flag, since, beat, marked, process, handlers,
                   history>>
    /\ NoFault

-----------------------------------------------------------------------------
(* Polling. *)

CanFetch ==
    /\ running = "polling" /\ ready /\ ~stopping /\ ~blocked
    /\ batch = {} /\ at[Loop] = "free"

\* getUpdates: the offset confirms what was tried, the answer is a heartbeat.
Fetch ==
    /\ CanFetch
    /\ waiting' = {u \in waiting : u > tried}
    /\ batch' = waiting'
    /\ beat' = "fresh"
    /\ UNCHANGED <<arrived, hook, blocked, flag, since, marked, process, tried, at, update,
                   history>>
    /\ NoFault

\* The loop handles a batch in order.
Take ==
    /\ at[Loop] = "free"
    /\ \E u \in batch :
         /\ \A v \in batch : u <= v
         /\ tried' = u /\ batch' = batch \ {u}
         /\ at' = [at EXCEPT ![Loop] = "checking"]
         /\ update' = [update EXCEPT ![Loop] = u]
    /\ UNCHANGED <<telegram, flag, since, beat, marked, process, history>>
    /\ NoFault

-----------------------------------------------------------------------------
(* The webhook route: an answer follows the handler, whatever became of it. *)

\* The route answers before it handles the update.
MutPush(c, u) ==
    /\ hook /\ running # "down" /\ (running = "webhook" => ready)
    /\ at[c] = "free" /\ u \in waiting
    /\ at' = [at EXCEPT ![c] = "checking"]
    /\ update' = [update EXCEPT ![c] = u]
    /\ waiting' = waiting \ {u}
    /\ UNCHANGED <<arrived, hook, blocked, flag, since, beat, marked, process, batch, tried,
                   history>>
    /\ NoFault

Push(c, u) ==
    /\ hook /\ running # "down" /\ (running = "webhook" => ready)
    /\ at[c] = "free" /\ u \in waiting
    /\ at' = [at EXCEPT ![c] = "checking"]
    /\ update' = [update EXCEPT ![c] = u]
    /\ UNCHANGED <<telegram, flag, since, beat, marked, process, batch, tried, history>>
    /\ NoFault

\* Telegram gave up on the other connections that carry the same update.
LastCopy(s) == \A c \in Conns \ {s} : update[c] # update[s]

\* The handler of slot s ends, by a return or by a throw that is logged.
End(s) ==
    /\ at' = [at EXCEPT ![s] = "free"]
    /\ update' = [update EXCEPT ![s] = 0]
    /\ waiting' = IF s # Loop /\ LastCopy(s) THEN waiting \ {update[s]} ELSE waiting
    /\ UNCHANGED <<arrived, hook, blocked, flag, since, beat, process, batch, tried>>

-----------------------------------------------------------------------------
(* The handler: isDuplicate's SET NX, then everything else. *)

Duplicate(s) ==
    /\ at[s] = "checking" /\ update[s] \in marked
    /\ End(s)
    /\ UNCHANGED <<marked, history>> /\ NoFault

\* The mark is looked up but not left behind.
MutMark(s) ==
    /\ at[s] = "checking" /\ update[s] \notin marked
    /\ at' = [at EXCEPT ![s] = "working"]
    /\ UNCHANGED <<telegram, flag, since, beat, marked, process, batch, tried, update, history>>
    /\ NoFault

Mark(s) ==
    /\ at[s] = "checking" /\ update[s] \notin marked
    /\ marked' = marked \union {update[s]}
    /\ at' = [at EXCEPT ![s] = "working"]
    /\ UNCHANGED <<telegram, flag, since, beat, process, batch, tried, update, history>>
    /\ NoFault

\* The check fails, its write done or not: "Dedup check failed, proceeding".
CheckFails(s) ==
    /\ at[s] = "checking"
    /\ Fault
    /\ marked' \in {marked, marked \union {update[s]}}
    /\ at' = [at EXCEPT ![s] = "working"]
    /\ opened' = [opened EXCEPT ![update[s]] = @ + 1]
    /\ UNCHANGED <<telegram, flag, since, beat, process, batch, tried, update, handled, cut>>

Finish(s) ==
    /\ at[s] = "working"
    /\ handled' = [handled EXCEPT ![update[s]] = @ + 1]
    /\ End(s)
    /\ UNCHANGED <<marked, cut, opened>> /\ NoFault

HandlerThrows(s) ==
    /\ at[s] = "working"
    /\ Fault
    /\ cut' = cut \union {update[s]}
    /\ End(s)
    /\ UNCHANGED <<marked, handled, opened>>

-----------------------------------------------------------------------------
(* Boot and exit. *)

\* The transport for the flag read; `hook` survives the first deleteWebhook
\* when that call fails.
BootInto(mode) ==
    /\ running = "down"
    /\ running' = mode
    /\ hook' \in (IF mode = "polling" THEN {FALSE, hook} ELSE {hook})
    /\ UNCHANGED <<arrived, waiting, blocked, flag, since, beat, marked, ready, young, switch,
                   stopping, handlers, history>>

Boot ==
    /\ BootInto(IF flag = "webhook" /\ CanWebhook THEN "webhook" ELSE "polling")
    /\ NoFault

BootUnread == BootInto("polling") /\ Fault

\* setWebhook was answered, or bot.start removed the webhook.
Ready ==
    /\ running # "down" /\ ~ready
    /\ ready' = TRUE
    /\ hook' = (running = "webhook")
    /\ UNCHANGED <<arrived, waiting, blocked, flag, since, beat, marked, running, young, switch,
                   stopping, handlers, history>>
    /\ NoFault

\* What the end of the process leaves undone: a handler past its mark, and one
\* whose update the stopping loop has confirmed.
Unfinished ==
    {update[s] : s \in {r \in Slots : at[r] = "working"}} \union
    {update[s] : s \in {r \in {Loop} : at[r] = "checking" /\ stopping /\ update[r] \notin waiting}}

Exit ==
    /\ running # "down"
    /\ running' = "down" /\ ready' = FALSE /\ young' = TRUE /\ switch' = "idle"
    /\ stopping' = FALSE
    /\ batch' = {} /\ tried' = 0 /\ at' = Idle /\ update' = NoUpdate
    /\ cut' = cut \union Unfinished
    /\ UNCHANGED <<telegram, flag, since, beat, marked, handled, opened>>

\* A crash, setWebhook failing twice, or the boot watchdog.
Crash == Exit /\ Fault

\* SIGTERM: bot.stop confirms what was tried, if its call is answered.
Stop ==
    /\ running # "down" /\ ~stopping /\ stops < MaxStops
    /\ stopping' = TRUE /\ stops' = stops + 1
    /\ waiting' \in {waiting, IF running = "polling" /\ ready
                                THEN {u \in waiting : u > tried} ELSE waiting}
    /\ UNCHANGED <<arrived, hook, blocked, flag, since, beat, marked, running, ready, young,
                   switch, handlers, faults, history>>

Stopped == stopping /\ Exit /\ NoFault

-----------------------------------------------------------------------------
(* The watchdog: two writes, then the exit. *)

Other == IF running = "polling" THEN "webhook" ELSE "polling"

Watch(next) ==
    /\ switch' = next
    /\ UNCHANGED <<telegram, beat, marked, running, ready, young, stopping, handlers, history>>

\* A missing heartbeat is taken for a polling loop that has not started yet.
MutStalled == beat = "stale"

Stalled == beat # "fresh"

FailOver ==
    /\ running = "polling" /\ switch = "idle" /\ ~young
    /\ Stalled
    /\ Watch("flag") /\ UNCHANGED <<flag, since>> /\ NoFault

\* The missing start time is not written back.
MutNoteSince ==
    /\ running = "webhook" /\ ready /\ switch = "idle" /\ since = "none"
    /\ Watch("idle") /\ UNCHANGED <<flag, since>> /\ NoFault

NoteSince ==
    /\ running = "webhook" /\ ready /\ switch = "idle" /\ since = "none"
    /\ since' = "recent"
    /\ Watch("idle") /\ UNCHANGED flag /\ NoFault

Recover ==
    /\ running = "webhook" /\ ready /\ switch = "idle" /\ since = "old"
    /\ Watch("flag") /\ UNCHANGED <<flag, since>> /\ NoFault

WriteFlag ==
    /\ switch = "flag"
    /\ flag' = Other
    /\ Watch("since") /\ UNCHANGED since /\ NoFault

WriteSince ==
    /\ switch = "since"
    /\ since' = IF running = "polling" THEN "recent" ELSE "none"
    /\ Watch("exit") /\ UNCHANGED flag /\ NoFault

\* A write fails after `switching` was set; nothing resets it.
SwitchFails ==
    /\ switch \in {"flag", "since"}
    /\ Watch("wedged") /\ UNCHANGED <<flag, since>> /\ Fault

Leave == switch = "exit" /\ Exit /\ NoFault

-----------------------------------------------------------------------------
(* Time.  The limits are minutes and a poll takes half of one: while the   *)
(* loop can poll, no limit passes before it has.                           *)

GrowUp ==
    /\ running # "down" /\ ready /\ young /\ (CanFetch => beat = "fresh")
    /\ young' = FALSE
    /\ UNCHANGED <<telegram, flag, since, beat, marked, running, ready, switch, stopping,
                   handlers, history>>
    /\ NoFault

BeatAges ==
    /\ beat # "none" /\ ~CanFetch
    /\ beat' = IF beat = "fresh" THEN "stale" ELSE "none"
    /\ UNCHANGED <<telegram, flag, since, marked, process, handlers, history>>
    /\ NoFault

SinceAges ==
    /\ since = "recent"
    /\ since' = "old"
    /\ UNCHANGED <<telegram, flag, beat, marked, process, handlers, history>>
    /\ NoFault

-----------------------------------------------------------------------------
\* One thread of the program each, and time.
Startup == Boot \/ Ready \/ Stopped
Watchdog == FailOver \/ NoteSince \/ Recover \/ WriteFlag \/ WriteSince \/ Leave
Time == GrowUp \/ BeatAges \/ SinceAges
Polling == Fetch \/ Take
Pushed(u) == \E c \in Conns : Push(c, u)
Advance(s) == Duplicate(s) \/ Mark(s) \/ Finish(s)

Next ==
    \/ Arrive \/ Outage \/ Stop
    \/ Startup \/ Watchdog \/ Time \/ Polling
    \/ \E u \in Updates : Pushed(u)
    \/ \E s \in Slots : Advance(s) \/ CheckFails(s) \/ HandlerThrows(s)
    \/ BootUnread \/ Crash \/ SwitchFails

Spec == Init /\ [][Next]_vars

\* The threads run and time passes.  A transport that is available again and again is
\* used, and its handlers get on (strong fairness: a poll takes half a minute and a push
\* seconds, a transport stays up for minutes).
Fairness ==
    /\ WF_vars(Startup) /\ WF_vars(Watchdog) /\ WF_vars(Time)
    /\ SF_vars(Polling \/ Advance(Loop))
    /\ \A u \in Updates : SF_vars(Pushed(u))
    /\ \A c \in Conns : SF_vars(Advance(c))

FairSpec == Spec /\ Fairness

-----------------------------------------------------------------------------
(* Properties. *)

\* However often an update is delivered (an unconfirmed offset after a crash, a
\* webhook call Telegram gave up on, both transports in one failover), it is handled
\* once, and once more for each dedup check that failed open.
HandledOnce == \A u \in Updates : handled[u] <= 1 + opened[u]

\* An update Telegram no longer holds has been handled, or is in a handler, or its
\* handler threw or was cut short by the end of the process: neither transport confirms
\* an update that nothing has begun to handle.
NoSilentLoss ==
    \A u \in 1 .. arrived :
        u \in waiting \/ handled[u] > 0 \/ u \in cut \/ \E s \in Slots : update[s] = u

Settled(u) == handled[u] > 0 \/ u \in cut

\* Whatever becomes of getUpdates, every update sent is handled or cut short in the end,
\* unless a watchdog is wedged by a failed write.
EveryUpdateSettles ==
    \A u \in Updates : arrived >= u ~> Settled(u) \/ switch = "wedged"

\* The process does not stay on the webhook: polling is tried again and again, even after
\* a crash between the two writes of a switch, unless a watchdog is wedged.
PollingRetried == []<>(running = "polling" \/ switch = "wedged")
-----------------------------------------------------------------------------
(* What comments of the code say and TLC refutes (README, "Disagreements"). *)

\* failover.ts 6-7: "if polling stops delivering, switch to webhook", whatever write
\* of the switch fails.
FailsOver == \A u \in Updates : arrived >= u ~> Settled(u)
=============================================================================
