-------------------------------- MODULE Burst --------------------------------
(***************************************************************************)
(* Whom a turn hears: what runChatTurnInner (src/pipeline/turn/actor.ts)   *)
(* makes of the burst it drained.  Replays give way, a backlog is cut, a   *)
(* wait holds back the people it waits for, and of the rest some entries   *)
(* are judged, by src/pipeline/turn/anchor-select.ts when several people   *)
(* spoke; the others are only tracked.  The timing state it reads is the   *)
(* one its own waits and the resume handlers write                         *)
(* (src/pipeline/timing/state-store.ts).                                   *)
(*                                                                         *)
(* What is appended while a turn runs is another turn's; the turns of one  *)
(* chat run one at a time here.                                            *)
(***************************************************************************)
EXTENDS Integers, Sequences, FiniteSetsExt, SeqOnly

CONSTANTS
    Entries,          \* [uid, ts, direct, edit, command, replay] that may come in
    MaxTurnBurst,     \* MAX_TURN_BURST
    KeptDirects,      \* older direct entries a cut keeps
    MultiAnchor,      \* TURN_MULTI_ANCHOR_ENABLED
    MultiAnchorMax,   \* TURN_MULTI_ANCHOR_MAX
    PerPerson,        \* TURN_WAIT_PER_PERSON
    MaxPending        \* bound: entries of one burst

Uids == {e.uid : e \in Entries}

ASSUME BurstAssumption ==
    /\ Entries \subseteq [uid : Uids, ts : Nat, direct : BOOLEAN, edit : BOOLEAN,
                          command : BOOLEAN, replay : BOOLEAN]
    /\ MaxTurnBurst \in Nat \ {0} /\ KeptDirects \in Nat \ {0} /\ MultiAnchorMax \in Nat \ {0}
    /\ MultiAnchor \in BOOLEAN /\ PerPerson \in BOOLEAN
    /\ MaxPending \in Nat

VARIABLES
    pending,   \* the buffer
    at,        \* where the turn is
    drained,   \* history: the burst as it was drained
    entries,   \* what is left of it
    held,      \* whose entries are suppressed: suppressedUidSet, or everyone
    judged,    \* judgedIdx
    timing,    \* the timing state; "LAPSED": still WAIT in the hash, read as RUNNING
    waiters,   \* waitTriggerUids; the field is gone when empty
    asked      \* history: whose entries the present wait was decided on

timingVars == <<timing, waiters, asked>>
burstVars == <<pending, at, drained, entries, held, judged, timingVars>>

BurstInit ==
    /\ pending = <<>> /\ at = "idle" /\ drained = <<>> /\ entries = <<>>
    /\ held = {} /\ judged = {}
    /\ timing = "RUNNING" /\ waiters = {} /\ asked = {}

Append1(e) ==
    /\ at = "idle" /\ Len(pending) < MaxPending
    /\ pending' = Append(pending, e)
    /\ UNCHANGED <<at, drained, entries, held, judged, timingVars>>
----------------------------------------------------------------------------
(* The burst.                                                               *)

Fresh == {e \in Entries : ~e.replay}
Addressed == {e \in Entries : e.direct}
LastOf(s, n) == SubSeq(s, Max({0, Len(s) - n}) + 1, Len(s))

\* Entries of a finished wait or defer give way to any fresh one.
GiveWay(s) ==
    LET fresh == Only(s, Fresh) IN IF fresh = <<>> THEN s ELSE fresh

\* Mutant: the cut keeps no older direct entries.
MutCut(s) == LastOf(s, MaxTurnBurst)

\* Only the newest are kept, and of the older ones the last direct ones.
Cut(s) ==
    LET older == SubSeq(s, 1, Len(s) - MaxTurnBurst)
    IN  IF Len(s) <= MaxTurnBurst THEN s
        ELSE LastOf(Only(older, Addressed), KeptDirects) \o LastOf(s, MaxTurnBurst)

Drain ==
    /\ at = "idle" /\ pending # <<>>
    /\ drained' = pending /\ pending' = <<>>
    /\ entries' = Cut(GiveWay(pending))
    /\ at' = "drained"
    /\ UNCHANGED <<held, judged, timingVars>>
----------------------------------------------------------------------------
(* The timing state.                                                        *)

ClearTiming(to) == timing' = to /\ waiters' = {} /\ asked' = {}

\* A direct entry wakes the chat; otherwise a wait holds back its waiters, and a
\* STOP, or a wait that names nobody, everyone.  A failed read counts as RUNNING, and
\* a failed write leaves the state as it is.
ReadState ==
    /\ at = "drained"
    /\ LET blocked == timing \in {"WAIT", "STOP"}
           hasDirect == \E i \in DOMAIN entries : entries[i].direct
       IN  \/ ~blocked /\ held' = {} /\ UNCHANGED timingVars
           \/ blocked /\ hasDirect /\ held' = {} /\ (ClearTiming("RUNNING") \/ UNCHANGED timingVars)
           \/ /\ blocked /\ ~hasDirect
              /\ held' = IF timing = "WAIT" /\ PerPerson /\ waiters # {} THEN waiters ELSE Uids
              /\ UNCHANGED timingVars
           \/ held' = {} /\ UNCHANGED timingVars
    /\ at' = "selecting"
    /\ UNCHANGED <<pending, drained, entries, judged>>

\* enterWait adds the person to what the field holds (nothing, if that read fails);
\* nothing empties it when a wait runs out.
EnterWaitFor(u) ==
    /\ timing' = "WAIT"
    /\ waiters' \in {waiters \cup {u}, {u}}
    /\ asked' = IF timing = "WAIT" THEN asked \cup {u} ELSE {u}

WaitRunsOut ==
    /\ timing = "WAIT" /\ timing' = "LAPSED"
    /\ UNCHANGED <<pending, at, drained, entries, held, judged, waiters, asked>>

\* A resume handler, or the turn whose gate says continue.
Wakes ==
    /\ timing # "RUNNING" /\ ClearTiming("RUNNING")
    /\ UNCHANGED <<pending, at, drained, entries, held, judged>>

Stops ==
    /\ at = "judging" /\ timing # "STOP" /\ ClearTiming("STOP")
    /\ UNCHANGED <<pending, at, drained, entries, held, judged>>
----------------------------------------------------------------------------
(* The anchors.                                                             *)

Commands == {i \in DOMAIN entries : entries[i].command}

\* Mutant: suppression is forgotten.
MutCandidates == DOMAIN entries \ Commands
Candidates == {i \in DOMAIN entries : ~entries[i].command /\ entries[i].uid \notin held}

\* The last direct entry, else the last that is no edit.
AnchorOf(I) ==
    LET directs == {i \in I : entries[i].direct}
        posts == {i \in I : ~entries[i].edit}
    IN  IF directs # {} THEN {Max(directs)}
        ELSE IF posts # {} THEN {Max(posts)} ELSE {}

GroupOf(I, u) == {i \in I : entries[i].uid = u}

\* Direct ones first, then the latest; the sort is stable and groups are met in the
\* order of their first entries.
Before(I, i, j) ==
    LET first(k) == Min(GroupOf(I, entries[k].uid)) IN
    IF entries[i].direct # entries[j].direct THEN entries[i].direct
    ELSE IF entries[i].ts # entries[j].ts THEN entries[i].ts > entries[j].ts
    ELSE first(i) < first(j)

\* Mutant: direct entries are not counted against the budget.
MutPickMultiAnchorGroups(I) ==
    LET anchors == UNION {AnchorOf(GroupOf(I, u)) : u \in Uids}
    IN  {i \in anchors : \/ entries[i].direct
                         \/ Cardinality({j \in anchors : Before(I, j, i)}) < MultiAnchorMax}

PickMultiAnchorGroups(I) ==
    LET anchors == UNION {AnchorOf(GroupOf(I, u)) : u \in Uids}
    IN  {i \in anchors : Cardinality({j \in anchors : Before(I, j, i)}) < MultiAnchorMax}

Several(I) == MultiAnchor /\ \E i, j \in I : entries[i].uid # entries[j].uid

Select ==
    /\ at = "selecting"
    /\ judged' = Commands \cup (IF Several(Candidates) THEN PickMultiAnchorGroups(Candidates)
                                ELSE AnchorOf(Candidates))
    /\ at' = "judging"
    /\ UNCHANGED <<pending, drained, entries, held, timingVars>>

\* An anchor's gate or heart decides to wait.
JudgedWaits(i) ==
    /\ at = "judging" /\ i \in judged \ Commands
    /\ EnterWaitFor(entries[i].uid)
    /\ UNCHANGED <<pending, at, drained, entries, held, judged>>

EndTurn ==
    /\ at = "judging"
    /\ at' = "idle" /\ drained' = <<>> /\ entries' = <<>> /\ held' = {} /\ judged' = {}
    /\ UNCHANGED <<pending, timingVars>>

BurstNext ==
    \/ \E e \in Entries : Append1(e)
    \/ Drain \/ ReadState \/ Select \/ EndTurn
    \/ \E i \in judged : JudgedWaits(i)
    \/ WaitRunsOut \/ Wakes \/ Stops

BurstSpec == BurstInit /\ [][BurstNext]_burstVars
----------------------------------------------------------------------------
(* Properties.                                                              *)

Anchors == judged \ Commands

\* However the burst was cut and whoever is held, a turn answers a person once, and at
\* most TURN_MULTI_ANCHOR_MAX people (turn.ts 112-114), commands aside.
OneAnswerEach ==
    at = "judging" =>
        /\ Cardinality(Anchors) <= MultiAnchorMax
        /\ \A i, j \in Anchors : entries[i].uid = entries[j].uid => i = j

\* The person who addressed the bot last is not lost in the burst: neither a backlog nor
\* people who write more, nor a wait, keep every addressed entry from being judged.
\* (An addressed command is judged as a command.)
AddressedIsHeard ==
    at = "judging" =>
        LET addressed == {i \in DOMAIN drained : drained[i].direct /\ ~drained[i].replay} IN
        addressed # {} /\ ~drained[Max(addressed)].command => \E i \in Anchors : entries[i].direct

\* A wait is silence towards those it waits for and nobody else: they are not judged
\* unless by a command, and somebody is if anybody else wrote something new.
OnlyWaitersAreSilent ==
    at = "judging" =>
        /\ \A i \in Anchors : entries[i].uid \notin held
        /\ (\E i \in DOMAIN entries :
               ~entries[i].command /\ ~entries[i].edit /\ entries[i].uid \notin held)
            => Anchors # {}

----------------------------------------------------------------------------
(* What comments of the code say and TLC refutes (README, "Disagreements"). *)

\* actor.ts 499-501, chat-runtime.ts 269-271: the anchor of a finished wait gives way to
\* newer real messages and the turn anchors again on those (nobody held, nothing cut).
DisplacedIsReanchored ==
    at = "judging" /\ held = {} /\ Len(entries) < MaxTurnBurst
        /\ (\E i \in DOMAIN drained : drained[i].replay /\ ~drained[i].edit /\ ~drained[i].command)
        /\ (\E i \in DOMAIN drained : ~drained[i].replay)
    => judged # {}

\* actor.ts 584-586, turn.ts 115-117: a wait only holds back those who brought it about.
HeldAreWaitedFor ==
    at = "selecting" /\ timing = "WAIT" /\ PerPerson /\ waiters # {} => held \subseteq asked
=============================================================================
