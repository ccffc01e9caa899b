------------------------------- MODULE NyatDb -------------------------------
(***************************************************************************)
(* The chat log of NyatDB (packages/nyatdb/src/engine.ts, storage/wal.ts,  *)
(* storage/buffer-pool.ts, storage/heap.ts): messages on slotted pages,    *)
(* chained per chat, a free list, a redo log that is fsynced now and then, *)
(* checkpoints, and recovery after a kill or a power loss.  The engine is  *)
(* synchronous: between two steps of a call only an eviction or a crash    *)
(* can happen.  The host uses no other primitive of it.                    *)
(*                                                                         *)
(* Pages are numbered from 1; the super page, which holds the head of the  *)
(* free list, is the variables free and diskFree.  Files keep their names  *)
(* and ENGINE.json its content through a power loss.                       *)
(***************************************************************************)
EXTENDS Integers, Sequences, FiniteSetsExt, SequencesExt

CONSTANTS
    Chats,
    Slots,       \* messages of a page
    Keep,        \* NYATDB_MAX_MESSAGES_PER_CHAT
    SyncEvery,   \* NYATDB_SYNC_EVERY
    MaxMsgs,     \* bound: messages, numbered as they arrive
    MaxTrims,    \* bound
    MaxCheckpoints,  \* bound: checkpoints and restarts
    MaxFaults,   \* bound: kills and power losses
    None

ASSUME NyatDbAssumption ==
    /\ Slots \in Nat \ {0} /\ Keep \in Nat \ {0} /\ SyncEvery \in Nat \ {0}
    /\ MaxMsgs \in Nat /\ MaxTrims \in Nat /\ MaxCheckpoints \in Nat /\ MaxFaults \in Nat
    /\ None \notin Chats

VARIABLES
    page, free, tips,      \* in memory: the pages, the free list, ChatTip per chat
    disk, diskFree,        \* heap.ndb as the system holds it
    safe, safeFree,        \* heap.ndb as of its last fsync
    wal, synced, appends,  \* redo.wal, how much of it is fsynced, appends since then
    nextLsn, ckpt,         \* wal.lsn and checkpointLsn in memory
    meta,                  \* ENGINE.json
    op,                    \* where the running call is
    next,                  \* the number of the next message
    kept,                  \* history: per chat, messages appended and not trimmed
    stable,                \* history: those of them whose record was fsynced
    trims, ckpts, kills, losses

store == <<page, free, tips>>
heap == <<disk, diskFree>>
fsynced == <<safe, safeFree>>
log == <<wal, synced, appends, nextLsn>>
history == <<next, kept, stable>>
counters == <<trims, ckpts, kills, losses>>
vars == <<store, heap, fsynced, log, ckpt, meta, op, history, counters>>

Blank(type) == [type |-> type, chat |-> None, next |-> 0, msgs |-> <<>>]
NoTip == [head |-> 0, tail |-> 0, count |-> 0]
Idle == [at |-> "idle"]

Init ==
    /\ page = <<>> /\ free = 0 /\ tips = [c \in Chats |-> NoTip]
    /\ disk = <<>> /\ diskFree = 0 /\ safe = <<>> /\ safeFree = 0
    /\ wal = <<>> /\ synced = 0 /\ appends = 0 /\ nextLsn = 1 /\ ckpt = 0
    /\ meta = [lsn |-> 1, ckpt |-> 0]
    /\ op = Idle /\ next = 1
    /\ kept = [c \in Chats |-> {}] /\ stable = {}
    /\ trims = 0 /\ ckpts = 0 /\ kills = 0 /\ losses = 0
----------------------------------------------------------------------------
(* Pages.  s is [page, free, tips] in memory.                               *)

Now == [page |-> page, free |-> free, tips |-> tips]
Becomes(s) == page' = s.page /\ free' = s.free /\ tips' = s.tips

IsFull(p) == Len(p.msgs) >= Slots

\* The heap grows at once: a new page is on disk before anything is written on it.
Grown(pages, n, type) == pages \o [i \in 1..(n - Len(pages)) |-> Blank(type)]

\* Mutant: the page that is handed out stays on the free list.
MutAlloc(s) ==
    IF s.free # 0 THEN [s EXCEPT !.page[s.free] = Blank("chat")]
    ELSE [s EXCEPT !.page = Append(@, Blank("chat"))]

\* allocPage: the head of the free list, or a page at the end.
NewPage(s) == IF s.free # 0 THEN s.free ELSE Len(s.page) + 1
Alloc(s) ==
    IF s.free # 0
    THEN [s EXCEPT !.free = s.page[s.free].next, !.page[s.free] = Blank("chat")]
    ELSE [s EXCEPT !.page = Append(@, Blank("chat"))]
AllocFor(s, c) == [Alloc(s) EXCEPT !.page[NewPage(s)].chat = c]

\* Mutant: a freed page forgets the rest of the list.
MutFreePage(s, p) == [s EXCEPT !.page[p] = Blank("free"), !.free = p]

\* freePage: last in, first out.
FreePage(s, p) == [s EXCEPT !.page[p] = [Blank("free") EXCEPT !.next = s.free], !.free = p]

\* The pages from p on, each once.
PathFrom(pages, p) ==
    LET Follow(path) ==
            LET n == pages[Last(path)].next
            IN  IF n = 0 \/ Contains(path, n) THEN path ELSE Append(path, n)
        path[n \in 0..Len(pages)] == IF n = 0 THEN <<p>> ELSE Follow(path[n - 1])
    IN  IF p = 0 THEN <<>> ELSE path[Len(pages)]
Chain(s, c) == PathFrom(s.page, s.tips[c].head)
OnChain(s, c) == FlattenSeq([i \in DOMAIN Chain(s, c) |-> s.page[Chain(s, c)[i]].msgs])

\* LinkChatPage: what the record does, on the first run and in a replay.
Link(s, c, p, prev) ==
    LET labelled == [s EXCEPT !.page[p].type = "chat", !.page[p].chat = c]
        linked == IF prev = 0 THEN labelled ELSE [labelled EXCEPT !.page[prev].next = p]
    IN  [linked EXCEPT !.tips[c].head = IF @ = 0 THEN p ELSE @, !.tips[c].tail = p]

FreeChain(s, c) ==
    LET freed[n \in 0..Len(Chain(s, c))] ==
            IF n = 0 THEN s ELSE FreePage(freed[n - 1], Chain(s, c)[n])
    IN  freed[Len(Chain(s, c))]

\* The kept messages on a fresh chain.
Rewrite(s, c, msgs) ==
    LET first == NewPage(s)
        Put(t, m) ==
            IF ~IsFull(t.page[t.tips[c].tail])
            THEN [t EXCEPT !.page[t.tips[c].tail].msgs = Append(@, m)]
            ELSE LET p == NewPage(t)
                 IN  [AllocFor(t, c) EXCEPT !.page[t.tips[c].tail].next = p,
                                            !.page[p].msgs = <<m>>, !.tips[c].tail = p]
        start == [AllocFor(s, c) EXCEPT !.tips[c] = [head |-> first, tail |-> first,
                                                     count |-> Len(msgs)]]
        written[n \in 0..Len(msgs)] == IF n = 0 THEN start ELSE Put(written[n - 1], msgs[n])
    IN  IF msgs = <<>> THEN [s EXCEPT !.tips[c] = NoTip] ELSE written[Len(msgs)]

LastOf(s, n) == SubSeq(s, Max({0, Len(s) - n}) + 1, Len(s))
Exceeds(s, c) == s.tips[c].count > Keep
\* trimChatLocal.
Trimmed(s, c) ==
    IF ~Exceeds(s, c) THEN s ELSE Rewrite(FreeChain(s, c), c, LastOf(OnChain(s, c), Keep))
----------------------------------------------------------------------------
(* The log.                                                                 *)

Rec(type, c, p, x) == [type |-> type, lsn |-> nextLsn, chat |-> c, page |-> p, arg |-> x]
Torn == [type |-> "torn", lsn |-> 0, chat |-> None, page |-> 0, arg |-> 0]

\* Mutant: the count of unsynced appends is never reset.
MutLogs(r) ==
    /\ wal' = Append(wal, r) /\ nextLsn' = nextLsn + 1
    /\ appends' = appends + 1
    /\ synced' = IF appends' >= SyncEvery THEN Len(wal') ELSE synced

\* append, and an fsync every SyncEvery of them.
Logs(r) ==
    /\ wal' = Append(wal, r) /\ nextLsn' = nextLsn + 1
    /\ IF appends + 1 >= SyncEvery THEN appends' = 0 /\ synced' = Len(wal')
       ELSE appends' = appends + 1 /\ UNCHANGED synced

Everything == UNION {kept[c] : c \in Chats}
\* A trimmed message need not come back.
Stable(all) == stable' = IF synced' = Len(wal') THEN all ELSE stable \cap all
----------------------------------------------------------------------------
(* chatAppend.                                                              *)

\* A chat without a page, or whose tail is full, gets one.
AppendMsg(c) ==
    /\ op = Idle /\ next <= MaxMsgs
    /\ IF tips[c].tail # 0 /\ ~IsFull(page[tips[c].tail])
       THEN op' = [at |-> "insert", chat |-> c] /\ UNCHANGED <<store, heap>>
       ELSE /\ Becomes(AllocFor(Now, c))
            /\ disk' = Grown(disk, Len(page'), "chat")
            /\ op' = [at |-> "link", chat |-> c, page |-> NewPage(Now)]
            /\ UNCHANGED diskFree
    /\ UNCHANGED <<fsynced, log, ckpt, meta, history, counters>>

LinkPage ==
    /\ op.at = "link"
    /\ Logs(Rec("link", op.chat, op.page, tips[op.chat].tail))
    /\ Becomes(Link(Now, op.chat, op.page, tips[op.chat].tail))
    /\ Stable(stable)
    /\ op' = [at |-> "insert", chat |-> op.chat]
    /\ UNCHANGED <<heap, fsynced, ckpt, meta, next, kept, counters>>

\* The page first, the log afterwards.
Insert ==
    /\ op.at = "insert"
    /\ page' = [page EXCEPT ![tips[op.chat].tail].msgs = Append(@, next)]
    /\ op' = [at |-> "logged", chat |-> op.chat]
    /\ UNCHANGED <<free, tips, heap, fsynced, log, ckpt, meta, history, counters>>

LogInsert ==
    /\ op.at = "logged"
    /\ Logs(Rec("insert", op.chat, tips[op.chat].tail, next))
    /\ tips' = [tips EXCEPT ![op.chat].count = @ + 1]
    /\ next' = next + 1
    /\ kept' = [kept EXCEPT ![op.chat] = @ \cup {next}]
    /\ Stable(Everything \cup {next})
    /\ op' = Idle
    /\ UNCHANGED <<page, free, heap, fsynced, ckpt, meta, counters>>
----------------------------------------------------------------------------
(* chatTrimKeepLast.                                                        *)

LogTrim(c) ==
    /\ op = Idle /\ trims < MaxTrims /\ tips[c] # NoTip
    /\ trims' = trims + 1
    /\ Logs(Rec("trim", c, 0, Keep))
    /\ Stable(stable)
    /\ op' = IF Exceeds(Now, c) THEN [at |-> "free", chat |-> c] ELSE Idle
    /\ UNCHANGED <<store, heap, fsynced, ckpt, meta, next, kept, ckpts, kills, losses>>

FreeOld ==
    /\ op.at = "free"
    /\ Becomes(FreeChain(Now, op.chat))
    /\ op' = [at |-> "rewrite", chat |-> op.chat, msgs |-> LastOf(OnChain(Now, op.chat), Keep)]
    /\ UNCHANGED <<heap, fsynced, log, ckpt, meta, history, counters>>

RewriteKept ==
    /\ op.at = "rewrite"
    /\ Becomes(Rewrite(Now, op.chat, op.msgs))
    /\ disk' = Grown(disk, Len(page'), "chat")
    /\ kept' = [kept EXCEPT ![op.chat] = ToSet(op.msgs)]
    /\ stable' = stable \ (kept[op.chat] \ ToSet(op.msgs))
    /\ op' = Idle
    /\ UNCHANGED <<diskFree, fsynced, log, ckpt, meta, next, counters>>
----------------------------------------------------------------------------
(* The buffer pool, checkpoints, close.                                     *)

\* evictIfNeeded writes a dirty page whenever it wants the frame; nothing fsyncs the
\* log first.
EvictPage(p) ==
    /\ op.at # "down" /\ page[p] # disk[p]
    /\ disk' = [disk EXCEPT ![p] = page[p]]
    /\ UNCHANGED <<store, diskFree, fsynced, log, ckpt, meta, op, history, counters>>

EvictSuper ==
    /\ op.at # "down" /\ free # diskFree /\ diskFree' = free
    /\ UNCHANGED <<store, disk, fsynced, log, ckpt, meta, op, history, counters>>

\* Mutant: the heap is written but not fsynced.
MutCheckpoint(then) ==
    /\ op = Idle /\ ckpts < MaxCheckpoints
    /\ ckpts' = ckpts + 1
    /\ disk' = page /\ diskFree' = free
    /\ wal' = Append(wal, Rec("checkpoint", None, 0, 0)) /\ synced' = Len(wal')
    /\ nextLsn' = nextLsn + 1 /\ ckpt' = nextLsn + 1
    /\ appends' = IF appends + 1 >= SyncEvery THEN 0 ELSE appends + 1
    /\ stable' = Everything
    /\ op' = [at |-> "meta", then |-> then]
    /\ UNCHANGED <<store, fsynced, meta, next, kept, trims, kills, losses>>

\* flushAll, the fsync of the heap, the record and its fsync.
Checkpoint(then) ==
    /\ op = Idle /\ ckpts < MaxCheckpoints
    /\ ckpts' = ckpts + 1
    /\ disk' = page /\ diskFree' = free /\ safe' = page /\ safeFree' = free
    /\ wal' = Append(wal, Rec("checkpoint", None, 0, 0)) /\ synced' = Len(wal')
    /\ nextLsn' = nextLsn + 1 /\ ckpt' = nextLsn + 1
    /\ appends' = IF appends + 1 >= SyncEvery THEN 0 ELSE appends + 1
    /\ stable' = Everything
    /\ op' = [at |-> "meta", then |-> then]
    /\ UNCHANGED <<store, meta, next, kept, trims, kills, losses>>

PersistMeta ==
    /\ op.at = "meta"
    /\ meta' = [lsn |-> nextLsn, ckpt |-> ckpt]
    /\ op' = [op EXCEPT !.at = "rotate"]
    /\ UNCHANGED <<store, heap, fsynced, log, ckpt, history, counters>>

\* rotate: the old log is gone with one rename.
Rotate ==
    /\ op.at = "rotate"
    /\ wal' = <<>> /\ synced' = 0
    /\ op' = [at |-> op.then]
    /\ UNCHANGED <<store, heap, fsynced, appends, nextLsn, ckpt, meta, history, counters>>
----------------------------------------------------------------------------
(* Opening.                                                                 *)

PagesOf(pages, c) == {p \in DOMAIN pages : pages[p].type = "chat" /\ pages[p].chat = c}

\* rebuildFromHeap: the pages that carry the same chat are chained in the order of
\* their numbers; a page nobody labelled carries chat 0, here None.
Relinked(pages) ==
    [p \in DOMAIN pages |->
       IF pages[p].type # "chat" THEN pages[p]
       ELSE LET later == {q \in PagesOf(pages, pages[p].chat) : q > p}
            IN  [pages[p] EXCEPT !.next = IF later = {} THEN 0 ELSE Min(later)]]

TipOf(pages, c) ==
    LET ids == PagesOf(pages, c)
        slots == UNION {{p} \X DOMAIN pages[p].msgs : p \in ids}
    IN  IF ids = {} THEN NoTip
        ELSE [head |-> Min(ids), tail |-> Max(ids), count |-> Cardinality(slots)]

\* The redo of an insert: a free or empty page becomes the chat's, and a message that
\* is not there yet is added if there is room.  The tip's count stays.
Reinsert(s, r) ==
    LET p == r.page
        t == [s EXCEPT !.page = Grown(@, p, "free")]
        old == t.page[p]
        owned == IF old.type = "free" \/ old.msgs = <<>>
                 THEN [old EXCEPT !.type = "chat", !.chat = r.chat] ELSE old
    IN  [t EXCEPT !.page[p] = IF Contains(owned.msgs, r.arg) \/ IsFull(owned) THEN owned
                              ELSE [owned EXCEPT !.msgs = Append(@, r.arg)]]

\* Mutant: the first record after a checkpoint is skipped too.
MutRedo(s, r) ==
    IF r.lsn <= s.ckpt THEN s
    ELSE CASE r.type = "link" ->
                Link([s EXCEPT !.page = Grown(@, r.page, "free")], r.chat, r.page, r.arg)
           [] r.type = "insert" -> Reinsert(s, r)
           [] r.type = "trim" -> Trimmed(s, r.chat)
           [] r.type = "checkpoint" -> [s EXCEPT !.ckpt = r.lsn + 1]

\* applyWal in a replay: older records than the checkpoint are skipped, and a
\* checkpoint record moves that point.
Redo(s, r) ==
    IF r.lsn < s.ckpt THEN s
    ELSE CASE r.type = "link" ->
                Link([s EXCEPT !.page = Grown(@, r.page, "free")], r.chat, r.page, r.arg)
           [] r.type = "insert" -> Reinsert(s, r)
           [] r.type = "trim" -> Trimmed(s, r.chat)
           [] r.type = "checkpoint" -> [s EXCEPT !.ckpt = r.lsn + 1]

\* A replay stops at the first frame it cannot read.
Readable(records) ==
    LET torn == {i \in DOMAIN records : records[i] = Torn}
    IN  IF torn = {} THEN records ELSE SubSeq(records, 1, Min(torn) - 1)

Replay(s, records) ==
    LET after[n \in 0..Len(records)] == IF n = 0 THEN s ELSE Redo(after[n - 1], records[n])
    IN  after[Len(records)]

\* open: tips from the heap, then the log.  New records start at the number in
\* ENGINE.json, whatever the log holds.
Open ==
    /\ op.at = "down"
    /\ LET fromHeap == [page |-> Relinked(disk), free |-> diskFree,
                        tips |-> [c \in Chats |-> TipOf(disk, c)], ckpt |-> meta.ckpt]
           s == Replay(fromHeap, Readable(wal))
       IN  Becomes(s) /\ ckpt' = s.ckpt /\ disk' = Grown(disk, Len(s.page), "free")
    /\ nextLsn' = meta.lsn /\ appends' = 0
    /\ op' = Idle
    /\ UNCHANGED <<diskFree, fsynced, wal, synced, meta, history, counters>>

\* The numbers of messages nobody was told of are used for the next ones.
Dies ==
    /\ op.at # "down"
    /\ op' = [at |-> "down"]
    /\ page' = <<>> /\ free' = 0 /\ tips' = [c \in Chats |-> NoTip]
    /\ next' = IF op.at = "logged" THEN next + 1 ELSE next

\* The process is killed: what it wrote is in the files.
Kill ==
    /\ kills + losses < MaxFaults /\ kills' = kills + 1
    /\ Dies
    /\ UNCHANGED <<heap, fsynced, log, ckpt, meta, kept, stable, trims, ckpts, losses>>

\* The machine stops: unsynced records may be lost, and the first of them may leave a torn
\* frame; the file may be shorter, and a page may be as it was at the last fsync, or as
\* it was appended.
PowerLoss ==
    /\ kills + losses < MaxFaults /\ losses' = losses + 1
    /\ Dies
    /\ \E n \in synced..Len(wal) :
          wal' \in {SubSeq(wal, 1, n)} \cup (IF n < Len(wal) THEN {Append(SubSeq(wal, 1, n), Torn)} ELSE {})
    /\ synced' = Len(wal')
    /\ \E n \in Len(safe)..Len(disk) : \E lost \in SUBSET (1..n) :
          disk' = [p \in 1..n |-> IF p \notin lost THEN disk[p]
                                  ELSE IF p <= Len(safe) THEN safe[p] ELSE Blank("chat")]
    /\ diskFree' \in {diskFree, safeFree}
    /\ safe' = disk' /\ safeFree' = diskFree'
    /\ kept' = [c \in Chats |-> kept[c] \cap stable]
    /\ UNCHANGED <<appends, nextLsn, ckpt, meta, stable, trims, ckpts, kills>>
----------------------------------------------------------------------------
Next ==
    \/ \E c \in Chats : AppendMsg(c) \/ LogTrim(c)
    \/ LinkPage \/ Insert \/ LogInsert \/ FreeOld \/ RewriteKept
    \/ \E p \in DOMAIN page : EvictPage(p)
    \/ EvictSuper
    \/ \E then \in {"idle", "down"} : Checkpoint(then)
    \/ PersistMeta \/ Rotate \/ Open \/ Kill \/ PowerLoss

Spec == Init /\ [][Next]_vars
----------------------------------------------------------------------------
Up == op.at # "down"
FreeList == PathFrom(page, free)
\* What a chat's history shows, and what chatGet finds by its number.
Read(c) == ToSet(OnChain(Now, c))
Found(c) == UNION {ToSet(page[p].msgs) : p \in PagesOf(page, c)}

\* Every variable has its type.
TypeOK ==
    /\ page \in Seq([type : {"chat", "free"}, chat : Chats \cup {None}, next : 0..Len(page),
                     msgs : Seq(1..MaxMsgs)])
    /\ Up => Len(disk) = Len(page)
    /\ free \in 0..Len(page) /\ diskFree \in Nat
    /\ \A c \in Chats : tips[c].head \in 0..Len(page) /\ tips[c].tail \in 0..Len(page)
    /\ synced \in 0..Len(wal) /\ appends \in 0..(SyncEvery - 1)
    /\ next \in 1..(MaxMsgs + 1)

\* While nothing fails, through trims, evictions, checkpoints and restarts, a chat reads
\* back its messages, each once, and no page is in two chains or both free and in use.
CleanIsExact ==
    kills + losses = 0 /\ op = Idle =>
      /\ \A c \in Chats : /\ Read(c) = kept[c]
                           /\ Len(OnChain(Now, c)) = Cardinality(kept[c])
                           /\ tips[c].count = Cardinality(kept[c])
      /\ \A p \in DOMAIN page :
            Cardinality({c \in Chats : Contains(Chain(Now, c), p)})
              + (IF Contains(FreeList, p) THEN 1 ELSE 0) = 1

\* One crash of a log that was never trimmed: see README for what a second crash or a
\* trim changes.
OneCrash == trims = 0 /\ kills + losses <= 1

\* A kill loses no message that was appended, whatever was evicted and wherever a
\* checkpoint stood.
KillKeepsAppends ==
    OneCrash /\ losses = 0 /\ op = Idle => \A c \in Chats : kept[c] \subseteq Found(c)

\* A power loss loses no message whose record was fsynced.
SyncedSurvives == OneCrash /\ op = Idle => \A c \in Chats : kept[c] \cap stable \subseteq Found(c)

\* Nobody finds a message of another chat in a chat.
FoundIsOwn ==
    op = Idle /\ (OneCrash \/ kills + losses = 0) =>
      \A c, d \in Chats : c # d => Found(c) \cap kept[d] = {}

-----------------------------------------------------------------------------
(* What comments of the code say and TLC refutes (README, "Disagreements"). *)

\* engine.ts:191, "rebuild chains properly", after a kill: a chat's history shows
\* no message of another chat.
ReadIsOwn == op = Idle => \A c, d \in Chats : c # d => Read(c) \cap kept[d] = {}

\* engine.ts:668: "Keep only the last `keep` messages for a chat; free older pages."
TrimKeepsNewest ==
    [][op.at = "rewrite" /\ op'.at = "idle" =>
         \A m \in kept[op.chat] \ kept'[op.chat], n \in kept'[op.chat] : m < n]_vars
=============================================================================
