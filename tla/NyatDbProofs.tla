---------------------------- MODULE NyatDbProofs ----------------------------
(***************************************************************************)
(* Proofs about NyatDb, for any chats, page size, trim length, sync        *)
(* interval and number of messages.                                        *)
(***************************************************************************)
EXTENDS NyatDb, FiniteSetTheorems, NaturalsInduction, WellFoundedInduction, SequenceTheorems, TLAPS

(* What the proofs are about.                                               *)

Messages == 1..MaxMsgs
Pages == [type : {"chat", "free"}, chat : Chats \cup {None}, next : Nat, msgs : Seq(Messages)]
Tips == [head : Nat, tail : Nat, count : Nat]
Records == [type : {"link", "insert", "trim", "checkpoint", "torn"}, lsn : Nat,
            chat : Chats \cup {None}, page : Nat, arg : Nat]
Calls == [at : {"idle", "down"}] \cup [at : {"insert", "logged", "free"}, chat : Chats]
         \cup [at : {"link"}, chat : Chats, page : Nat \ {0}]
         \cup [at : {"rewrite"}, chat : Chats, msgs : Seq(Messages)]
         \cup [at : {"meta", "rotate"}, then : {"idle", "down"}]

\* No message is twice on a page.
Distinct(msgs) == \A i, j \in DOMAIN msgs : msgs[i] = msgs[j] => i = j

\* A page that holds messages is a chat's.
Image(q) ==
    /\ Distinct(q.msgs) /\ Len(q.msgs) <= Slots
    /\ q.chat = None => q.msgs = <<>>
    /\ q.chat # None => q.type = "chat"

\* q may be an older image of the page r, or one that was never labelled.
Older(q, r) == Image(q) /\ q.chat \in {None, r.chat} /\ ToSet(q.msgs) \subseteq ToSet(r.msgs)

OnPage(pages, c, m) == \E p \in PagesOf(pages, c) : m \in ToSet(pages[p].msgs)
\* One of the first n records, which a replay from this checkpoint takes.
InLog(w, n, c, m) ==
    \E i \in 1..n : w[i].type = "insert" /\ w[i].chat = c /\ w[i].arg = m /\ w[i].lsn >= meta.ckpt

\* The messages on these pages are kept by the chats the pages carry, and by no other.
Owned(pages) ==
    \A p \in DOMAIN pages : \A m \in ToSet(pages[p].msgs) :
       /\ \A c \in Chats : m \in kept[c] => pages[p].chat = c
       /\ m <= next /\ (m = next => op.at = "logged" /\ pages[p].chat = op.chat)

Images(pages) == \A p \in DOMAIN pages : Image(pages[p])
\* The pages a may be older images of the first of the pages b.
Lags(a, b) == Len(a) <= Len(b) /\ \A p \in DOMAIN a : Older(a[p], b[p])

\* The records w are about the pages P, in the order of their numbers.
About(P, w) ==
    \A i \in DOMAIN w :
       /\ w[i].type \in {"link", "insert", "checkpoint"}
       /\ w[i].type # "checkpoint" =>
             w[i].page \in DOMAIN P /\ w[i].chat \in Chats /\ w[i].chat = P[w[i].page].chat
       /\ w[i].type = "insert" => w[i].arg \in ToSet(P[w[i].page].msgs)
Ordered(w) == \A i, j \in DOMAIN w : i < j => w[i].lsn < w[j].lsn
Speaks(P, w) == Images(P) /\ About(P, w) /\ Ordered(w)

\* What was kept of these messages is on the pages, or in the first n records.
Covered(pages, w, n, msgs) ==
    \A c \in Chats : \A m \in kept[c] \cap msgs : OnPage(pages, c, m) \/ InLog(w, n, c, m)

\* From the heap and the records w, a replay finds again what was kept, when P is what was
\* in memory before.
Recoverable(P, w) == Speaks(P, w) /\ Owned(P) /\ Lags(disk, P) /\ Covered(disk, w, Len(w), Messages)

AllChat(pages) == \A p \in DOMAIN pages : pages[p].type = "chat"

\* Page numbers point into the file.
InRange(pages, ts) ==
    /\ \A p \in DOMAIN pages : pages[p].next <= Len(pages)
    /\ \A c \in Chats : ts[c].head <= Len(pages) /\ ts[c].tail <= Len(pages)

\* Before any crash: the heap on the device lags behind what the system holds, and that
\* behind the memory, and the log makes up for both.
Durable ==
    /\ Recoverable(page, wal)
    /\ Lags(safe, disk)
    /\ Covered(safe, wal, Len(wal), Messages) /\ Covered(safe, wal, synced, stable)
    /\ \A m \in stable : m < next
    /\ \A i \in DOMAIN wal : wal[i].lsn < nextLsn
    /\ meta.ckpt <= nextLsn /\ meta.ckpt <= meta.lsn
    /\ op.at = "meta" => ckpt = nextLsn
    /\ op.at \in {"meta", "rotate"} => safe = page
    /\ ~Up => wal = <<>>
    /\ AllChat(page) /\ AllChat(disk) /\ AllChat(safe)

\* In memory every kept message is found.
Memory ==
    /\ Images(page)
    /\ Owned(page)
    /\ Len(disk) = Len(page)
    /\ \A c \in Chats : tips[c].tail # 0 => tips[c].tail \in PagesOf(page, c)
    /\ op.at = "link" => /\ op.page \in PagesOf(page, op.chat) /\ page[op.page].msgs = <<>>
    /\ op.at \in {"insert", "logged"} => tips[op.chat].tail # 0
    /\ op.at = "insert" => ~IsFull(page[tips[op.chat].tail])
    /\ op.at = "logged" => next \in ToSet(page[tips[op.chat].tail].msgs)
    /\ \A c \in Chats : \A m \in kept[c] : OnPage(page, c, m)
    /\ op.at \in {"meta", "rotate"} => disk = page

\* Nothing was ever freed.
Untrimmed ==
    /\ free = 0 /\ diskFree = 0 /\ safeFree = 0
    /\ op.at \notin {"free", "rewrite"}

Typed ==
    /\ page \in Seq(Pages) /\ disk \in Seq(Pages) /\ safe \in Seq(Pages)
    /\ free \in Nat /\ diskFree \in Nat /\ safeFree \in Nat
    /\ tips \in [Chats -> Tips]
    /\ wal \in Seq(Records) /\ synced \in 0..Len(wal) /\ appends \in 0..(SyncEvery - 1)
    /\ nextLsn \in Nat /\ ckpt \in Nat /\ meta \in [lsn : Nat, ckpt : Nat]
    /\ op \in Calls
    /\ next \in 1..(MaxMsgs + 1) /\ (op.at \in {"link", "insert", "logged"} => next <= MaxMsgs)
    /\ kept \in [Chats -> SUBSET Messages] /\ stable \subseteq Messages
    /\ trims \in Nat /\ ckpts \in Nat /\ kills \in Nat /\ losses \in Nat

\* What open finds: a heap and a log from which a replay finds again what was kept.
Restorable ==
    /\ \E P \in Seq(Pages) : Recoverable(P, Readable(wal))
    /\ \A p \in DOMAIN disk : disk[p].type = "free" => disk[p].next <= Len(disk)

Counted == trims \in Nat /\ ckpts \in Nat /\ kills \in Nat /\ losses \in Nat

\* The inductive invariant of a log that was never trimmed, up to the second crash.
CrashInv ==
    /\ Counted
    /\ OneCrash =>
      /\ Typed
      /\ Untrimmed /\ InRange(page, tips)
      /\ Up => Memory
      /\ kills + losses = 0 => Durable
      /\ ~Up => Restorable
----------------------------------------------------------------------------
(* What a log without faults keeps.                                         *)

FreePages(pages) == {p \in DOMAIN pages : pages[p].type = "free"}

\* From h on, the links lead through each of the pages S once.
IsList(pages, h, S) ==
    /\ IF S = {} THEN h = 0 ELSE h \in S
    /\ \A p \in S : pages[p].next \in S \cup {0}
    /\ \A q \in S \ {h} : \E p \in S : pages[p].next = q
    /\ \E r \in [S -> Nat] : \A p \in S : pages[p].next # 0 => r[p] < r[pages[p].next]

IsChain(pages, tip, S) ==
    /\ IsList(pages, tip.head, S)
    /\ IF S = {} THEN tip.tail = 0 ELSE tip.tail \in S /\ pages[tip.tail].next = 0

\* The free pages are the free list, and a chat's pages its chain but for X, which no
\* chain has yet.
Tidy(pages, f, ts, X) ==
    /\ \A p \in DOMAIN pages : IF pages[p].type = "free" THEN pages[p].msgs = <<>> ELSE pages[p].chat \in Chats
    /\ \A p \in X : p \in DOMAIN pages /\ pages[p].type = "chat" /\ pages[p].next = 0
    /\ IsList(pages, f, FreePages(pages))
    /\ \A c \in Chats : IsChain(pages, ts[c], PagesOf(pages, c) \ X)

\* The messages K[c] are once each on the pages of c, and no others are.
Holds(pages, K) ==
    /\ \A p \in DOMAIN pages : Distinct(pages[p].msgs)
    /\ \A p, q \in DOMAIN pages : p = q \/ ToSet(pages[p].msgs) \cap ToSet(pages[q].msgs) = {}
    /\ \A c \in Chats : \A m \in Messages : m \in K[c] <=> OnPage(pages, c, m)

\* Between the two halves of a trim a chat has no pages; a new page is not on its chain
\* before the link is logged, and a message is not counted before it is logged.
Chains == IF op.at = "rewrite" THEN [tips EXCEPT ![op.chat] = NoTip] ELSE tips
Loose == IF op.at = "link" THEN {op.page} ELSE {}
Held == CASE op.at = "rewrite" -> [kept EXCEPT ![op.chat] = {}]
          [] op.at = "logged" -> [kept EXCEPT ![op.chat] = @ \cup {next}]
          [] OTHER -> kept

Exact ==
    /\ Tidy(page, free, Chains, Loose)
    /\ Holds(page, Held)
    /\ \A c \in Chats : \A m \in kept[c] : m < next
    /\ \A c \in Chats : tips[c].count = Cardinality(kept[c]) \/ (op.at = "rewrite" /\ op.chat = c)
    /\ Up => Len(disk) = Len(page)
    /\ op.at \in {"meta", "rotate", "down"} => disk = page /\ diskFree = free
    /\ ~Up => wal = <<>>
    /\ op.at = "link" => op.page \in PagesOf(page, op.chat) /\ page[op.page].msgs = <<>>
    /\ op.at \in {"insert", "logged"} => tips[op.chat].tail # 0
    /\ op.at = "rewrite" =>
          /\ Distinct(op.msgs) /\ ToSet(op.msgs) \subseteq kept[op.chat]
          /\ \A p \in DOMAIN page : ToSet(page[p].msgs) \cap ToSet(op.msgs) = {}
          /\ tips[op.chat].head <= Len(page) /\ tips[op.chat].tail <= Len(page)

\* The inductive invariant of a log without faults.
CleanInv == Counted /\ (kills + losses = 0 => Typed /\ Exact)
----------------------------------------------------------------------------
(* Least and greatest numbers.                                              *)

\* The induction by which facts about a recursive function are proved.
LEMMA LeastNumber ==
  ASSUME NEW T, T \subseteq Nat, T # {}
  PROVE  \E x \in T : \A y \in T : x <= y
<1> DEFINE Less == {p \in Nat \X Nat : p[1] < p[2]}
<1>1. Less = OpToRel(<, Nat)
  BY Zenon DEF OpToRel
<1>2. IsWellFoundedOn(Less, Nat)
  BY <1>1, NatLessThanWellFounded, Zenon
<1>3. \A x, y \in Nat : y < x => <<y, x>> \in Less
  OBVIOUS
<1> HIDE DEF Less
<1>4. PICK x \in T : \A y \in T : <<y, x>> \notin Less
  BY <1>2, WFMin
<1>5. ASSUME NEW y \in T PROVE x <= y
  <2>1. x \in Nat /\ y \in Nat
    BY <1>4
  <2>2. ~ (y < x)
    BY <1>3, <1>4, <2>1
  <2> QED
    BY <2>1, <2>2
<1> QED
  BY <1>4, <1>5

LEMMA MinIs ==
  ASSUME NEW S, S \subseteq Nat, S # {}
  PROVE  Min(S) \in S /\ \A y \in S : Min(S) <= y
<1>1. PICK x \in S : \A y \in S : x <= y
  BY LeastNumber
<1> QED
  BY <1>1 DEF Min

LEMMA MaxIs ==
  ASSUME NEW n \in Nat, NEW S, S \subseteq 0..n, S # {}
  PROVE  Max(S) \in S /\ \A y \in S : Max(S) >= y
<1> DEFINE T == {n - x : x \in S}
<1>1. T \subseteq Nat /\ T # {}
  <2>1. \A x \in S : n - x \in Nat
    OBVIOUS
  <2> QED
    BY <2>1
<1>2. PICK t \in T : \A y \in T : t <= y
  <2> HIDE DEF T
  <2> QED
    BY <1>1, LeastNumber
<1>3. PICK x \in S : t = n - x
  BY <1>2
<1>4. \A y \in S : n - x <= n - y
  BY <1>2, <1>3
<1>5. \A y \in S : x >= y
  BY <1>4
<1> QED
  BY <1>5 DEF Max

(* Pages.                                                                   *)

LEMMA SlotsIs == Slots \in Nat \ {0} /\ Keep \in Nat \ {0} /\ SyncEvery \in Nat \ {0}
                 /\ MaxMsgs \in Nat /\ None \notin Chats
  BY NyatDbAssumption DEF NyatDbAssumption

LEMMA BlankIs ==
  ASSUME NEW type \in {"chat", "free"}
  PROVE  Blank(type) \in Pages /\ Image(Blank(type))
<1>1. Blank(type) \in Pages
  BY DEF Blank, Pages, Messages
<1>2. Distinct(<<>>) /\ Len(<<>>) = 0
  BY DEF Distinct
<1> QED
  BY <1>1, <1>2, SlotsIs DEF Blank, Image

LEMMA GrownIs ==
  ASSUME NEW pages \in Seq(Pages), NEW n \in Nat, NEW type \in {"chat", "free"}
  PROVE  /\ Grown(pages, n, type) \in Seq(Pages)
         /\ Len(Grown(pages, n, type)) = IF n > Len(pages) THEN n ELSE Len(pages)
         /\ DOMAIN Grown(pages, n, type) = 1..Len(Grown(pages, n, type))
         /\ \A p \in DOMAIN Grown(pages, n, type) :
               Grown(pages, n, type)[p] = IF p <= Len(pages) THEN pages[p] ELSE Blank(type)
<1> DEFINE new == [i \in 1..(n - Len(pages)) |-> Blank(type)]
<1>1. Blank(type) \in Pages
  BY BlankIs
<1>2. CASE n > Len(pages)
  <2>1. n - Len(pages) \in Nat
    BY <1>2
  <2>2. new \in Seq(Pages) /\ Len(new) = n - Len(pages)
    BY <2>1, <1>1
  <2>3. \A i \in 1..(n - Len(pages)) : new[i] = Blank(type)
    OBVIOUS
  <2> HIDE DEF new
  <2>4. /\ pages \o new \in Seq(Pages) /\ Len(pages \o new) = n
        /\ \A p \in 1..n : (pages \o new)[p] = IF p <= Len(pages) THEN pages[p] ELSE new[p - Len(pages)]
    BY <1>2, <2>1, <2>2
  <2>5. Grown(pages, n, type) = pages \o new
    BY DEF Grown, new
  <2> QED
    BY <1>2, <2>1, <2>3, <2>4, <2>5
<1>3. CASE n <= Len(pages)
  <2>1. 1..(n - Len(pages)) = {}
    BY <1>3
  <2>2. new = <<>>
    BY <2>1
  <2>3. Grown(pages, n, type) = pages
    <3>1. Grown(pages, n, type) = pages \o <<>>
      BY <2>2 DEF Grown
    <3> QED
      BY <3>1, ConcatEmptySeq
  <2> QED
    BY <1>3, <2>3
<1> QED
  BY <1>2, <1>3

LEMMA AppendIs ==
  ASSUME NEW S, NEW s \in Seq(S), NEW x \in S
  PROVE  /\ Append(s, x) \in Seq(S) /\ Len(Append(s, x)) = Len(s) + 1
         /\ DOMAIN Append(s, x) = 1..(Len(s) + 1) /\ DOMAIN s = 1..Len(s)
         /\ \A i \in DOMAIN s : Append(s, x)[i] = s[i]
         /\ Append(s, x)[Len(s) + 1] = x
         /\ ToSet(Append(s, x)) = ToSet(s) \cup {x}
<1>1. /\ Append(s, x) \in Seq(S) /\ Len(Append(s, x)) = Len(s) + 1
      /\ DOMAIN Append(s, x) = 1..(Len(s) + 1) /\ DOMAIN s = 1..Len(s)
      /\ \A i \in DOMAIN s : Append(s, x)[i] = s[i]
      /\ Append(s, x)[Len(s) + 1] = x
  OBVIOUS
<1>2. ASSUME NEW y \in ToSet(Append(s, x)) PROVE y \in ToSet(s) \cup {x}
  <2>1. PICK i \in 1..(Len(s) + 1) : y = Append(s, x)[i]
    BY <1>1, <1>2 DEF ToSet
  <2>2. i \in DOMAIN s \/ i = Len(s) + 1
    BY <1>1
  <2> QED
    BY <1>1, <2>1, <2>2 DEF ToSet
<1>3. ASSUME NEW y \in ToSet(s) PROVE y \in ToSet(Append(s, x))
  <2>1. PICK i \in DOMAIN s : y = s[i]
    BY <1>3 DEF ToSet
  <2>2. i \in DOMAIN Append(s, x) /\ y = Append(s, x)[i]
    BY <1>1, <2>1
  <2> QED
    BY <2>2 DEF ToSet
<1>4. x \in ToSet(Append(s, x))
  <2>1. Len(s) + 1 \in DOMAIN Append(s, x)
    BY <1>1
  <2> QED
    BY <1>1, <2>1 DEF ToSet
<1> QED
  BY <1>1, <1>2, <1>3, <1>4

LEMMA DistinctAppend ==
  ASSUME NEW S, NEW s \in Seq(S), NEW x \in S, Distinct(s), x \notin ToSet(s)
  PROVE  Distinct(Append(s, x))
<1>1. /\ DOMAIN Append(s, x) = 1..(Len(s) + 1) /\ DOMAIN s = 1..Len(s)
      /\ \A i \in DOMAIN s : Append(s, x)[i] = s[i]
      /\ Append(s, x)[Len(s) + 1] = x
  BY AppendIs
<1>2. \A i \in DOMAIN s : s[i] # x
  BY DEF ToSet
<1>3. SUFFICES ASSUME NEW i \in 1..(Len(s) + 1), NEW j \in 1..(Len(s) + 1),
                      Append(s, x)[i] = Append(s, x)[j]
               PROVE  i = j
  BY <1>1 DEF Distinct
<1>4. (i \in DOMAIN s \/ i = Len(s) + 1) /\ (j \in DOMAIN s \/ j = Len(s) + 1)
  BY <1>1
<1> QED
  BY <1>1, <1>2, <1>3, <1>4 DEF Distinct

\* A sequence without repetitions is as long as its set is large.
LEMMA DistinctLen ==
  ASSUME NEW S, NEW s \in Seq(S), Distinct(s)
  PROVE  IsFiniteSet(ToSet(s)) /\ Cardinality(ToSet(s)) = Len(s)
<1>1. DOMAIN s = 1..Len(s) /\ Len(s) \in Nat
  OBVIOUS
<1> DEFINE f == [i \in 1..Len(s) |-> s[i]]
<1>2. f \in Bijection(1..Len(s), ToSet(s))
  BY <1>1 DEF Distinct, ToSet, Bijection, Injection, Surjection, IsInjective
<1>3. IsFiniteSet(1..Len(s)) /\ Cardinality(1..Len(s)) = Len(s)
  <2>1. Cardinality(1..Len(s)) = IF 1 > Len(s) THEN 0 ELSE Len(s) - 1 + 1
    BY <1>1, FS_Interval
  <2> QED
    BY <1>1, <2>1, FS_Interval
<1> QED
  BY <1>2, <1>3, FS_Bijection DEF ExistsBijection

\* A full page of a replay holds everything the page ever held.
LEMMA FullHasAll ==
  ASSUME NEW s \in Seq(Messages), NEW t \in Seq(Messages), Distinct(s), Distinct(t),
         ToSet(s) \subseteq ToSet(t), Len(t) <= Slots, Len(s) >= Slots
  PROVE  ToSet(s) = ToSet(t)
<1>1. /\ IsFiniteSet(ToSet(s)) /\ Cardinality(ToSet(s)) = Len(s)
      /\ IsFiniteSet(ToSet(t)) /\ Cardinality(ToSet(t)) = Len(t)
  BY DistinctLen
<1>2. Len(s) \in Nat /\ Len(t) \in Nat /\ Slots \in Nat
  BY SlotsIs
<1> QED
  BY <1>1, <1>2, FS_Subset

(* The steps of a replay.                                                   *)

Stores == [page : Seq(Pages), free : Nat, tips : [Chats -> Tips]]
Replays == [page : Seq(Pages), free : Nat, tips : [Chats -> Tips], ckpt : Nat]

LEMMA PageIs ==
  ASSUME NEW r \in Pages
  PROVE  /\ r = [type |-> r.type, chat |-> r.chat, next |-> r.next, msgs |-> r.msgs]
         /\ r.type \in {"chat", "free"} /\ r.chat \in Chats \cup {None} /\ r.next \in Nat
         /\ r.msgs \in Seq(Messages)
  BY DEF Pages

LEMMA PageFields ==
  ASSUME NEW t \in {"chat", "free"}, NEW c \in Chats \cup {None}, NEW n \in Nat, NEW ms \in Seq(Messages)
  PROVE  [type |-> t, chat |-> c, next |-> n, msgs |-> ms] \in Pages
  BY DEF Pages

LEMMA SetNext ==
  ASSUME NEW r \in Pages, NEW n \in Nat
  PROVE  /\ [r EXCEPT !.next = n] = [type |-> r.type, chat |-> r.chat, next |-> n, msgs |-> r.msgs]
         /\ [r EXCEPT !.next = n] \in Pages
<1>1. [r EXCEPT !.next = n] = [type |-> r.type, chat |-> r.chat, next |-> n, msgs |-> r.msgs]
  BY DEF Pages
<1>2. /\ r.type \in {"chat", "free"} /\ r.chat \in Chats \cup {None} /\ r.next \in Nat
      /\ r.msgs \in Seq(Messages)
  BY PageIs
<1> QED
  BY <1>1, <1>2, PageFields

LEMMA SetMsgs ==
  ASSUME NEW r \in Pages, NEW ms \in Seq(Messages)
  PROVE  /\ [r EXCEPT !.msgs = ms] = [type |-> r.type, chat |-> r.chat, next |-> r.next, msgs |-> ms]
         /\ [r EXCEPT !.msgs = ms] \in Pages
<1>1. [r EXCEPT !.msgs = ms] = [type |-> r.type, chat |-> r.chat, next |-> r.next, msgs |-> ms]
  BY DEF Pages
<1>2. /\ r.type \in {"chat", "free"} /\ r.chat \in Chats \cup {None} /\ r.next \in Nat
      /\ r.msgs \in Seq(Messages)
  BY PageIs
<1> QED
  BY <1>1, <1>2, PageFields

LEMMA SetChat ==
  ASSUME NEW r \in Pages, NEW c \in Chats
  PROVE  /\ [r EXCEPT !.chat = c] = [type |-> r.type, chat |-> c, next |-> r.next, msgs |-> r.msgs]
         /\ [r EXCEPT !.chat = c] \in Pages
<1>1. [r EXCEPT !.chat = c] = [type |-> r.type, chat |-> c, next |-> r.next, msgs |-> r.msgs]
  BY DEF Pages
<1>2. /\ r.type \in {"chat", "free"} /\ r.chat \in Chats \cup {None} /\ r.next \in Nat
      /\ r.msgs \in Seq(Messages)
  BY PageIs
<1> QED
  BY <1>1, <1>2, PageFields

LEMMA SetLabel ==
  ASSUME NEW r \in Pages, NEW c \in Chats
  PROVE  [[r EXCEPT !.type = "chat"] EXCEPT !.chat = c] =
             [type |-> "chat", chat |-> c, next |-> r.next, msgs |-> r.msgs]
<1>1. [r EXCEPT !.type = "chat"] = [type |-> "chat", chat |-> r.chat, next |-> r.next, msgs |-> r.msgs]
  BY DEF Pages
<1>2. [r EXCEPT !.type = "chat"] \in Pages
  BY <1>1, PageIs, PageFields
<1>3. PICK q \in Pages : q = [r EXCEPT !.type = "chat"]
  BY <1>2
<1>4. [q EXCEPT !.chat = c] = [type |-> q.type, chat |-> c, next |-> q.next, msgs |-> q.msgs]
  BY SetChat
<1>5. q.type = "chat" /\ q.next = r.next /\ q.msgs = r.msgs
  BY <1>1, <1>3
<1> QED
  BY <1>3, <1>4, <1>5

LEMMA LabelIs ==
  ASSUME NEW pages \in Seq(Pages), NEW c \in Chats, NEW p \in DOMAIN pages
  PROVE  /\ [pages EXCEPT ![p].type = "chat", ![p].chat = c] \in Seq(Pages)
         /\ Len([pages EXCEPT ![p].type = "chat", ![p].chat = c]) = Len(pages)
         /\ \A q \in DOMAIN pages :
               [pages EXCEPT ![p].type = "chat", ![p].chat = c][q] =
                  IF q = p THEN [type |-> "chat", chat |-> c, next |-> pages[p].next, msgs |-> pages[p].msgs]
                  ELSE pages[q]
<1> DEFINE new == [pages EXCEPT ![p].type = "chat", ![p].chat = c]
           q0 == [type |-> "chat", chat |-> c, next |-> pages[p].next, msgs |-> pages[p].msgs]
<1>1. \A q \in DOMAIN pages : pages[q] \in Pages
  OBVIOUS
<1>2. [[pages[p] EXCEPT !.type = "chat"] EXCEPT !.chat = c] = q0 /\ q0 \in Pages
  <2>1. PICK r \in Pages : r = pages[p]
    BY <1>1
  <2>2. [[r EXCEPT !.type = "chat"] EXCEPT !.chat = c] = [type |-> "chat", chat |-> c, next |-> r.next, msgs |-> r.msgs]
    BY SetLabel
  <2>3. q0 \in Pages
    BY <2>1, PageIs, PageFields
  <2> QED
    BY <2>1, <2>2, <2>3
<1>3. new = [pages EXCEPT ![p] = q0]
  BY <1>2
<1>4. [pages EXCEPT ![p] = q0] \in Seq(Pages) /\ Len([pages EXCEPT ![p] = q0]) = Len(pages)
  <2> HIDE DEF q0
  <2> QED
    BY <1>2
<1>5. \A q \in DOMAIN pages : [pages EXCEPT ![p] = q0][q] = IF q = p THEN q0 ELSE pages[q]
  OBVIOUS
<1> QED
  BY <1>3, <1>4, <1>5

LEMMA NextIs ==
  ASSUME NEW pages \in Seq(Pages), NEW p, NEW n \in Nat
  PROVE  /\ [pages EXCEPT ![p].next = n] \in Seq(Pages)
         /\ Len([pages EXCEPT ![p].next = n]) = Len(pages)
         /\ \A q \in DOMAIN pages :
               [pages EXCEPT ![p].next = n][q] =
                  IF q = p THEN [type |-> pages[q].type, chat |-> pages[q].chat, next |-> n,
                                 msgs |-> pages[q].msgs]
                  ELSE pages[q]
<1>1. \A q \in DOMAIN pages : pages[q] \in Pages
  OBVIOUS
<1>2. \A q \in DOMAIN pages :
         /\ [pages[q] EXCEPT !.next = n] = [type |-> pages[q].type, chat |-> pages[q].chat, next |-> n,
                                            msgs |-> pages[q].msgs]
         /\ [pages[q] EXCEPT !.next = n] \in Pages
  <2>1. ASSUME NEW r \in Pages
        PROVE  /\ [r EXCEPT !.next = n] = [type |-> r.type, chat |-> r.chat, next |-> n, msgs |-> r.msgs]
               /\ [r EXCEPT !.next = n] \in Pages
    BY SetNext
  <2> QED
    BY <1>1, <2>1
<1>3. \A q \in DOMAIN pages : [pages EXCEPT ![p].next = n][q] = IF q = p THEN [pages[q] EXCEPT !.next = n] ELSE pages[q]
  OBVIOUS
<1>4. DOMAIN [pages EXCEPT ![p].next = n] = 1..Len(pages) /\ DOMAIN pages = 1..Len(pages) /\ Len(pages) \in Nat
  OBVIOUS
<1>5. \A q \in 1..Len(pages) : [pages EXCEPT ![p].next = n][q] \in Pages
  BY <1>1, <1>2, <1>3, <1>4
<1>6. [pages EXCEPT ![p].next = n] = [q \in 1..Len(pages) |-> [pages EXCEPT ![p].next = n][q]]
  BY <1>4
<1>7. [pages EXCEPT ![p].next = n] \in Seq(Pages) /\ Len([pages EXCEPT ![p].next = n]) = Len(pages)
  <2> DEFINE new == [pages EXCEPT ![p].next = n]
  <2>1. new = [q \in 1..Len(pages) |-> new[q]] /\ \A q \in 1..Len(pages) : new[q] \in Pages
    BY <1>5, <1>6
  <2> HIDE DEF new
  <2>2. new \in Seq(Pages) /\ Len(new) = Len(pages)
    BY <1>4, <2>1
  <2> QED
    BY <2>2 DEF new
<1> QED
  BY <1>2, <1>3, <1>7

Linked(s, c, p, prev, u) ==
    /\ u.free = s.free /\ u.page \in Seq(Pages) /\ Len(u.page) = Len(s.page)
    /\ \A q \in DOMAIN s.page :
          /\ u.page[q].type = IF q = p THEN "chat" ELSE s.page[q].type
          /\ u.page[q].chat = IF q = p THEN c ELSE s.page[q].chat
          /\ u.page[q].next = IF prev # 0 /\ q = prev THEN p ELSE s.page[q].next
          /\ u.page[q].msgs = s.page[q].msgs
    /\ u.tips = [s.tips EXCEPT ![c] = [head |-> IF s.tips[c].head = 0 THEN p ELSE s.tips[c].head,
                                        tail |-> p, count |-> s.tips[c].count]]

LEMMA LinkIs ==
  ASSUME NEW s, s \in Stores \/ s \in Replays, NEW c \in Chats, NEW p \in DOMAIN s.page, NEW prev \in Nat,
         NEW u, u = Link(s, c, p, prev)
  PROVE  /\ s \in Stores => u \in Stores
         /\ s \in Replays => u \in Replays /\ u.ckpt = s.ckpt
         /\ Linked(s, c, p, prev, u)
<1> DEFINE labelled == [s EXCEPT !.page[p].type = "chat", !.page[p].chat = c]
           linked == IF prev = 0 THEN labelled ELSE [labelled EXCEPT !.page[prev].next = p]
           t0 == [head |-> IF s.tips[c].head = 0 THEN p ELSE s.tips[c].head,
                  tail |-> p, count |-> s.tips[c].count]
<1>1. s.page \in Seq(Pages) /\ s.free \in Nat /\ s.tips \in [Chats -> Tips] /\ p \in Nat
  BY DEF Stores, Replays
<1> DEFINE pages1 == [s.page EXCEPT ![p].type = "chat", ![p].chat = c]
           pages2 == [pages1 EXCEPT ![prev].next = p]
<1>2. labelled = [s EXCEPT !.page = pages1]
  BY DEF Stores, Replays
<1>3. /\ pages1 \in Seq(Pages) /\ Len(pages1) = Len(s.page)
      /\ \A q \in DOMAIN s.page : pages1[q] =
            IF q = p THEN [type |-> "chat", chat |-> c, next |-> s.page[p].next, msgs |-> s.page[p].msgs]
            ELSE s.page[q]
  BY <1>1, LabelIs
<1>4. /\ pages2 \in Seq(Pages) /\ Len(pages2) = Len(pages1)
      /\ \A q \in DOMAIN pages1 : pages2[q] =
            IF q = prev THEN [type |-> pages1[q].type, chat |-> pages1[q].chat, next |-> p, msgs |-> pages1[q].msgs]
            ELSE pages1[q]
  <2> HIDE DEF pages1
  <2> QED
    BY <1>1, <1>3, NextIs
<1>5. linked = [s EXCEPT !.page = IF prev = 0 THEN pages1 ELSE pages2]
  <2> HIDE DEF pages1
  <2>1. [[s EXCEPT !.page = pages1] EXCEPT !.page[prev].next = p] = [s EXCEPT !.page = pages2]
    BY DEF Stores, Replays
  <2> QED
    BY <1>2, <2>1
<1>6. [s.tips EXCEPT ![c].head = IF @ = 0 THEN p ELSE @, ![c].tail = p] = [s.tips EXCEPT ![c] = t0] /\ t0 \in Tips
  <2>1. PICK t \in Tips : t = s.tips[c]
    BY <1>1
  <2>2. [[t EXCEPT !.head = IF @ = 0 THEN p ELSE @] EXCEPT !.tail = p] =
           [head |-> IF t.head = 0 THEN p ELSE t.head, tail |-> p, count |-> t.count]
    <3>1. PICK h \in Nat : h = IF t.head = 0 THEN p ELSE t.head
      BY <1>1 DEF Tips
    <3>2. [t EXCEPT !.head = h] = [head |-> h, tail |-> t.tail, count |-> t.count]
      BY DEF Tips
    <3>3. PICK h2 \in Tips : h2 = [t EXCEPT !.head = h]
      BY <3>2 DEF Tips
    <3>4. [h2 EXCEPT !.tail = p] = [head |-> h2.head, tail |-> p, count |-> h2.count]
      BY DEF Tips
    <3>5. h2.head = h /\ h2.count = t.count
      BY <3>2, <3>3
    <3>6. [t EXCEPT !.head = IF @ = 0 THEN p ELSE @] = h2
      BY <3>1, <3>3
    <3> QED
      BY <3>1, <3>4, <3>5, <3>6
  <2>3. t0 \in Tips
    BY <1>1, <2>1 DEF Tips
  <2>4. [s.tips EXCEPT ![c].head = IF @ = 0 THEN p ELSE @, ![c].tail = p] =
           [s.tips EXCEPT ![c] = [[t EXCEPT !.head = IF @ = 0 THEN p ELSE @] EXCEPT !.tail = p]]
    BY <1>1, <2>1
  <2> QED
    BY <2>1, <2>2, <2>3, <2>4
<1> DEFINE pages3 == IF prev = 0 THEN pages1 ELSE pages2
           tips3 == [s.tips EXCEPT ![c] = t0]
<1>7. pages3 \in Seq(Pages) /\ tips3 \in [Chats -> Tips]
  <2>1. pages3 \in Seq(Pages)
    <3> HIDE DEF pages1, pages2
    <3> QED
      BY <1>3, <1>4
  <2>2. tips3 \in [Chats -> Tips]
    <3> HIDE DEF t0
    <3> QED
      BY <1>1, <1>6
  <2> QED
    BY <2>1, <2>2
<1>8. Link(s, c, p, prev) = [[s EXCEPT !.page = pages3] EXCEPT !.tips = tips3]
  <2> HIDE DEF pages3, t0
  <2>1. Link(s, c, p, prev) = [[s EXCEPT !.page = pages3] EXCEPT !.tips = [s.tips EXCEPT ![c].head = IF @ = 0 THEN p ELSE @, ![c].tail = p]]
    <3>1. linked = [s EXCEPT !.page = pages3]
      BY <1>5 DEF pages3
    <3>2. Link(s, c, p, prev) = [linked EXCEPT !.tips[c].head = IF @ = 0 THEN p ELSE @, !.tips[c].tail = p]
      BY DEF Link
    <3> HIDE DEF linked
    <3> QED
      BY <3>1, <3>2 DEF Stores, Replays
  <2> QED
    BY <1>6, <2>1
<1>9. /\ s \in Stores => u \in Stores
      /\ s \in Replays => u \in Replays /\ u.ckpt = s.ckpt
      /\ u.free = s.free
      /\ u.page = pages3
      /\ u.tips = tips3
  <2> HIDE DEF pages3, tips3
  <2> QED
    BY <1>7, <1>8 DEF Stores, Replays
<1>10. Len(pages3) = Len(s.page)
  <2> HIDE DEF pages1, pages2
  <2> QED
    BY <1>3, <1>4
<1>11. ASSUME NEW q \in DOMAIN s.page
       PROVE  /\ pages3[q].type = IF q = p THEN "chat" ELSE s.page[q].type
              /\ pages3[q].chat = IF q = p THEN c ELSE s.page[q].chat
              /\ pages3[q].next = IF prev # 0 /\ q = prev THEN p ELSE s.page[q].next
              /\ pages3[q].msgs = s.page[q].msgs
  <2>1. s.page[q] = [type |-> s.page[q].type, chat |-> s.page[q].chat, next |-> s.page[q].next, msgs |-> s.page[q].msgs]
    <3>1. s.page[q] \in Pages
      BY <1>1
    <3> QED
      BY <3>1, PageIs
  <2>2. q \in DOMAIN pages1
    <3> HIDE DEF pages1
    <3> QED
      BY <1>1, <1>3
  <2> HIDE DEF pages1, pages2
  <2>3. pages1[q] = [type |-> IF q = p THEN "chat" ELSE s.page[q].type,
                     chat |-> IF q = p THEN c ELSE s.page[q].chat,
                     next |-> s.page[q].next, msgs |-> s.page[q].msgs]
    BY <1>3, <2>1
  <2>4. CASE prev = 0
    BY <2>3, <2>4
  <2>5. CASE prev # 0
    <3>1. q = prev => pages2[q] = [type |-> pages1[q].type, chat |-> pages1[q].chat, next |-> p, msgs |-> pages1[q].msgs]
      BY <1>4, <2>2
    <3>2. q # prev => pages2[q] = pages1[q]
      BY <1>4, <2>2
    <3> QED
      BY <2>3, <2>5, <3>1, <3>2
  <2> QED
    BY <2>4, <2>5
<1> QED
  <2>1. u.page \in Seq(Pages) /\ Len(u.page) = Len(s.page)
    BY <1>7, <1>9, <1>10
  <2> HIDE DEF pages3
  <2>2. ASSUME NEW q \in DOMAIN s.page
        PROVE  /\ u.page[q].type = IF q = p THEN "chat" ELSE s.page[q].type
               /\ u.page[q].chat = IF q = p THEN c ELSE s.page[q].chat
               /\ u.page[q].next = IF prev # 0 /\ q = prev THEN p ELSE s.page[q].next
               /\ u.page[q].msgs = s.page[q].msgs
    BY <1>9, <1>11
  <2> QED
    BY <1>9, <2>1, <2>2 DEF Linked

LEMMA FlatReplay ==
  ASSUME NEW s \in Replays
  PROVE  s.page \in Seq(Pages) /\ s.free \in Nat /\ s.tips \in [Chats -> Tips] /\ s.ckpt \in Nat
  BY DEF Replays

LEMMA RecordIs ==
  ASSUME NEW r \in Records
  PROVE  /\ r.type \in {"link", "insert", "trim", "checkpoint", "torn"} /\ r.lsn \in Nat
         /\ r.chat \in Chats \cup {None} /\ r.page \in Nat /\ r.arg \in Nat
  BY DEF Records

LEMMA ContainsIs ==
  ASSUME NEW S, NEW s \in Seq(S), NEW x
  PROVE  Contains(s, x) <=> x \in ToSet(s)
  BY DEF Contains, ToSet

Reinserted(s, p, c, m, G, R) ==
    LET blank == G[p].type = "free" \/ G[p].msgs = <<>>
    IN  /\ R \in Replays /\ R.free = s.free /\ R.tips = s.tips /\ R.ckpt = s.ckpt
        /\ Len(R.page) = Len(G)
        /\ \A q \in DOMAIN G : q # p => R.page[q] = G[q]
        /\ R.page[p] =
             [type |-> IF blank THEN "chat" ELSE G[p].type,
              chat |-> IF blank THEN c ELSE G[p].chat,
              next |-> G[p].next,
              msgs |-> IF m \in ToSet(G[p].msgs) \/ Len(G[p].msgs) >= Slots
                       THEN G[p].msgs ELSE Append(G[p].msgs, m)]

LEMMA ReinsertIs ==
  ASSUME NEW s \in Replays, NEW r \in Records, r.chat \in Chats, r.page # 0, r.arg \in Messages,
         NEW G, G = Grown(s.page, r.page, "free")
  PROVE  Reinserted(s, r.page, r.chat, r.arg, G, Reinsert(s, r))
<1> DEFINE p == r.page
           old == G[p]
           blank == old.type = "free" \/ old.msgs = <<>>
           owned == IF blank THEN [old EXCEPT !.type = "chat", !.chat = r.chat] ELSE old
           new == IF Contains(owned.msgs, r.arg) \/ IsFull(owned) THEN owned
                  ELSE [owned EXCEPT !.msgs = Append(@, r.arg)]
           t == [s EXCEPT !.page = Grown(@, p, "free")]
<1>1. p \in Nat /\ s.page \in Seq(Pages)
  BY RecordIs, FlatReplay
<1>2. /\ G \in Seq(Pages) /\ Len(G) = IF p > Len(s.page) THEN p ELSE Len(s.page)
      /\ DOMAIN G = 1..Len(G) /\ p \in DOMAIN G
  BY <1>1, GrownIs
<1>3. PICK q0 \in Pages : q0 = old
  BY <1>2
<1>4. owned = [type |-> IF blank THEN "chat" ELSE old.type, chat |-> IF blank THEN r.chat ELSE old.chat,
               next |-> old.next, msgs |-> old.msgs]
  <2>1. CASE blank
    <3>1. [[q0 EXCEPT !.type = "chat"] EXCEPT !.chat = r.chat] =
             [type |-> "chat", chat |-> r.chat, next |-> q0.next, msgs |-> q0.msgs]
      BY SetLabel
    <3>2. owned = [[q0 EXCEPT !.type = "chat"] EXCEPT !.chat = r.chat]
      BY <1>3, <2>1
    <3> QED
      BY <1>3, <2>1, <3>1, <3>2
  <2>2. CASE ~blank
    <3>1. q0 = [type |-> q0.type, chat |-> q0.chat, next |-> q0.next, msgs |-> q0.msgs]
      BY PageIs
    <3>2. owned = q0
      BY <1>3, <2>2
    <3> QED
      BY <1>3, <2>2, <3>1, <3>2
  <2> QED
    BY <2>1, <2>2
<1>5. PICK o \in Pages : o = owned
  <2>1. /\ q0.type \in {"chat", "free"} /\ q0.chat \in Chats \cup {None} /\ q0.next \in Nat
        /\ q0.msgs \in Seq(Messages)
    BY PageIs
  <2>2. owned \in Pages
    BY <1>3, <1>4, <2>1, PageFields
  <2> QED
    BY <2>2
<1>6. o.msgs = old.msgs /\ o.msgs \in Seq(Messages) /\ Append(o.msgs, r.arg) \in Seq(Messages)
  <2>1. o.msgs = old.msgs
    BY <1>4, <1>5
  <2>2. o.msgs \in Seq(Messages)
    BY PageIs
  <2> QED
    BY <2>1, <2>2
<1> DEFINE has == r.arg \in ToSet(old.msgs) \/ Len(old.msgs) >= Slots
           ms == IF has THEN old.msgs ELSE Append(old.msgs, r.arg)
<1>7. new = [type |-> o.type, chat |-> o.chat, next |-> o.next, msgs |-> ms] /\ new \in Pages
  <2>1. Contains(o.msgs, r.arg) \/ IsFull(o) <=> has
    BY <1>6, ContainsIs DEF IsFull
  <2>2. CASE has
    <3>1. new = o
      BY <1>5, <2>1, <2>2
    <3> QED
      BY <1>6, <2>2, <3>1, PageIs
  <2>3. CASE ~has
    <3>1. new = [o EXCEPT !.msgs = Append(o.msgs, r.arg)]
      BY <1>5, <2>1, <2>3
    <3>2. PICK ms1 \in Seq(Messages) : ms1 = Append(o.msgs, r.arg)
      BY <1>6
    <3>3. /\ [o EXCEPT !.msgs = ms1] = [type |-> o.type, chat |-> o.chat, next |-> o.next, msgs |-> ms1]
          /\ [o EXCEPT !.msgs = ms1] \in Pages
      BY SetMsgs
    <3>4. ms = ms1
      BY <1>6, <2>3, <3>2
    <3> QED
      BY <3>1, <3>2, <3>3, <3>4
  <2> QED
    BY <2>2, <2>3
<1>8. t = [s EXCEPT !.page = G] /\ t.page = G
  BY DEF Replays
<1>9. Reinsert(s, r) = [t EXCEPT !.page[p] = new]
  BY <1>8 DEF Reinsert
<1> DEFINE pages == [G EXCEPT ![p] = new]
<1>10. pages \in Seq(Pages) /\ Len(pages) = Len(G) /\ \A q \in DOMAIN G : pages[q] = IF q = p THEN new ELSE G[q]
  <2> HIDE DEF new
  <2> QED
    BY <1>2, <1>7
<1>11. Reinsert(s, r) = [[s EXCEPT !.page = G] EXCEPT !.page = pages]
  <2> HIDE DEF new
  <2>1. [[s EXCEPT !.page = G] EXCEPT !.page[p] = new] = [[s EXCEPT !.page = G] EXCEPT !.page = pages]
    BY DEF Replays
  <2> QED
    BY <1>8, <1>9, <2>1
<1>12. /\ Reinsert(s, r) \in Replays /\ Reinsert(s, r).free = s.free /\ Reinsert(s, r).tips = s.tips
       /\ Reinsert(s, r).ckpt = s.ckpt /\ Reinsert(s, r).page = pages
  <2> HIDE DEF pages
  <2> QED
    BY <1>10, <1>11, FlatReplay DEF Replays
<1>13. new = [type |-> IF blank THEN "chat" ELSE old.type, chat |-> IF blank THEN r.chat ELSE old.chat,
              next |-> old.next, msgs |-> ms]
  <2>1. /\ o.type = IF blank THEN "chat" ELSE old.type
        /\ o.chat = IF blank THEN r.chat ELSE old.chat
        /\ o.next = old.next
    BY <1>4, <1>5
  <2> HIDE DEF new, ms, blank, old
  <2> QED
    BY <1>7, <2>1
<1> QED
  <2>1. \A q \in DOMAIN G : q # p => pages[q] = G[q]
    BY <1>10
  <2>2. pages[p] = new /\ Len(pages) = Len(G)
    BY <1>2, <1>10
  <2> HIDE DEF new, pages
  <2> QED
    BY <1>12, <1>13, <2>1, <2>2 DEF Reinserted

LEMMA RedoIs ==
  ASSUME NEW s, NEW r
  PROVE  /\ r.lsn < s.ckpt => Redo(s, r) = s
         /\ ~ (r.lsn < s.ckpt) =>
              /\ r.type = "link" => Redo(s, r) =
                    Link([s EXCEPT !.page = Grown(s.page, r.page, "free")], r.chat, r.page, r.arg)
              /\ r.type = "insert" => Redo(s, r) = Reinsert(s, r)
              /\ r.type = "trim" => Redo(s, r) = Trimmed(s, r.chat)
              /\ r.type = "checkpoint" => Redo(s, r) = [s EXCEPT !.ckpt = r.lsn + 1]
<1>1. ASSUME NEW x, x = [s EXCEPT !.page = Grown(@, r.page, "free")]
      PROVE  r.lsn < s.ckpt \/ r.type # "link" \/ Redo(s, r) = Link(x, r.chat, r.page, r.arg)
  BY <1>1 DEF Redo
<1>2. [s EXCEPT !.page = Grown(@, r.page, "free")] = [s EXCEPT !.page = Grown(s.page, r.page, "free")]
  OBVIOUS
<1>3. ~ (r.lsn < s.ckpt) /\ r.type = "link" =>
         Redo(s, r) = Link([s EXCEPT !.page = Grown(s.page, r.page, "free")], r.chat, r.page, r.arg)
  BY <1>1, <1>2
<1>4. ~ (r.lsn < s.ckpt) /\ r.type = "insert" => Redo(s, r) = Reinsert(s, r)
  BY DEF Redo
<1>5. ~ (r.lsn < s.ckpt) /\ r.type = "trim" => Redo(s, r) = Trimmed(s, r.chat)
  BY DEF Redo
<1>6. ~ (r.lsn < s.ckpt) /\ r.type = "checkpoint" => Redo(s, r) = [s EXCEPT !.ckpt = r.lsn + 1]
  BY DEF Redo
<1>7. r.lsn < s.ckpt => Redo(s, r) = s
  BY DEF Redo
<1> QED
  BY <1>3, <1>4, <1>5, <1>6, <1>7

\* No page of a loses its chat or a message in b.
Keeps(a, b) ==
    \A p \in DOMAIN a :
       /\ p \in DOMAIN b
       /\ a[p].chat \in Chats => b[p].chat = a[p].chat /\ b[p].type = "chat"
       /\ ToSet(a[p].msgs) \subseteq ToSet(b[p].msgs)

LEMMA KeepsIs ==
  ASSUME NEW a, NEW b, Keeps(a, b), NEW c \in Chats
  PROVE  /\ PagesOf(a, c) \subseteq PagesOf(b, c)
         /\ \A m : OnPage(a, c, m) => OnPage(b, c, m)
<1>1. ASSUME NEW p \in PagesOf(a, c) PROVE p \in PagesOf(b, c)
  BY DEF PagesOf, Keeps
<1>2. ASSUME NEW m, OnPage(a, c, m) PROVE OnPage(b, c, m)
  <2>1. PICK p \in PagesOf(a, c) : m \in ToSet(a[p].msgs)
    BY <1>2 DEF OnPage
  <2>2. p \in DOMAIN a
    BY DEF PagesOf
  <2>3. m \in ToSet(b[p].msgs)
    BY <2>1, <2>2 DEF Keeps
  <2> QED
    BY <1>1, <2>1, <2>3 DEF OnPage
<1> QED
  BY <1>1, <1>2

LEMMA OlderIs ==
  ASSUME NEW q \in Pages, NEW r \in Pages, Older(q, r)
  PROVE  /\ Distinct(q.msgs) /\ Len(q.msgs) <= Slots /\ q.msgs \in Seq(Messages)
         /\ q.chat = None => q.msgs = <<>>
         /\ q.chat # None => q.type = "chat" /\ q.chat = r.chat
         /\ ToSet(q.msgs) \subseteq ToSet(r.msgs)
  BY PageIs DEF Older, Image

Stretched(pages, n, P, G) ==
    /\ G \in Seq(Pages) /\ DOMAIN G = 1..Len(G) /\ Len(G) <= Len(P) /\ Len(pages) <= Len(G) /\ n <= Len(G)
    /\ \A p \in DOMAIN G : Older(G[p], P[p]) /\ (p \in DOMAIN pages => G[p] = pages[p])
    /\ (\A p \in DOMAIN pages : pages[p].next <= Len(pages)) => \A p \in DOMAIN G : G[p].next <= Len(G)
    /\ Keeps(pages, G)

\* A file that is too short is extended by pages that hold nothing.
LEMMA GrownIsOlder ==
  ASSUME NEW pages \in Seq(Pages), NEW n \in Nat, NEW P \in Seq(Pages), n <= Len(P), Len(pages) <= Len(P),
         \A p \in DOMAIN pages : Older(pages[p], P[p]),
         NEW G, G = Grown(pages, n, "free")
  PROVE  Stretched(pages, n, P, G)
<1>1. /\ G \in Seq(Pages) /\ Len(G) = IF n > Len(pages) THEN n ELSE Len(pages)
      /\ DOMAIN G = 1..Len(G)
      /\ \A p \in DOMAIN G : G[p] = IF p <= Len(pages) THEN pages[p] ELSE Blank("free")
  BY GrownIs
<1>2. DOMAIN pages = 1..Len(pages) /\ DOMAIN P = 1..Len(P) /\ Len(pages) \in Nat /\ Len(P) \in Nat
  OBVIOUS
<1>3. Len(G) <= Len(P) /\ Len(pages) <= Len(G) /\ n <= Len(G)
  BY <1>1, <1>2
<1>4. Image(Blank("free")) /\ Blank("free").chat = None /\ Blank("free").next = 0 /\ ToSet(Blank("free").msgs) = {}
  BY BlankIs DEF Blank, ToSet
<1>5. \A p \in DOMAIN G : p \in DOMAIN P /\ (p <= Len(pages) <=> p \in DOMAIN pages)
  BY <1>1, <1>2, <1>3
<1>6. ASSUME NEW p \in DOMAIN G
      PROVE  Older(G[p], P[p]) /\ (p \in DOMAIN pages => G[p] = pages[p])
  <2>1. CASE p \in DOMAIN pages
    BY <1>1, <1>5, <2>1
  <2>2. CASE p \notin DOMAIN pages
    <3>1. G[p] = Blank("free")
      BY <1>1, <1>5, <2>2
    <3> QED
      BY <1>4, <2>2, <3>1 DEF Older
  <2> QED
    BY <2>1, <2>2
<1>7. ASSUME \A p \in DOMAIN pages : pages[p].next <= Len(pages), NEW p \in DOMAIN G
      PROVE  G[p].next <= Len(G)
  <2>1. CASE p \in DOMAIN pages
    <3>1. G[p].next <= Len(pages) /\ G[p] \in Pages
      BY <1>1, <1>6, <1>7, <2>1
    <3>2. G[p].next \in Nat
      BY <3>1, PageIs
    <3> QED
      BY <1>1, <1>2, <1>3, <3>1, <3>2
  <2>2. CASE p \notin DOMAIN pages
    <3>1. G[p] = Blank("free")
      BY <1>1, <1>5, <2>2
    <3> QED
      BY <1>1, <1>4, <3>1
  <2> QED
    BY <2>1, <2>2
<1>8. Keeps(pages, G)
  <2> SUFFICES ASSUME NEW p \in DOMAIN pages
               PROVE  /\ p \in DOMAIN G
                      /\ pages[p].chat \in Chats => G[p].chat = pages[p].chat /\ G[p].type = "chat"
                      /\ ToSet(pages[p].msgs) \subseteq ToSet(G[p].msgs)
    BY DEF Keeps
  <2>1. p \in DOMAIN G
    BY <1>1, <1>2, <1>3
  <2>2. G[p] = pages[p]
    BY <1>6, <2>1
  <2>3. pages[p].chat \in Chats => pages[p].type = "chat"
    BY SlotsIs DEF Older, Image
  <2> QED
    BY <2>1, <2>2, <2>3
<1> QED
  BY <1>1, <1>3, <1>6, <1>7, <1>8 DEF Stretched

\* A replay after n records: its pages are older images of P, and what the heap held or
\* these records insert is on them.
Caught(P, w, n, t) ==
    /\ t \in Replays /\ t.free = 0
    /\ Len(disk) <= Len(t.page)
    /\ Len(t.page) <= Len(P) /\ \A p \in DOMAIN t.page : Older(t.page[p], P[p])
    /\ InRange(t.page, t.tips)
    /\ \A c \in Chats : t.tips[c].tail # 0 => t.tips[c].tail \in PagesOf(t.page, c)
    /\ \A j \in DOMAIN w : j > n /\ w[j].lsn >= meta.ckpt => w[j].lsn >= t.ckpt
    /\ \A c \in Chats, m \in Messages : OnPage(disk, c, m) \/ InLog(w, n, c, m) => OnPage(t.page, c, m)

LEMMA LogGrows ==
  ASSUME NEW w \in Seq(Records), NEW n \in DOMAIN w, NEW c \in Chats, NEW m
  PROVE  /\ InLog(w, n, c, m) => \/ InLog(w, n - 1, c, m)
                                 \/ /\ w[n].type = "insert" /\ w[n].chat = c /\ w[n].arg = m
                                    /\ w[n].lsn >= meta.ckpt
<1> SUFFICES ASSUME InLog(w, n, c, m), ~InLog(w, n - 1, c, m)
             PROVE  w[n].type = "insert" /\ w[n].chat = c /\ w[n].arg = m /\ w[n].lsn >= meta.ckpt
  OBVIOUS
<1>1. PICK i \in 1..n : w[i].type = "insert" /\ w[i].chat = c /\ w[i].arg = m /\ w[i].lsn >= meta.ckpt
  BY DEF InLog
<1>2. i \notin 1..(n - 1)
  BY <1>1 DEF InLog
<1>3. n \in Nat /\ i = n
  <2>1. n \in 1..Len(w)
    OBVIOUS
  <2> QED
    BY <1>1, <1>2, <2>1
<1> QED
  BY <1>1, <1>3

LEMMA SkipCatches ==
  ASSUME NEW P \in Seq(Pages), NEW w \in Seq(Records), Speaks(P, w), NEW n \in DOMAIN w, NEW t,
         Caught(P, w, n - 1, t), w[n].lsn < t.ckpt, meta.ckpt \in Nat
  PROVE  Caught(P, w, n, t)
<1>1. n \in 1..Len(w) /\ DOMAIN w = 1..Len(w) /\ w[n] \in Records
  OBVIOUS
<1>2. w[n].lsn \in Nat /\ t.ckpt \in Nat
  BY <1>1, RecordIs, FlatReplay DEF Caught
<1>3. ~ (w[n].lsn >= meta.ckpt)
  <2>1. n > n - 1
    BY <1>1
  <2>2. w[n].lsn >= meta.ckpt => w[n].lsn >= t.ckpt
    BY <2>1 DEF Caught
  <2> QED
    BY <1>2, <2>2
<1>4. \A c \in Chats, m \in Messages : InLog(w, n, c, m) => InLog(w, n - 1, c, m)
  BY <1>3, LogGrows
<1>5. \A j \in DOMAIN w : j > n => j > n - 1
  BY <1>1
<1> QED
  BY <1>4, <1>5 DEF Caught

LEMMA CheckpointCatches ==
  ASSUME NEW P \in Seq(Pages), NEW w \in Seq(Records), Speaks(P, w), NEW n \in DOMAIN w, NEW t,
         Caught(P, w, n - 1, t), w[n].type = "checkpoint", NEW u, u = [t EXCEPT !.ckpt = w[n].lsn + 1]
  PROVE  Caught(P, w, n, u)
<1>1. n \in 1..Len(w) /\ DOMAIN w = 1..Len(w) /\ w[n] \in Records
  OBVIOUS
<1>2. w[n].lsn \in Nat /\ t \in Replays
  BY <1>1, RecordIs DEF Caught
<1>3. u \in Replays /\ u.page = t.page /\ u.free = t.free /\ u.tips = t.tips /\ u.ckpt = w[n].lsn + 1
  <2>1. PICK k \in Nat : k = w[n].lsn + 1
    BY <1>2
  <2>2. u = [t EXCEPT !.ckpt = k]
    BY <2>1
  <2> QED
    BY <1>2, <2>1, <2>2 DEF Replays
<1>4. \A c \in Chats, m \in Messages : InLog(w, n, c, m) => InLog(w, n - 1, c, m)
  BY LogGrows
<1>5. ASSUME NEW j \in DOMAIN w, j > n PROVE w[j].lsn >= u.ckpt
  <2>1. w[n].lsn < w[j].lsn
    BY <1>5 DEF Speaks, About, Ordered, Images
  <2>2. w[j] \in Records
    OBVIOUS
  <2>3. w[j].lsn \in Nat
    BY <2>2, RecordIs
  <2> QED
    BY <1>2, <1>3, <2>1, <2>3
<1> QED
  BY <1>3, <1>4, <1>5 DEF Caught

\* Pages that are older images of P, with the tips on them.
Image0(P, s) ==
    /\ s.page \in Seq(Pages)
    /\ Len(s.page) <= Len(P) /\ \A p \in DOMAIN s.page : Older(s.page[p], P[p])
    /\ InRange(s.page, s.tips)
    /\ \A c \in Chats : s.tips[c].tail # 0 => s.tips[c].tail \in PagesOf(s.page, c)

LEMMA LinkKeeps ==
  ASSUME NEW P \in Seq(Pages), NEW s \in Replays, Image0(P, s),
         NEW c \in Chats, NEW p \in DOMAIN s.page, NEW a \in Nat, P[p].chat = c,
         NEW u, u = Link(s, c, p, a)
  PROVE  /\ u \in Replays /\ u.ckpt = s.ckpt /\ u.free = s.free
         /\ Image0(P, u) /\ Keeps(s.page, u.page)
<1> DEFINE G == s.page
<1>1. /\ G \in Seq(Pages) /\ s.tips \in [Chats -> Tips] /\ DOMAIN G = 1..Len(G) /\ Len(G) \in Nat /\ p \in Nat
      /\ p <= Len(G)
  BY FlatReplay
<1>12. s \in Stores \/ s \in Replays
  OBVIOUS
<1>13. (s \in Replays => u \in Replays /\ u.ckpt = s.ckpt) /\ Linked(s, c, p, a, u)
  BY <1>12, LinkIs
<1>2. /\ u \in Replays /\ u.ckpt = s.ckpt /\ u.free = s.free /\ Len(u.page) = Len(G)
  BY <1>13 DEF Linked
<1>4. u.tips = [s.tips EXCEPT ![c] = [head |-> IF s.tips[c].head = 0 THEN p ELSE s.tips[c].head,
                                      tail |-> p, count |-> s.tips[c].count]]
  BY <1>13 DEF Linked
<1>5. u.page \in Seq(Pages) /\ DOMAIN u.page = DOMAIN G
  <2>1. u.page \in Seq(Pages)
    BY <1>2, FlatReplay
  <2> QED
    BY <1>1, <1>2, <2>1
<1>6. ASSUME NEW q \in DOMAIN G
      PROVE  /\ u.page[q].type = IF q = p THEN "chat" ELSE G[q].type
             /\ u.page[q].chat = IF q = p THEN c ELSE G[q].chat
             /\ u.page[q].next = IF a # 0 /\ q = a THEN p ELSE G[q].next
             /\ u.page[q].msgs = G[q].msgs
  BY <1>13 DEF Linked
<1>7. ASSUME NEW q \in DOMAIN G PROVE Older(u.page[q], P[q])
  <2>1. Older(G[q], P[q])
    BY DEF Image0
  <2>2. CASE q = p
    <3>1. u.page[q].chat = P[q].chat /\ u.page[q].chat # None /\ u.page[q].type = "chat"
      BY <1>6, <2>2, SlotsIs
    <3> QED
      BY <1>6, <2>1, <3>1 DEF Older, Image
  <2>3. CASE q # p
    BY <1>6, <2>1, <2>3 DEF Older, Image
  <2> QED
    BY <2>2, <2>3
<1>8. Keeps(G, u.page)
  <2> SUFFICES ASSUME NEW q \in DOMAIN G
               PROVE  /\ q \in DOMAIN u.page
                      /\ G[q].chat \in Chats => u.page[q].chat = G[q].chat /\ u.page[q].type = "chat"
                      /\ ToSet(G[q].msgs) \subseteq ToSet(u.page[q].msgs)
    BY DEF Keeps
  <2>1. Older(G[q], P[q])
    BY DEF Image0
  <2>2. G[q].chat \in Chats => G[q].type = "chat" /\ G[q].chat = P[q].chat
    BY <2>1, SlotsIs DEF Older, Image
  <2> QED
    BY <1>5, <1>6, <2>2
<1>9. InRange(u.page, u.tips)
  <2>1. ASSUME NEW q \in DOMAIN G PROVE u.page[q].next <= Len(u.page)
    <3>1. G[q].next <= Len(G)
      BY DEF Image0, InRange
    <3> QED
      BY <1>1, <1>2, <1>6, <3>1
  <2>2. ASSUME NEW d \in Chats PROVE u.tips[d].head <= Len(u.page) /\ u.tips[d].tail <= Len(u.page)
    <3>1. s.tips[d].head <= Len(G) /\ s.tips[d].tail <= Len(G)
      BY DEF Image0, InRange
    <3>2. CASE d = c
      <4>1. u.tips[d].tail = p /\ u.tips[d].head \in {p, s.tips[d].head}
        BY <1>1, <1>4, <3>2
      <4> QED
        BY <1>1, <1>2, <3>1, <4>1
    <3>3. CASE d # c
      BY <1>1, <1>2, <1>4, <3>1, <3>3
    <3> QED
      BY <3>2, <3>3
  <2> QED
    BY <1>5, <2>1, <2>2 DEF InRange
<1>10. ASSUME NEW d \in Chats, u.tips[d].tail # 0 PROVE u.tips[d].tail \in PagesOf(u.page, d)
  <2>1. CASE d = c
    <3>1. u.tips[d].tail = p
      BY <1>1, <1>4, <2>1
    <3>2. p \in DOMAIN u.page /\ u.page[p].type = "chat" /\ u.page[p].chat = d
      BY <1>5, <1>6, <2>1
    <3> QED
      BY <3>1, <3>2 DEF PagesOf
  <2>2. CASE d # c
    <3>1. u.tips[d].tail = s.tips[d].tail
      BY <1>1, <1>4, <2>2
    <3>2. s.tips[d].tail \in PagesOf(s.page, d)
      BY <1>10, <3>1 DEF Image0
    <3> QED
      BY <1>8, <3>1, <3>2, KeepsIs
  <2> QED
    BY <2>1, <2>2
<1>11. Len(G) <= Len(P)
  BY DEF Image0
<1> QED
  BY <1>2, <1>5, <1>7, <1>8, <1>9, <1>10, <1>11 DEF Image0

LEMMA GrowKeeps ==
  ASSUME NEW P \in Seq(Pages), NEW t \in Replays, Image0(P, t), NEW p \in DOMAIN P,
         NEW G, G = Grown(t.page, p, "free"), NEW s, s = [t EXCEPT !.page = G]
  PROVE  /\ s \in Replays /\ s.page = G /\ s.ckpt = t.ckpt /\ s.free = t.free /\ s.tips = t.tips
         /\ Image0(P, s) /\ Keeps(t.page, G) /\ p \in DOMAIN G
<1>1. /\ t.page \in Seq(Pages) /\ p \in Nat /\ p <= Len(P) /\ Len(t.page) <= Len(P) /\ p > 0
      /\ \A q \in DOMAIN t.page : Older(t.page[q], P[q])
      /\ \A q \in DOMAIN t.page : t.page[q].next <= Len(t.page)
  BY FlatReplay DEF Image0, InRange
<1>2. /\ G \in Seq(Pages) /\ DOMAIN G = 1..Len(G) /\ Len(G) <= Len(P) /\ Len(t.page) <= Len(G) /\ p <= Len(G)
      /\ \A q \in DOMAIN G : Older(G[q], P[q])
      /\ (\A q \in DOMAIN t.page : t.page[q].next <= Len(t.page)) => \A q \in DOMAIN G : G[q].next <= Len(G)
      /\ Keeps(t.page, G)
  <2>1. Stretched(t.page, p, P, G)
    BY <1>1, GrownIsOlder
  <2> QED
    BY <2>1 DEF Stretched
<1>3. /\ s \in Replays /\ s.page = G /\ s.free = t.free /\ s.tips = t.tips /\ s.ckpt = t.ckpt
  BY <1>2 DEF Replays
<1>4. p \in DOMAIN G
  BY <1>1, <1>2
<1>5. ASSUME NEW c \in Chats PROVE t.tips[c].head <= Len(G) /\ t.tips[c].tail <= Len(G)
  <2>1. t.tips[c].head <= Len(t.page) /\ t.tips[c].tail <= Len(t.page)
    BY DEF Image0, InRange
  <2>2. t.tips[c] \in Tips
    BY FlatReplay
  <2>3. t.tips[c].head \in Nat /\ t.tips[c].tail \in Nat /\ Len(t.page) \in Nat /\ Len(G) \in Nat
    BY <1>1, <1>2, <2>2 DEF Tips
  <2> QED
    BY <1>2, <2>1, <2>3
<1>6. ASSUME NEW c \in Chats, t.tips[c].tail # 0 PROVE t.tips[c].tail \in PagesOf(G, c)
  BY <1>2, <1>6, KeepsIs DEF Image0
<1>7. InRange(G, s.tips)
  BY <1>1, <1>2, <1>3, <1>5 DEF InRange
<1> QED
  BY <1>2, <1>3, <1>4, <1>6, <1>7 DEF Image0

LEMMA KeepsTwice ==
  ASSUME NEW a, NEW b, NEW d, Keeps(a, b), Keeps(b, d)
  PROVE  Keeps(a, d)
  BY DEF Keeps

\* What is left to show of a step that keeps the pages.
LEMMA StepCatches ==
  ASSUME NEW P \in Seq(Pages), NEW w \in Seq(Records), NEW n \in DOMAIN w, NEW t,
         disk \in Seq(Pages), Caught(P, w, n - 1, t), NEW u \in Replays, u.free = 0, u.ckpt = t.ckpt, Image0(P, u),
         Keeps(t.page, u.page),
         w[n].type = "insert" /\ w[n].chat \in Chats => OnPage(u.page, w[n].chat, w[n].arg)
  PROVE  Caught(P, w, n, u)
<1>1. n \in 1..Len(w) /\ DOMAIN w = 1..Len(w)
  OBVIOUS
<1>2. \A j \in DOMAIN w : j > n => j > n - 1
  BY <1>1
<1>3. ASSUME NEW c \in Chats, NEW m \in Messages, OnPage(disk, c, m) \/ InLog(w, n, c, m)
      PROVE  OnPage(u.page, c, m)
  <2>1. CASE OnPage(disk, c, m) \/ InLog(w, n - 1, c, m)
    <3>1. OnPage(t.page, c, m)
      BY <2>1 DEF Caught
    <3> QED
      BY <3>1, KeepsIs
  <2>2. CASE w[n].type = "insert" /\ w[n].chat = c /\ w[n].arg = m
    BY <2>2
  <2> QED
    BY <1>3, <2>1, <2>2, LogGrows
<1>4. Len(disk) <= Len(u.page)
  <2>1. t.page \in Seq(Pages) /\ u.page \in Seq(Pages) /\ disk \in Seq(Pages)
    BY FlatReplay DEF Caught
  <2>2. Len(t.page) \in Nat /\ Len(u.page) \in Nat /\ Len(disk) \in Nat
        /\ DOMAIN t.page = 1..Len(t.page) /\ DOMAIN u.page = 1..Len(u.page)
    BY <2>1
  <2>3. DOMAIN t.page \subseteq DOMAIN u.page
    BY DEF Keeps
  <2>4. Len(t.page) <= Len(u.page)
    <3>1. CASE Len(t.page) = 0
      BY <2>2, <3>1
    <3>2. CASE Len(t.page) # 0
      <4>1. Len(t.page) \in DOMAIN t.page
        BY <2>2, <3>2
      <4> QED
        BY <2>2, <2>3, <4>1
    <3> QED
      BY <3>1, <3>2
  <2>5. Len(disk) <= Len(t.page)
    BY DEF Caught
  <2> QED
    BY <2>2, <2>4, <2>5
<1> QED
  BY <1>2, <1>3, <1>4 DEF Caught, Image0

LEMMA LinkCatches ==
  ASSUME NEW P \in Seq(Pages), NEW w \in Seq(Records), Speaks(P, w), NEW n \in DOMAIN w, NEW t,
         disk \in Seq(Pages), Caught(P, w, n - 1, t), w[n].type = "link",
         NEW u, u = Link([t EXCEPT !.page = Grown(t.page, w[n].page, "free")], w[n].chat, w[n].page, w[n].arg)
  PROVE  Caught(P, w, n, u)
<1>1. w[n] \in Records /\ w[n].page \in DOMAIN P /\ w[n].chat \in Chats /\ w[n].chat = P[w[n].page].chat
  BY DEF Speaks, About, Ordered, Images
<1>2. w[n].arg \in Nat
  BY <1>1, RecordIs
<1>3. PICK p \in DOMAIN P, c \in Chats, a \in Nat : p = w[n].page /\ c = w[n].chat /\ a = w[n].arg
  BY <1>1, <1>2
<1>4. PICK G : G = Grown(t.page, p, "free")
  OBVIOUS
<1>5. PICK s : s = [t EXCEPT !.page = G]
  OBVIOUS
<1>6. t \in Replays /\ Image0(P, t) /\ t.free = 0
  BY FlatReplay DEF Caught, Image0
<1>7. /\ s \in Replays /\ s.page = G /\ s.ckpt = t.ckpt /\ s.free = t.free /\ s.tips = t.tips
      /\ Image0(P, s) /\ Keeps(t.page, G) /\ p \in DOMAIN G
  BY <1>4, <1>5, <1>6, GrowKeeps
<1>8. u = Link(s, c, p, a)
  BY <1>3, <1>4, <1>5
<1>9. P[p].chat = c /\ p \in DOMAIN s.page
  BY <1>1, <1>3, <1>7
<1>10. /\ u \in Replays /\ u.ckpt = s.ckpt /\ u.free = s.free
       /\ Image0(P, u) /\ Keeps(s.page, u.page)
  BY <1>7, <1>8, <1>9, LinkKeeps
<1>11. Keeps(t.page, u.page)
  BY <1>7, <1>10, KeepsTwice
<1>12. u.free = 0 /\ u.ckpt = t.ckpt
  BY <1>6, <1>7, <1>10
<1> QED
  BY <1>10, <1>11, <1>12, StepCatches

LEMMA InsertCatches ==
  ASSUME NEW P \in Seq(Pages), NEW w \in Seq(Records), Speaks(P, w), NEW n \in DOMAIN w, NEW t,
         disk \in Seq(Pages), Caught(P, w, n - 1, t), w[n].type = "insert",
         NEW u, u = Reinsert(t, w[n])
  PROVE  Caught(P, w, n, u)
<1>1. /\ w[n] \in Records /\ w[n].page \in DOMAIN P /\ w[n].chat \in Chats /\ w[n].chat = P[w[n].page].chat
      /\ w[n].arg \in ToSet(P[w[n].page].msgs)
  BY DEF Speaks, About, Ordered, Images
<1>2. \A q \in DOMAIN P : P[q] \in Pages /\ P[q].msgs \in Seq(Messages) /\ Image(P[q])
  BY PageIs DEF Speaks, About, Ordered, Images
<1>3. w[n].arg \in Messages
  BY <1>1, <1>2 DEF ToSet
<1>4. PICK r \in Records : r = w[n]
  BY <1>1
<1>5. PICK p \in DOMAIN P, c \in Chats, m \in Messages : p = r.page /\ c = r.chat /\ m = r.arg
  BY <1>1, <1>3, <1>4
<1>6. P[p].chat = c /\ m \in ToSet(P[p].msgs) /\ p \in Nat /\ p # 0 /\ c # None
  BY <1>1, <1>4, <1>5, SlotsIs
<1>7. PICK G : G = Grown(t.page, p, "free")
  OBVIOUS
<1>8. PICK s : s = [t EXCEPT !.page = G]
  OBVIOUS
<1>9. t \in Replays /\ Image0(P, t) /\ t.free = 0
  BY FlatReplay DEF Caught, Image0
<1>10. /\ s \in Replays /\ s.page = G /\ s.ckpt = t.ckpt /\ s.free = t.free /\ s.tips = t.tips
       /\ Image0(P, s) /\ Keeps(t.page, G) /\ p \in DOMAIN G
  BY <1>7, <1>8, <1>9, GrowKeeps
<1> DEFINE blank == G[p].type = "free" \/ G[p].msgs = <<>>
<1>11. /\ u \in Replays /\ u.free = t.free /\ u.tips = t.tips /\ u.ckpt = t.ckpt
       /\ Len(u.page) = Len(G)
       /\ \A q \in DOMAIN G : q # p => u.page[q] = G[q]
       /\ u.page[p] =
             [type |-> IF blank THEN "chat" ELSE G[p].type,
              chat |-> IF blank THEN c ELSE G[p].chat,
              next |-> G[p].next,
              msgs |-> IF m \in ToSet(G[p].msgs) \/ Len(G[p].msgs) >= Slots
                       THEN G[p].msgs ELSE Append(G[p].msgs, m)]
  <2>1. /\ r.chat \in Chats /\ r.page # 0 /\ r.arg \in Messages
        /\ G = Grown(t.page, r.page, "free") /\ u = Reinsert(t, r)
    BY <1>4, <1>5, <1>6, <1>7
  <2> HIDE DEF blank
  <2>2. Reinserted(t, r.page, r.chat, r.arg, G, Reinsert(t, r))
    BY <1>9, <2>1, ReinsertIs
  <2>3. Reinserted(t, p, c, m, G, u)
    BY <1>5, <2>1, <2>2
  <2> QED
    BY <2>3 DEF Reinserted, blank
<1>12. u.page \in Seq(Pages) /\ G \in Seq(Pages) /\ DOMAIN u.page = DOMAIN G /\ Len(G) \in Nat /\ DOMAIN G = 1..Len(G)
  <2>1. u.page \in Seq(Pages) /\ G \in Seq(Pages)
    BY <1>10, <1>11, FlatReplay
  <2> QED
    BY <1>11, <2>1
<1> HIDE DEF blank
<1>13. /\ u.page[p].type = IF blank THEN "chat" ELSE G[p].type
       /\ u.page[p].chat = IF blank THEN c ELSE G[p].chat
       /\ u.page[p].next = G[p].next
       /\ u.page[p].msgs = IF m \in ToSet(G[p].msgs) \/ Len(G[p].msgs) >= Slots
                           THEN G[p].msgs ELSE Append(G[p].msgs, m)
  BY <1>11
<1>14. Older(G[p], P[p]) /\ G[p] \in Pages /\ G[p].msgs \in Seq(Messages)
  <2>1. G[p] \in Pages
    BY <1>10, <1>12
  <2> QED
    BY <1>10, <2>1, PageIs DEF Image0
<1>15. u.page[p].chat = c /\ u.page[p].type = "chat"
  <2>1. ~blank => G[p].chat = c /\ G[p].type = "chat"
    BY <1>6, <1>14 DEF Older, Image, blank
  <2> QED
    BY <1>13, <2>1
<1>16. /\ Distinct(u.page[p].msgs) /\ Len(u.page[p].msgs) <= Slots
       /\ ToSet(u.page[p].msgs) \subseteq ToSet(P[p].msgs)
       /\ m \in ToSet(u.page[p].msgs) /\ ToSet(G[p].msgs) \subseteq ToSet(u.page[p].msgs)
  <2> DEFINE g == G[p].msgs
  <2>1. Distinct(g) /\ Len(g) <= Slots /\ ToSet(g) \subseteq ToSet(P[p].msgs) /\ g \in Seq(Messages)
    BY <1>14 DEF Older, Image
  <2>2. CASE m \in ToSet(g)
    BY <1>13, <2>1, <2>2
  <2>3. CASE m \notin ToSet(g) /\ Len(g) >= Slots
    <3>1. Distinct(P[p].msgs) /\ P[p].msgs \in Seq(Messages) /\ Len(P[p].msgs) <= Slots
      BY <1>2 DEF Image
    <3> HIDE DEF g
    <3>2. ToSet(g) = ToSet(P[p].msgs)
      BY <2>1, <2>3, <3>1, FullHasAll
    <3> QED
      BY <1>6, <2>3, <3>2
  <2>4. CASE m \notin ToSet(g) /\ ~ (Len(g) >= Slots)
    <3>1. u.page[p].msgs = Append(g, m)
      BY <1>13, <2>4
    <3> HIDE DEF g
    <3>2. Distinct(Append(g, m))
      BY <2>1, <2>4, DistinctAppend
    <3>3. ToSet(Append(g, m)) = ToSet(g) \cup {m} /\ Len(Append(g, m)) = Len(g) + 1
      BY <2>1, AppendIs
    <3>4. Len(g) \in Nat /\ Slots \in Nat
      BY <2>1, SlotsIs
    <3>5. Len(Append(g, m)) <= Slots
      BY <2>4, <3>3, <3>4
    <3> QED
      BY <1>6, <2>1, <3>1, <3>2, <3>3, <3>5 DEF g
  <2> QED
    BY <2>2, <2>3, <2>4
<1>17. ASSUME NEW q \in DOMAIN G PROVE Older(u.page[q], P[q]) /\ u.page[q].next = G[q].next
  <2>1. CASE q = p
    BY <1>6, <1>13, <1>15, <1>16, <2>1 DEF Older, Image
  <2>2. CASE q # p
    <3>1. u.page[q] = G[q]
      BY <1>11, <2>2
    <3> QED
      BY <1>10, <3>1 DEF Image0
  <2> QED
    BY <2>1, <2>2
<1>18. Keeps(G, u.page)
  <2> SUFFICES ASSUME NEW q \in DOMAIN G
               PROVE  /\ q \in DOMAIN u.page
                      /\ G[q].chat \in Chats => u.page[q].chat = G[q].chat /\ u.page[q].type = "chat"
                      /\ ToSet(G[q].msgs) \subseteq ToSet(u.page[q].msgs)
    BY DEF Keeps
  <2>1. Older(G[q], P[q])
    BY <1>10 DEF Image0
  <2>2. G[q].chat \in Chats => G[q].type = "chat" /\ G[q].chat = P[q].chat
    BY <2>1, SlotsIs DEF Older, Image
  <2>3. CASE q = p
    BY <1>6, <1>12, <1>15, <1>16, <2>2, <2>3
  <2>4. CASE q # p
    BY <1>11, <1>12, <2>2, <2>4
  <2> QED
    BY <2>3, <2>4
<1>19. Image0(P, u)
  <2>1. Len(u.page) <= Len(P)
    BY <1>10, <1>11 DEF Image0
  <2>2. InRange(u.page, u.tips)
    BY <1>10, <1>11, <1>12, <1>17 DEF Image0, InRange
  <2>3. ASSUME NEW d \in Chats, u.tips[d].tail # 0 PROVE u.tips[d].tail \in PagesOf(u.page, d)
    <3>1. s.tips[d].tail \in PagesOf(G, d) /\ u.tips[d].tail = s.tips[d].tail
      BY <1>10, <1>11, <2>3 DEF Image0
    <3> QED
      BY <1>18, <3>1, KeepsIs
  <2> QED
    BY <1>12, <1>17, <2>1, <2>2, <2>3 DEF Image0
<1>20. Keeps(t.page, u.page)
  BY <1>10, <1>18, KeepsTwice
<1>21. OnPage(u.page, c, m)
  <2>1. p \in PagesOf(u.page, c)
    BY <1>10, <1>12, <1>15 DEF PagesOf
  <2> QED
    BY <1>16, <2>1 DEF OnPage
<1>22. u.free = 0 /\ u.ckpt = t.ckpt /\ u \in Replays
  BY <1>9, <1>11
<1>23. OnPage(u.page, w[n].chat, w[n].arg)
  BY <1>4, <1>5, <1>21
<1> QED
  BY <1>19, <1>20, <1>22, <1>23, StepCatches

LEMMA RedoCatches ==
  ASSUME NEW P \in Seq(Pages), NEW w \in Seq(Records), Speaks(P, w), NEW n \in DOMAIN w, NEW t,
         disk \in Seq(Pages), Caught(P, w, n - 1, t), meta.ckpt \in Nat
  PROVE  Caught(P, w, n, Redo(t, w[n]))
<1>1. w[n].type \in {"link", "insert", "checkpoint"}
  BY DEF Speaks, About, Ordered, Images
<1>2. CASE w[n].lsn < t.ckpt
  <2>1. Redo(t, w[n]) = t
    BY <1>2, RedoIs
  <2> QED
    BY <1>2, <2>1, SkipCatches
<1>3. CASE ~ (w[n].lsn < t.ckpt)
  <2>1. CASE w[n].type = "link"
    <3>1. Redo(t, w[n]) = Link([t EXCEPT !.page = Grown(t.page, w[n].page, "free")], w[n].chat, w[n].page, w[n].arg)
      BY <1>3, <2>1, RedoIs
    <3> QED
      BY <2>1, <3>1, LinkCatches
  <2>2. CASE w[n].type = "insert"
    <3>1. Redo(t, w[n]) = Reinsert(t, w[n])
      BY <1>3, <2>2, RedoIs
    <3> QED
      BY <2>2, <3>1, InsertCatches
  <2>3. CASE w[n].type = "checkpoint"
    <3>1. Redo(t, w[n]) = [t EXCEPT !.ckpt = w[n].lsn + 1]
      BY <1>3, <2>3, RedoIs
    <3> QED
      BY <2>3, <3>1, CheckpointCatches
  <2> QED
    BY <1>1, <2>1, <2>2, <2>3
<1> QED
  BY <1>2, <1>3

----------------------------------------------------------------------------
(* What is read from the heap.                                              *)

LEMMA RelinkedIs ==
  ASSUME NEW pages \in Seq(Pages)
  PROVE  /\ Relinked(pages) \in Seq(Pages) /\ Len(Relinked(pages)) = Len(pages)
         /\ \A p \in DOMAIN pages :
               /\ Relinked(pages)[p].type = pages[p].type /\ Relinked(pages)[p].chat = pages[p].chat
               /\ Relinked(pages)[p].msgs = pages[p].msgs
               /\ pages[p].type = "chat" => Relinked(pages)[p].next <= Len(pages)
               /\ pages[p].type # "chat" => Relinked(pages)[p] = pages[p]
<1> DEFINE later(p) == {q \in PagesOf(pages, pages[p].chat) : q > p}
           link(p) == IF later(p) = {} THEN 0 ELSE Min(later(p))
           new(p) == IF pages[p].type # "chat" THEN pages[p] ELSE [pages[p] EXCEPT !.next = link(p)]
<1>1. DOMAIN pages = 1..Len(pages) /\ Len(pages) \in Nat
  OBVIOUS
<1>2. ASSUME NEW p \in DOMAIN pages
      PROVE  /\ new(p) \in Pages /\ new(p).type = pages[p].type /\ new(p).chat = pages[p].chat
             /\ new(p).msgs = pages[p].msgs
             /\ pages[p].type = "chat" => new(p).next <= Len(pages)
  <2>1. later(p) \subseteq 1..Len(pages)
    BY <1>1 DEF PagesOf
  <2>2. link(p) \in 0..Len(pages)
    <3> HIDE DEF later
    <3>1. CASE later(p) = {}
      BY <1>1, <3>1
    <3>2. CASE later(p) # {}
      <4>1. Min(later(p)) \in later(p)
        <5>1. later(p) \subseteq Nat
          BY <2>1
        <5> QED
          BY <3>2, <5>1, MinIs
      <4> QED
        BY <2>1, <3>2, <4>1
    <3> QED
      BY <3>1, <3>2
  <2>3. PICK n \in 0..Len(pages) : n = link(p)
    BY <2>2
  <2>4. PICK r \in Pages : r = pages[p]
    OBVIOUS
  <2>5. /\ [r EXCEPT !.next = n] = [type |-> r.type, chat |-> r.chat, next |-> n, msgs |-> r.msgs]
        /\ [r EXCEPT !.next = n] \in Pages
    BY SetNext
  <2> HIDE DEF link
  <2>6. new(p) = IF r.type # "chat" THEN r ELSE [r EXCEPT !.next = n]
    BY <2>3, <2>4
  <2>7. CASE r.type = "chat"
    <3> HIDE DEF new
    <3>1. new(p) = [type |-> r.type, chat |-> r.chat, next |-> n, msgs |-> r.msgs]
      BY <2>5, <2>6, <2>7
    <3>2. new(p) \in Pages
      BY <2>5, <2>6, <2>7
    <3> QED
      BY <2>4, <3>1, <3>2
  <2>8. CASE r.type # "chat"
    <3> HIDE DEF new
    <3> QED
      BY <2>4, <2>6, <2>8
  <2> QED
    BY <2>7, <2>8
<1>3. Relinked(pages) = [p \in DOMAIN pages |-> new(p)]
  BY DEF Relinked
<1> HIDE DEF new
<1>4. Relinked(pages) = [p \in 1..Len(pages) |-> new(p)]
  BY <1>1, <1>3
<1>5. Relinked(pages) \in Seq(Pages) /\ Len(Relinked(pages)) = Len(pages)
  BY <1>1, <1>2, <1>4
<1>6. \A p \in DOMAIN pages : Relinked(pages)[p] = new(p)
  BY <1>3
<1>7. \A p \in DOMAIN pages : pages[p].type # "chat" => new(p) = pages[p]
  BY DEF new
<1> QED
  BY <1>2, <1>5, <1>6, <1>7

LEMMA SlotsFinite ==
  ASSUME NEW pages \in Seq(Pages), NEW ids, ids \subseteq DOMAIN pages
  PROVE  IsFiniteSet(UNION {{p} \X DOMAIN pages[p].msgs : p \in ids})
<1> DEFINE one(p) == {p} \X DOMAIN pages[p].msgs
<1>1. ASSUME NEW p \in DOMAIN pages PROVE IsFiniteSet(one(p))
  <2>1. pages[p].msgs \in Seq(Messages)
    BY PageIs
  <2>2. DOMAIN pages[p].msgs = 1..Len(pages[p].msgs) /\ Len(pages[p].msgs) \in Nat
    BY <2>1
  <2>3. IsFiniteSet(DOMAIN pages[p].msgs)
    BY <2>2, FS_Interval
  <2>4. IsFiniteSet({p})
    BY FS_Singleton
  <2> QED
    BY <2>3, <2>4, FS_Product
<1>2. IsFiniteSet(ids)
  <2>1. DOMAIN pages = 1..Len(pages) /\ Len(pages) \in Nat
    OBVIOUS
  <2>2. IsFiniteSet(DOMAIN pages)
    BY <2>1, FS_Interval
  <2>3. ids \in SUBSET DOMAIN pages
    OBVIOUS
  <2> QED
    BY <2>2, <2>3, FS_Subset
<1>3. IsFiniteSet({one(p) : p \in ids})
  <2> HIDE DEF one
  <2>1. \A S \in {one(p) : p \in ids} : IsFiniteSet(S)
    BY <1>1
  <2> DEFINE f == [p \in ids |-> one(p)]
  <2>2. f \in Surjection(ids, {one(p) : p \in ids})
    BY DEF Surjection
  <2> HIDE DEF f
  <2> QED
    BY <1>2, <2>2, FS_Surjection DEF ExistsSurjection
<1> HIDE DEF one
<1>4. \A S \in {one(p) : p \in ids} : IsFiniteSet(S)
  BY <1>1
<1>5. IsFiniteSet(UNION {one(p) : p \in ids})
  BY <1>3, <1>4, FS_UNION
<1> QED
  BY <1>5 DEF one

LEMMA TipIs ==
  ASSUME NEW pages \in Seq(Pages), NEW c \in Chats
  PROVE  /\ TipOf(pages, c) \in Tips
         /\ TipOf(pages, c).head <= Len(pages) /\ TipOf(pages, c).tail <= Len(pages)
         /\ TipOf(pages, c).tail # 0 => TipOf(pages, c).tail \in PagesOf(pages, c)
<1> DEFINE ids == PagesOf(pages, c)
           slots == UNION {{p} \X DOMAIN pages[p].msgs : p \in ids}
<1>1. /\ DOMAIN pages = 1..Len(pages) /\ Len(pages) \in Nat
      /\ ids \subseteq DOMAIN pages /\ ids \subseteq Nat /\ ids \subseteq 0..Len(pages)
  BY DEF PagesOf
<1>2. CASE ids = {}
  <2>1. TipOf(pages, c) = [head |-> 0, tail |-> 0, count |-> 0]
    BY <1>2 DEF TipOf, NoTip
  <2> QED
    BY <1>1, <2>1 DEF Tips
<1>3. CASE ids # {}
  <2>1. Min(ids) \in ids /\ Max(ids) \in ids
    <3> HIDE DEF ids
    <3> QED
      BY <1>1, <1>3, MinIs, MaxIs
  <2>2. Cardinality(slots) \in Nat
    <3>1. IsFiniteSet(slots)
      <4> HIDE DEF ids
      <4> QED
        BY <1>1, SlotsFinite
    <3> HIDE DEF slots
    <3> QED
      BY <3>1, FS_CardinalityType
  <2> HIDE DEF slots
  <2>3. TipOf(pages, c) = [head |-> Min(ids), tail |-> Max(ids), count |-> Cardinality(slots)]
    BY <1>3 DEF TipOf, slots
  <2> HIDE DEF ids
  <2>4. TipOf(pages, c).tail \in ids
    BY <2>1, <2>3
  <2>5. TipOf(pages, c).head \in 0..Len(pages) /\ TipOf(pages, c).tail \in 0..Len(pages) /\ TipOf(pages, c) \in Tips
    BY <1>1, <2>1, <2>2, <2>3 DEF Tips
  <2> QED
    BY <1>1, <2>4, <2>5 DEF ids
<1> QED
  BY <1>2, <1>3

----------------------------------------------------------------------------
(* A replay.                                                                *)

\* The function that Replay defines, up to k.
ReplayedUpTo(s, w, after, k) ==
    after = [n \in 0..k |-> IF n = 0 THEN s ELSE Redo(after[n - 1], w[n])]

LEMMA ReplayExists ==
  ASSUME NEW s, NEW w, NEW k \in Nat
  PROVE  \E after : ReplayedUpTo(s, w, after, k)
<1> DEFINE Without == {n \in Nat : ~ \E after : ReplayedUpTo(s, w, after, n)}
<1> SUFFICES ASSUME Without # {} PROVE FALSE
  OBVIOUS
<1>1. PICK n \in Without : \A i \in Without : n <= i
  BY LeastNumber
<1>2. n # 0
  <2>1. ReplayedUpTo(s, w, [i \in {0} |-> s], 0)
    BY DEF ReplayedUpTo
  <2> QED
    BY <2>1
<1>3. PICK after : ReplayedUpTo(s, w, after, n - 1)
  BY <1>1, <1>2
<1> DEFINE more == [i \in 0..n |-> IF i < n THEN after[i] ELSE Redo(after[i - 1], w[i])]
<1>4. ReplayedUpTo(s, w, more, n)
  <2>1. \A i \in 0..n : i < n => i \in 0..(n - 1) /\ (i # 0 => i - 1 \in 0..(n - 1))
    BY <1>1
  <2>2. \A i \in 0..(n - 1) : after[i] = IF i = 0 THEN s ELSE Redo(after[i - 1], w[i])
    BY <1>3 DEF ReplayedUpTo
  <2>3. \A i \in 0..n : more[i] = IF i = 0 THEN s ELSE Redo(more[i - 1], w[i])
    BY <1>1, <1>2, <2>1, <2>2
  <2> QED
    BY <2>3 DEF ReplayedUpTo
<1> QED
  BY <1>1, <1>4

LEMMA ReplayIs ==
  ASSUME NEW s, NEW w \in Seq(Records)
  PROVE  \E after : /\ after[0] = s /\ Replay(s, w) = after[Len(w)]
                    /\ \A n \in 1..Len(w) : after[n] = Redo(after[n - 1], w[n])
<1>1. Len(w) \in Nat
  OBVIOUS
<1> DEFINE after == CHOOSE f : ReplayedUpTo(s, w, f, Len(w))
<1>2. ReplayedUpTo(s, w, after, Len(w))
  BY <1>1, ReplayExists
<1>3. Replay(s, w) = after[Len(w)]
  BY DEF Replay, ReplayedUpTo
<1> HIDE DEF after
<1>4. after[0] = s /\ \A n \in 1..Len(w) : after[n] = Redo(after[n - 1], w[n])
  BY <1>1, <1>2 DEF ReplayedUpTo
<1> QED
  BY <1>3, <1>4

LEMMA ReplayCatches ==
  ASSUME NEW P \in Seq(Pages), NEW w \in Seq(Records), Speaks(P, w), meta.ckpt \in Nat, disk \in Seq(Pages),
         NEW s, Caught(P, w, 0, s)
  PROVE  Caught(P, w, Len(w), Replay(s, w))
<1>1. Len(w) \in Nat
  OBVIOUS
<1>2. PICK after : /\ after[0] = s /\ Replay(s, w) = after[Len(w)]
                   /\ \A n \in 1..Len(w) : after[n] = Redo(after[n - 1], w[n])
  BY ReplayIs
<1> DEFINE Behind == {n \in 0..Len(w) : ~Caught(P, w, n, after[n])}
<1>3. Behind = {}
  <2> SUFFICES ASSUME Behind # {} PROVE FALSE
    OBVIOUS
  <2>6. Behind \subseteq Nat
    BY <1>1
  <2>1. PICK n \in Behind : \A i \in Behind : n <= i
    <3> HIDE DEF Behind
    <3> QED
      BY <2>6, LeastNumber
  <2>2. n # 0
    BY <1>2, <2>1
  <2>3. n \in 1..Len(w) /\ n \in DOMAIN w /\ n - 1 \in 0..Len(w) /\ ~(n <= n - 1)
    BY <1>1, <2>2
  <2>4. Caught(P, w, n - 1, after[n - 1])
    BY <2>1, <2>3
  <2>5. Caught(P, w, n, Redo(after[n - 1], w[n]))
    BY <2>3, <2>4, RedoCatches
  <2> QED
    BY <1>2, <2>3, <2>5
<1>4. Len(w) \in 0..Len(w)
  BY <1>1
<1> QED
  BY <1>2, <1>3, <1>4

\* What open makes of the heap alone.
FromHeap == [page |-> Relinked(disk), free |-> diskFree, tips |-> [c \in Chats |-> TipOf(disk, c)],
             ckpt |-> meta.ckpt]

LEMMA HeapIs ==
  ASSUME disk \in Seq(Pages), diskFree \in Nat, meta.ckpt \in Nat,
         \A p \in DOMAIN disk : disk[p].type = "free" => disk[p].next <= Len(disk)
  PROVE  /\ FromHeap \in Replays /\ FromHeap.page = Relinked(disk) /\ FromHeap.free = diskFree
         /\ FromHeap.ckpt = meta.ckpt
         /\ Relinked(disk) \in Seq(Pages) /\ Len(Relinked(disk)) = Len(disk) /\ DOMAIN Relinked(disk) = DOMAIN disk
         /\ \A p \in DOMAIN disk : /\ Relinked(disk)[p].type = disk[p].type
                                   /\ Relinked(disk)[p].chat = disk[p].chat
                                   /\ Relinked(disk)[p].msgs = disk[p].msgs
         /\ InRange(FromHeap.page, FromHeap.tips)
         /\ \A c \in Chats : FromHeap.tips[c] = TipOf(disk, c)
         /\ \A c \in Chats : FromHeap.tips[c].tail # 0 => FromHeap.tips[c].tail \in PagesOf(FromHeap.page, c)
<1> DEFINE R == Relinked(disk)
           ts == [c \in Chats |-> TipOf(disk, c)]
<1>1. /\ R \in Seq(Pages) /\ Len(R) = Len(disk)
      /\ \A p \in DOMAIN disk :
            /\ R[p].type = disk[p].type /\ R[p].chat = disk[p].chat /\ R[p].msgs = disk[p].msgs
            /\ disk[p].type = "chat" => R[p].next <= Len(disk)
            /\ disk[p].type # "chat" => R[p] = disk[p]
  BY RelinkedIs
<1> HIDE DEF R
<1>2. DOMAIN R = DOMAIN disk
  BY <1>1
<1>3. ASSUME NEW c \in Chats
      PROVE  /\ ts[c] \in Tips /\ ts[c].head <= Len(R) /\ ts[c].tail <= Len(R)
             /\ ts[c].tail # 0 => ts[c].tail \in PagesOf(disk, c)
  <2>1. /\ TipOf(disk, c) \in Tips
        /\ TipOf(disk, c).head <= Len(disk) /\ TipOf(disk, c).tail <= Len(disk)
        /\ TipOf(disk, c).tail # 0 => TipOf(disk, c).tail \in PagesOf(disk, c)
    BY TipIs
  <2>2. ts[c] = TipOf(disk, c)
    OBVIOUS
  <2> HIDE DEF ts
  <2> QED
    BY <1>1, <2>1, <2>2
<1>4. ts \in [Chats -> Tips] /\ \A c \in Chats : ts[c] = TipOf(disk, c)
  BY <1>3
<1> HIDE DEF ts
<1>5. FromHeap = [page |-> R, free |-> diskFree, tips |-> ts, ckpt |-> meta.ckpt]
  BY DEF FromHeap, R, ts
<1>6. /\ FromHeap.page = R /\ FromHeap.free = diskFree /\ FromHeap.ckpt = meta.ckpt
      /\ FromHeap.tips = ts /\ FromHeap \in Replays
  BY <1>1, <1>4, <1>5 DEF Replays
<1>7. ASSUME NEW p \in DOMAIN R PROVE R[p].next <= Len(R)
  <2>1. disk[p].type \in {"chat", "free"}
    BY <1>2, PageIs
  <2> QED
    BY <1>1, <1>2, <2>1
<1>8. InRange(R, ts)
  BY <1>3, <1>7 DEF InRange
<1>9. \A c \in Chats : PagesOf(disk, c) = PagesOf(R, c)
  BY <1>1, <1>2 DEF PagesOf
<1>10. \A c \in Chats : ts[c].tail # 0 => ts[c].tail \in PagesOf(R, c)
  BY <1>3, <1>9
<1> QED
  BY <1>1, <1>2, <1>4, <1>6, <1>8, <1>10 DEF R

\* The heap is a replay of no record.
LEMMA HeapCatches ==
  ASSUME NEW P \in Seq(Pages), NEW w \in Seq(Records), Recoverable(P, w),
         disk \in Seq(Pages), diskFree = 0, meta.ckpt \in Nat,
         \A p \in DOMAIN disk : disk[p].type = "free" => disk[p].next <= Len(disk)
  PROVE  Caught(P, w, 0, FromHeap)
<1>1. /\ FromHeap \in Replays /\ FromHeap.page = Relinked(disk) /\ FromHeap.free = diskFree
      /\ FromHeap.ckpt = meta.ckpt
  BY HeapIs
<1>2. /\ Relinked(disk) \in Seq(Pages) /\ Len(Relinked(disk)) = Len(disk) /\ DOMAIN Relinked(disk) = DOMAIN disk
      /\ \A p \in DOMAIN disk : /\ Relinked(disk)[p].type = disk[p].type
                                /\ Relinked(disk)[p].chat = disk[p].chat
                                /\ Relinked(disk)[p].msgs = disk[p].msgs
  BY HeapIs
<1>3. /\ InRange(FromHeap.page, FromHeap.tips)
      /\ \A c \in Chats : FromHeap.tips[c].tail # 0 => FromHeap.tips[c].tail \in PagesOf(FromHeap.page, c)
  BY HeapIs
<1>4. Len(disk) <= Len(P) /\ \A p \in DOMAIN disk : Older(disk[p], P[p])
  BY DEF Recoverable, Lags
<1>5. \A p \in DOMAIN disk : Older(Relinked(disk)[p], P[p])
  BY <1>2, <1>4 DEF Older, Image
<1>6. \A c \in Chats, m \in Messages : OnPage(disk, c, m) => OnPage(Relinked(disk), c, m)
  BY <1>2 DEF OnPage, PagesOf
<1>7. \A c \in Chats, m \in Messages : ~InLog(w, 0, c, m)
  BY DEF InLog
<1> QED
  <2>1. Len(disk) \in Nat /\ Len(disk) <= Len(FromHeap.page)
    BY <1>1, <1>2
  <2> QED
    BY <1>1, <1>2, <1>3, <1>4, <1>5, <1>6, <1>7, <2>1 DEF Caught

----------------------------------------------------------------------------
(* The types of the steps.                                                  *)

LEMMA CallIs ==
  ASSUME NEW o \in Calls
  PROVE  /\ o.at \in {"idle", "down", "insert", "logged", "free", "link", "rewrite", "meta", "rotate"}
         /\ o.at \in {"insert", "logged", "free", "link", "rewrite"} => o.chat \in Chats
         /\ o.at = "link" => o.page \in Nat \ {0}
         /\ o.at = "rewrite" => o.msgs \in Seq(Messages)
         /\ o.at \in {"meta", "rotate"} => o.then \in {"idle", "down"}
         /\ o = Idle => o.at = "idle"
  BY DEF Calls, Idle

LEMMA CallsAre ==
  /\ Idle \in Calls /\ [at |-> "down"] \in Calls
  /\ \A c \in Chats : /\ [at |-> "insert", chat |-> c] \in Calls /\ [at |-> "logged", chat |-> c] \in Calls
                      /\ [at |-> "free", chat |-> c] \in Calls
                      /\ \A p \in Nat \ {0} : [at |-> "link", chat |-> c, page |-> p] \in Calls
                      /\ \A ms \in Seq(Messages) : [at |-> "rewrite", chat |-> c, msgs |-> ms] \in Calls
  /\ \A then \in {"idle", "down"} : /\ [at |-> "meta", then |-> then] \in Calls
                                    /\ [at |-> "rotate", then |-> then] \in Calls
                                    /\ [at |-> then] \in Calls
  BY DEF Calls, Idle

LEMMA RecIs ==
  ASSUME NEW type \in {"link", "insert", "trim", "checkpoint"}, NEW c \in Chats \cup {None},
         NEW p \in Nat, NEW x \in Nat, nextLsn \in Nat
  PROVE  /\ Rec(type, c, p, x) \in Records
         /\ Rec(type, c, p, x).type = type /\ Rec(type, c, p, x).lsn = nextLsn
         /\ Rec(type, c, p, x).chat = c /\ Rec(type, c, p, x).page = p /\ Rec(type, c, p, x).arg = x
  BY DEF Rec, Records

\* A step that appends a record.
LEMMA LogsIs ==
  ASSUME Typed, NEW r \in Records, Logs(r)
  PROVE  /\ wal' \in Seq(Records) /\ synced' \in 0..Len(wal') /\ appends' \in 0..(SyncEvery - 1)
         /\ nextLsn' \in Nat /\ nextLsn' = nextLsn + 1
         /\ Len(wal') = Len(wal) + 1 /\ wal'[Len(wal')] = r
         /\ DOMAIN wal' = 1..Len(wal') /\ \A i \in DOMAIN wal : i \in DOMAIN wal' /\ wal'[i] = wal[i]
         /\ synced' \in {synced, Len(wal')}
<1>1. /\ wal \in Seq(Records) /\ nextLsn \in Nat /\ appends \in 0..(SyncEvery - 1) /\ synced \in 0..Len(wal)
      /\ SyncEvery \in Nat \ {0}
  BY SlotsIs DEF Typed
<1>2. wal' = Append(wal, r) /\ nextLsn' = nextLsn + 1
  BY DEF Logs
<1>3. /\ wal' \in Seq(Records) /\ Len(wal') = Len(wal) + 1 /\ DOMAIN wal' = 1..(Len(wal) + 1) /\ DOMAIN wal = 1..Len(wal)
      /\ \A i \in DOMAIN wal : wal'[i] = wal[i]
      /\ wal'[Len(wal) + 1] = r
  BY <1>1, <1>2, AppendIs
<1>4. appends' \in 0..(SyncEvery - 1)
  <2>1. CASE appends + 1 >= SyncEvery
    BY <1>1, <2>1 DEF Logs
  <2>2. CASE ~ (appends + 1 >= SyncEvery)
    BY <1>1, <2>2 DEF Logs
  <2> QED
    BY <2>1, <2>2
<1>5. synced' \in {synced, Len(wal')}
  BY DEF Logs
<1>6. Len(wal) \in Nat
  BY <1>1
<1> QED
  BY <1>1, <1>2, <1>3, <1>4, <1>5, <1>6

LEMMA TypedStable ==
  ASSUME Typed, NEW all \in SUBSET Messages, Stable(all)
  PROVE  stable' \subseteq Messages
  BY DEF Typed, Stable

\* The page an allocation hands out, for a free list that is empty or points into the file.
LEMMA AllocIs ==
  ASSUME NEW s \in Stores, NEW c \in Chats, s.free = 0 \/ s.free \in DOMAIN s.page,
         NEW u, u = AllocFor(s, c), NEW p, p = NewPage(s)
  PROVE  /\ u \in Stores /\ u.tips = s.tips
         /\ p \in Nat \ {0} /\ p \in DOMAIN u.page /\ Len(u.page) = IF s.free = 0 THEN Len(s.page) + 1 ELSE Len(s.page)
         /\ u.free = IF s.free = 0 THEN 0 ELSE s.page[s.free].next
         /\ DOMAIN s.page \subseteq DOMAIN u.page
         /\ u.page[p] = [type |-> "chat", chat |-> c, next |-> 0, msgs |-> <<>>]
         /\ \A q \in DOMAIN u.page : q # p => q \in DOMAIN s.page /\ u.page[q] = s.page[q]
<1> DEFINE new == [type |-> "chat", chat |-> c, next |-> 0, msgs |-> <<>>]
           n == s.page[s.free].next
<1>1. s.page \in Seq(Pages) /\ s.free \in Nat /\ s.tips \in [Chats -> Tips] /\ DOMAIN s.page = 1..Len(s.page)
      /\ Len(s.page) \in Nat
  BY DEF Stores
<1>2. [Blank("chat") EXCEPT !.chat = c] = new /\ new \in Pages /\ Blank("chat") \in Pages
  <2>1. Blank("chat") \in Pages
    BY BlankIs
  <2>2. PICK b \in Pages : b = Blank("chat")
    BY <2>1
  <2>3. [b EXCEPT !.chat = c] = [type |-> b.type, chat |-> c, next |-> b.next, msgs |-> b.msgs]
        /\ [b EXCEPT !.chat = c] \in Pages
    BY SetChat
  <2>4. b.type = "chat" /\ b.next = 0 /\ b.msgs = <<>>
    BY <2>2 DEF Blank
  <2> QED
    BY <2>1, <2>2, <2>3, <2>4
<1>3. CASE s.free = 0
  <2>1. p = Len(s.page) + 1
    BY <1>3 DEF NewPage
  <2>2. PICK pages : pages = Append(s.page, Blank("chat"))
    OBVIOUS
  <2>3. PICK pages2 : pages2 = Append(s.page, new)
    OBVIOUS
  <2>4. /\ pages2 \in Seq(Pages) /\ Len(pages2) = Len(s.page) + 1 /\ DOMAIN pages2 = 1..(Len(s.page) + 1)
        /\ \A i \in DOMAIN s.page : pages2[i] = s.page[i]
        /\ pages2[Len(s.page) + 1] = new
    <3> HIDE DEF new
    <3> QED
      BY <1>1, <1>2, <2>3, AppendIs
  <2>5. /\ pages \in Seq(Pages) /\ Len(pages) = Len(s.page) + 1 /\ DOMAIN pages = 1..(Len(s.page) + 1)
        /\ \A i \in DOMAIN s.page : pages[i] = s.page[i]
        /\ pages[Len(s.page) + 1] = Blank("chat")
    BY <1>1, <1>2, <2>2, AppendIs
  <2>6. [pages EXCEPT ![p].chat = c] = pages2
    <3> HIDE DEF new
    <3>1. [pages EXCEPT ![p].chat = c] = [pages EXCEPT ![p] = new]
      BY <1>2, <2>1, <2>5
    <3>2. pages2 = [i \in 1..(Len(s.page) + 1) |-> pages2[i]]
      BY <2>4
    <3>3. [pages EXCEPT ![p] = new] = [i \in 1..(Len(s.page) + 1) |-> IF i = p THEN new ELSE pages[i]]
      BY <2>5
    <3>4. \A i \in 1..(Len(s.page) + 1) : i = Len(s.page) + 1 \/ i \in DOMAIN s.page
      BY <1>1
    <3>5. \A i \in 1..(Len(s.page) + 1) : pages2[i] = IF i = p THEN new ELSE pages[i]
      BY <1>1, <2>1, <2>4, <2>5, <3>4
    <3> QED
      BY <3>1, <3>2, <3>3, <3>5
  <2>7. Alloc(s) = [s EXCEPT !.page = pages]
    BY <1>3, <2>2 DEF Alloc
  <2>8. u = [[s EXCEPT !.page = pages] EXCEPT !.page = pages2]
    <3>1. u = [[s EXCEPT !.page = pages] EXCEPT !.page[p].chat = c]
      BY <2>7 DEF AllocFor
    <3>2. [[s EXCEPT !.page = pages] EXCEPT !.page[p].chat = c] =
             [[s EXCEPT !.page = pages] EXCEPT !.page = [pages EXCEPT ![p].chat = c]]
      BY DEF Stores
    <3> QED
      BY <2>6, <3>1, <3>2
  <2>9. u \in Stores /\ u.tips = s.tips /\ u.free = s.free /\ u.page = pages2
    BY <1>1, <2>4, <2>8 DEF Stores
  <2>10. \A q \in 1..(Len(s.page) + 1) : q # Len(s.page) + 1 => q \in DOMAIN s.page
    BY <1>1
  <2>11. /\ p \in Nat \ {0} /\ p \in DOMAIN u.page /\ Len(u.page) = Len(s.page) + 1
         /\ DOMAIN s.page \subseteq DOMAIN u.page
    BY <1>1, <2>1, <2>4, <2>9
  <2> QED
    BY <1>3, <2>1, <2>4, <2>9, <2>10, <2>11
<1>4. CASE s.free # 0
  <2>1. s.free \in DOMAIN s.page /\ p = s.free
    BY <1>4 DEF NewPage
  <2>2. n \in Nat
    <3>1. s.page[s.free] \in Pages
      BY <1>1, <2>1
    <3> QED
      BY <3>1, PageIs
  <2> HIDE DEF n
  <2>3. PICK pages : pages = [s.page EXCEPT ![p] = Blank("chat")]
    OBVIOUS
  <2>4. PICK pages2 : pages2 = [s.page EXCEPT ![p] = new]
    OBVIOUS
  <2>5. /\ pages2 \in Seq(Pages) /\ Len(pages2) = Len(s.page) /\ DOMAIN pages2 = DOMAIN s.page
        /\ pages2[p] = new /\ \A q \in DOMAIN s.page : q # p => pages2[q] = s.page[q]
    <3> HIDE DEF new
    <3> QED
      BY <1>1, <1>2, <2>1, <2>4
  <2>6. [pages EXCEPT ![p].chat = c] = pages2
    <3> HIDE DEF new
    <3>1. [pages EXCEPT ![p].chat = c] = [pages EXCEPT ![p] = new]
      BY <1>2, <2>1, <2>3
    <3> QED
      BY <2>1, <2>3, <2>4, <3>1
  <2>7. Alloc(s) = [[s EXCEPT !.free = n] EXCEPT !.page = pages]
    <3>1. Alloc(s) = [[s EXCEPT !.free = n] EXCEPT !.page[s.free] = Blank("chat")]
      BY <1>4 DEF Alloc, n
    <3>2. [[s EXCEPT !.free = n] EXCEPT !.page[s.free] = Blank("chat")] = [[s EXCEPT !.free = n] EXCEPT !.page = pages]
      BY <2>1, <2>3 DEF Stores
    <3> QED
      BY <3>1, <3>2
  <2>8. u = [[[s EXCEPT !.free = n] EXCEPT !.page = pages] EXCEPT !.page = pages2]
    <3>1. u = [[[s EXCEPT !.free = n] EXCEPT !.page = pages] EXCEPT !.page[p].chat = c]
      BY <2>7 DEF AllocFor
    <3>2. [[[s EXCEPT !.free = n] EXCEPT !.page = pages] EXCEPT !.page[p].chat = c] =
             [[[s EXCEPT !.free = n] EXCEPT !.page = pages] EXCEPT !.page = [pages EXCEPT ![p].chat = c]]
      BY DEF Stores
    <3> QED
      BY <2>6, <3>1, <3>2
  <2>9. u \in Stores /\ u.tips = s.tips /\ u.free = n /\ u.page = pages2
    BY <1>1, <2>2, <2>5, <2>8 DEF Stores
  <2> QED
    BY <1>1, <1>4, <2>1, <2>5, <2>9 DEF n
<1> QED
  BY <1>3, <1>4

\* A step that changes nothing but the pages, the heap, the tips and the call.
LEMMA TypedPages ==
  ASSUME Typed, page' \in Seq(Pages), disk' \in Seq(Pages), free' \in Nat, diskFree' \in Nat,
         tips' \in [Chats -> Tips], op' \in Calls,
         op'.at \in {"link", "insert", "logged"} => next <= MaxMsgs,
         UNCHANGED <<fsynced, log, ckpt, meta, history, counters>>
  PROVE  Typed'
<1>1. UNCHANGED <<safe, safeFree, wal, synced, appends, nextLsn, ckpt, meta, next, kept, stable,
                  trims, ckpts, kills, losses>>
  BY DEF fsynced, log, history, counters
<1> QED
  BY <1>1 DEF Typed

LEMMA NowIs ==
  ASSUME Typed
  PROVE  Now \in Stores /\ Now.page = page /\ Now.free = free /\ Now.tips = tips
  BY DEF Typed, Now, Stores

LEMMA AppendTyped ==
  ASSUME Typed, free = 0 \/ free \in DOMAIN page, NEW c \in Chats, AppendMsg(c)
  PROVE  Typed'
<1>1. next <= MaxMsgs /\ UNCHANGED <<fsynced, log, ckpt, meta, history, counters>>
  BY DEF AppendMsg
<1>2. CASE tips[c].tail # 0 /\ ~IsFull(page[tips[c].tail])
  <2>1. op' = [at |-> "insert", chat |-> c] /\ UNCHANGED <<page, free, tips, disk, diskFree>>
    BY <1>2 DEF AppendMsg, store, heap
  <2>2. op' \in Calls
    BY <2>1, CallsAre
  <2>3. page' \in Seq(Pages) /\ disk' \in Seq(Pages) /\ free' \in Nat /\ diskFree' \in Nat /\ tips' \in [Chats -> Tips]
    BY <2>1 DEF Typed
  <2> QED
    BY <1>1, <2>2, <2>3, TypedPages
<1>3. CASE ~ (tips[c].tail # 0 /\ ~IsFull(page[tips[c].tail]))
  <2>1. /\ Becomes(AllocFor(Now, c)) /\ disk' = Grown(disk, Len(page'), "chat")
        /\ op' = [at |-> "link", chat |-> c, page |-> NewPage(Now)] /\ UNCHANGED diskFree
    BY <1>3 DEF AppendMsg
  <2>2. PICK u, p : u = AllocFor(Now, c) /\ p = NewPage(Now)
    OBVIOUS
  <2>3. u \in Stores /\ p \in Nat \ {0}
    BY <2>2, NowIs, AllocIs
  <2>4. page' \in Seq(Pages) /\ free' \in Nat /\ tips' \in [Chats -> Tips]
    BY <2>1, <2>2, <2>3 DEF Becomes, Stores
  <2>5. disk' \in Seq(Pages) /\ diskFree' \in Nat
    <3>1. disk \in Seq(Pages) /\ Len(page') \in Nat /\ diskFree \in Nat
      BY <2>4 DEF Typed
    <3> QED
      BY <2>1, <3>1, GrownIs
  <2>6. op' \in Calls
    BY <2>1, <2>2, <2>3, CallsAre
  <2> QED
    BY <1>1, <2>4, <2>5, <2>6, TypedPages
<1> QED
  BY <1>2, <1>3

LEMMA InsertTyped ==
  ASSUME Typed, Insert
  PROVE  Typed'
<1>1. /\ op.at = "insert" /\ op' = [at |-> "logged", chat |-> op.chat]
      /\ page' = [page EXCEPT ![tips[op.chat].tail].msgs = Append(@, next)]
      /\ UNCHANGED <<free, tips, heap, fsynced, log, ckpt, meta, history, counters>>
  BY DEF Insert
<1>2. op.chat \in Chats /\ next \in Messages
  BY <1>1, CallIs DEF Typed, Messages
<1>3. op' \in Calls
  BY <1>1, <1>2, CallsAre
<1>4. page' \in Seq(Pages)
  <2>1. PICK p : p = tips[op.chat].tail
    OBVIOUS
  <2>2. CASE p \in DOMAIN page
    <3>1. page[p] \in Pages /\ page \in Seq(Pages)
      BY <2>2 DEF Typed
    <3>2. Append(page[p].msgs, next) \in Seq(Messages)
      BY <1>2, <3>1, PageIs
    <3>3. [page[p] EXCEPT !.msgs = Append(page[p].msgs, next)] \in Pages
      BY <3>1, <3>2, SetMsgs
    <3>4. page' = [page EXCEPT ![p] = [page[p] EXCEPT !.msgs = Append(page[p].msgs, next)]]
      BY <1>1, <2>1
    <3> QED
      BY <2>2, <3>1, <3>3, <3>4
  <2>3. CASE p \notin DOMAIN page
    <3>1. page' = page
      <4>1. page \in Seq(Pages)
        BY DEF Typed
      <4> QED
        BY <1>1, <2>1, <2>3, <4>1
    <3> QED
      BY <3>1 DEF Typed
  <2> QED
    BY <2>2, <2>3
<1>5. disk' \in Seq(Pages) /\ free' \in Nat /\ diskFree' \in Nat /\ tips' \in [Chats -> Tips] /\ next <= MaxMsgs
  BY <1>1 DEF Typed, heap
<1> QED
  BY <1>1, <1>3, <1>4, <1>5, TypedPages

LEMMA LinkTyped ==
  ASSUME Typed, op.page \in DOMAIN page, LinkPage
  PROVE  Typed'
<1>1. /\ op.at = "link" /\ op' = [at |-> "insert", chat |-> op.chat]
      /\ Logs(Rec("link", op.chat, op.page, tips[op.chat].tail))
      /\ Becomes(Link(Now, op.chat, op.page, tips[op.chat].tail))
      /\ Stable(stable)
      /\ UNCHANGED <<heap, fsynced, ckpt, meta, next, kept, counters>>
  BY DEF LinkPage
<1>2. op.chat \in Chats /\ op.page \in Nat \ {0} /\ tips[op.chat].tail \in Nat /\ nextLsn \in Nat
  BY <1>1, CallIs DEF Typed, Tips
<1>3. PICK u : u = Link(Now, op.chat, op.page, tips[op.chat].tail)
  OBVIOUS
<1>4. u \in Stores
  BY <1>2, <1>3, NowIs, LinkIs
<1>5. page' \in Seq(Pages) /\ free' \in Nat /\ tips' \in [Chats -> Tips]
  BY <1>1, <1>3, <1>4 DEF Becomes, Stores
<1>6. Rec("link", op.chat, op.page, tips[op.chat].tail) \in Records
  BY <1>2, RecIs
<1>7. wal' \in Seq(Records) /\ synced' \in 0..Len(wal') /\ appends' \in 0..(SyncEvery - 1) /\ nextLsn' \in Nat
  BY <1>1, <1>6, LogsIs
<1>8. stable' \subseteq Messages
  BY <1>1, TypedStable DEF Typed
<1>9. op' \in Calls
  BY <1>1, <1>2, CallsAre
<1>10. UNCHANGED <<disk, diskFree, safe, safeFree, ckpt, meta, next, kept, trims, ckpts, kills, losses>> /\ next <= MaxMsgs
  BY <1>1 DEF heap, fsynced, counters, Typed
<1> QED
  BY <1>5, <1>7, <1>8, <1>9, <1>10 DEF Typed

LEMMA LogInsertTyped ==
  ASSUME Typed, LogInsert
  PROVE  Typed'
<1>1. /\ op.at = "logged" /\ op' = Idle
      /\ Logs(Rec("insert", op.chat, tips[op.chat].tail, next))
      /\ tips' = [tips EXCEPT ![op.chat].count = @ + 1]
      /\ next' = next + 1
      /\ kept' = [kept EXCEPT ![op.chat] = @ \cup {next}]
      /\ Stable(Everything \cup {next})
      /\ UNCHANGED <<page, free, heap, fsynced, ckpt, meta, counters>>
  BY DEF LogInsert
<1>2. op.chat \in Chats /\ next \in Messages /\ next \in Nat /\ tips[op.chat] \in Tips /\ nextLsn \in Nat
  <2>1. op \in Calls /\ tips \in [Chats -> Tips] /\ nextLsn \in Nat
    BY DEF Typed
  <2>2. op.chat \in Chats
    BY <1>1, <2>1, CallIs
  <2>3. next \in 1..(MaxMsgs + 1) /\ next <= MaxMsgs
    BY <1>1 DEF Typed
  <2> QED
    BY <2>1, <2>2, <2>3, SlotsIs DEF Messages
<1>3. tips[op.chat].tail \in Nat
  BY <1>2 DEF Tips
<1>4. Rec("insert", op.chat, tips[op.chat].tail, next) \in Records
  BY <1>2, <1>3, RecIs
<1>5. wal' \in Seq(Records) /\ synced' \in 0..Len(wal') /\ appends' \in 0..(SyncEvery - 1) /\ nextLsn' \in Nat
  BY <1>1, <1>4, LogsIs
<1>6. tips' \in [Chats -> Tips]
  <2>1. PICK t \in Tips : t = tips[op.chat]
    BY <1>2
  <2>2. [t EXCEPT !.count = t.count + 1] \in Tips
    BY DEF Tips
  <2>3. tips' = [tips EXCEPT ![op.chat] = [t EXCEPT !.count = t.count + 1]] /\ tips \in [Chats -> Tips]
    BY <1>1, <1>2, <2>1 DEF Typed
  <2> QED
    BY <1>2, <2>2, <2>3
<1>7. kept' \in [Chats -> SUBSET Messages]
  BY <1>1, <1>2 DEF Typed
<1>8. Everything \cup {next} \in SUBSET Messages
  BY <1>2 DEF Typed, Everything
<1>9. stable' \subseteq Messages
  BY <1>1, <1>8, TypedStable
<1>10. op' \in Calls /\ op'.at = "idle"
  BY <1>1, CallsAre DEF Idle
<1>11. next' \in 1..(MaxMsgs + 1)
  BY <1>1, <1>2, SlotsIs DEF Messages
<1>12. UNCHANGED <<page, free, disk, diskFree, safe, safeFree, ckpt, meta, trims, ckpts, kills, losses>>
  BY <1>1 DEF heap, fsynced, counters
<1> QED
  BY <1>5, <1>6, <1>7, <1>9, <1>10, <1>11, <1>12 DEF Typed

LEMMA LogTrimTyped ==
  ASSUME Typed, NEW c \in Chats, LogTrim(c)
  PROVE  Typed'
<1>1. /\ op = Idle /\ trims' = trims + 1
      /\ Logs(Rec("trim", c, 0, Keep)) /\ Stable(stable)
      /\ op' = IF Exceeds(Now, c) THEN [at |-> "free", chat |-> c] ELSE Idle
      /\ UNCHANGED <<store, heap, fsynced, ckpt, meta, next, kept, ckpts, kills, losses>>
  BY DEF LogTrim
<1>2. Rec("trim", c, 0, Keep) \in Records
  BY RecIs, SlotsIs DEF Typed
<1>3. wal' \in Seq(Records) /\ synced' \in 0..Len(wal') /\ appends' \in 0..(SyncEvery - 1) /\ nextLsn' \in Nat
  BY <1>1, <1>2, LogsIs
<1>4. stable' \subseteq Messages
  BY <1>1, TypedStable DEF Typed
<1>5. op' \in Calls /\ op'.at \in {"free", "idle"}
  BY <1>1, CallsAre DEF Idle
<1>6. trims' \in Nat
  BY <1>1 DEF Typed
<1>7. UNCHANGED <<page, free, tips, disk, diskFree, safe, safeFree, ckpt, meta, next, kept, ckpts, kills, losses>>
  BY <1>1 DEF store, heap, fsynced
<1> QED
  BY <1>3, <1>4, <1>5, <1>6, <1>7 DEF Typed

LEMMA ExceptIs ==
  ASSUME NEW S, NEW s \in Seq(S), NEW p, NEW x \in S, NEW t, t = [s EXCEPT ![p] = x]
  PROVE  /\ t \in Seq(S) /\ Len(t) = Len(s) /\ DOMAIN t = DOMAIN s
         /\ \A i \in DOMAIN s : t[i] = IF i = p THEN x ELSE s[i]
<1>1. DOMAIN s = 1..Len(s) /\ Len(s) \in Nat /\ \A i \in 1..Len(s) : s[i] \in S
  OBVIOUS
<1>2. t = [i \in 1..Len(s) |-> IF i = p THEN x ELSE s[i]]
  BY <1>1
<1>3. t \in [1..Len(s) -> S]
  BY <1>1, <1>2
<1> QED
  BY <1>1, <1>2, <1>3

LEMMA EvictTyped ==
  ASSUME Typed, NEW p \in DOMAIN page, EvictPage(p)
  PROVE  Typed'
<1>1. /\ disk' = [disk EXCEPT ![p] = page[p]]
      /\ UNCHANGED <<store, diskFree, fsynced, log, ckpt, meta, op, history, counters>>
  BY DEF EvictPage
<1>2. disk \in Seq(Pages) /\ page[p] \in Pages
  BY DEF Typed
<1>3. disk' \in Seq(Pages)
  BY <1>1, <1>2, ExceptIs
<1>4. UNCHANGED <<page, free, tips, diskFree, op>>
  BY <1>1 DEF store
<1>5. /\ page' \in Seq(Pages) /\ free' \in Nat /\ diskFree' \in Nat /\ tips' \in [Chats -> Tips] /\ op' \in Calls
      /\ op'.at \in {"link", "insert", "logged"} => next <= MaxMsgs
  BY <1>4 DEF Typed
<1> QED
  BY <1>1, <1>3, <1>5, TypedPages

LEMMA EvictSuperTyped ==
  ASSUME Typed, EvictSuper
  PROVE  Typed'
<1>1. /\ diskFree' = free
      /\ UNCHANGED <<store, disk, fsynced, log, ckpt, meta, op, history, counters>>
  BY DEF EvictSuper
<1>2. UNCHANGED <<page, free, tips, disk, op>>
  BY <1>1 DEF store
<1>3. /\ page' \in Seq(Pages) /\ disk' \in Seq(Pages) /\ free' \in Nat /\ diskFree' \in Nat /\ tips' \in [Chats -> Tips]
      /\ op' \in Calls
      /\ op'.at \in {"link", "insert", "logged"} => next <= MaxMsgs
  BY <1>1, <1>2 DEF Typed
<1> QED
  BY <1>1, <1>3, TypedPages

LEMMA CheckpointTyped ==
  ASSUME Typed, NEW then \in {"idle", "down"}, Checkpoint(then)
  PROVE  Typed'
<1>1. /\ ckpts' = ckpts + 1
      /\ disk' = page /\ diskFree' = free /\ safe' = page /\ safeFree' = free
      /\ wal' = Append(wal, Rec("checkpoint", None, 0, 0)) /\ synced' = Len(wal')
      /\ nextLsn' = nextLsn + 1 /\ ckpt' = nextLsn + 1
      /\ appends' = IF appends + 1 >= SyncEvery THEN 0 ELSE appends + 1
      /\ stable' = Everything
      /\ op' = [at |-> "meta", then |-> then]
      /\ UNCHANGED <<store, meta, next, kept, trims, kills, losses>>
  BY DEF Checkpoint
<1>2. Rec("checkpoint", None, 0, 0) \in Records
  BY RecIs DEF Typed
<1>3. wal' \in Seq(Records) /\ synced' \in 0..Len(wal')
  <2>1. wal \in Seq(Records)
    BY DEF Typed
  <2>2. wal' \in Seq(Records)
    BY <1>1, <1>2, <2>1, AppendIs
  <2> QED
    BY <1>1, <2>2
<1>4. nextLsn' \in Nat /\ ckpt' \in Nat /\ ckpts' \in Nat /\ appends' \in 0..(SyncEvery - 1)
  BY <1>1, SlotsIs DEF Typed
<1>5. op' \in Calls /\ op'.at = "meta"
  BY <1>1, CallsAre
<1>6. stable' \subseteq Messages
  BY <1>1 DEF Everything, Typed
<1>7. UNCHANGED <<page, free, tips, meta, next, kept, trims, kills, losses>>
  BY <1>1 DEF store
<1>8. disk' \in Seq(Pages) /\ safe' \in Seq(Pages) /\ diskFree' \in Nat /\ safeFree' \in Nat
  BY <1>1 DEF Typed
<1> QED
  BY <1>3, <1>4, <1>5, <1>6, <1>7, <1>8 DEF Typed

LEMMA MetaTyped ==
  ASSUME Typed, PersistMeta
  PROVE  Typed'
<1>1. /\ op.at = "meta" /\ meta' = [lsn |-> nextLsn, ckpt |-> ckpt]
      /\ op' = [op EXCEPT !.at = "rotate"]
      /\ UNCHANGED <<store, heap, fsynced, log, ckpt, history, counters>>
  BY DEF PersistMeta
<1>2. op' = [at |-> "rotate", then |-> op.then] /\ op.then \in {"idle", "down"}
  <2>1. op \in Calls
    BY DEF Typed
  <2>2. op \in [at : {"meta", "rotate"}, then : {"idle", "down"}]
    BY <1>1, <2>1 DEF Calls
  <2> QED
    BY <1>1, <2>2
<1>3. op' \in Calls /\ op'.at = "rotate"
  BY <1>2, CallsAre
<1>4. meta' \in [lsn : Nat, ckpt : Nat]
  BY <1>1 DEF Typed
<1>5. UNCHANGED <<page, free, tips, disk, diskFree, safe, safeFree, wal, synced, appends, nextLsn, ckpt, next,
                  kept, stable, trims, ckpts, kills, losses>>
  BY <1>1 DEF store, heap, fsynced, log, history, counters
<1> QED
  BY <1>3, <1>4, <1>5 DEF Typed

LEMMA RotateTyped ==
  ASSUME Typed, Rotate
  PROVE  Typed'
<1>1. /\ op.at = "rotate" /\ wal' = <<>> /\ synced' = 0 /\ op' = [at |-> op.then]
      /\ UNCHANGED <<store, heap, fsynced, appends, nextLsn, ckpt, meta, history, counters>>
  BY DEF Rotate
<1>2. op.then \in {"idle", "down"}
  BY <1>1, CallIs DEF Typed
<1>3. op' \in Calls /\ op'.at \in {"idle", "down"}
  BY <1>1, <1>2, CallsAre
<1>4. wal' \in Seq(Records) /\ synced' \in 0..Len(wal')
  BY <1>1
<1>5. UNCHANGED <<page, free, tips, disk, diskFree, safe, safeFree, appends, nextLsn, ckpt, meta, next,
                  kept, stable, trims, ckpts, kills, losses>>
  BY <1>1 DEF store, heap, fsynced, history, counters
<1> QED
  BY <1>3, <1>4, <1>5 DEF Typed

\* What a crash leaves in memory.
LEMMA DiesIs ==
  ASSUME Typed, Dies
  PROVE  /\ op' = [at |-> "down"] /\ op' \in Calls /\ op'.at = "down"
         /\ page' = <<>> /\ page' \in Seq(Pages) /\ free' = 0 /\ free' \in Nat
         /\ tips' \in [Chats -> Tips] /\ \A c \in Chats : tips'[c] = NoTip
         /\ next' \in 1..(MaxMsgs + 1) /\ next <= next' /\ (op.at = "logged" => next < next')
<1>1. /\ op' = [at |-> "down"] /\ page' = <<>> /\ free' = 0 /\ tips' = [c \in Chats |-> NoTip]
      /\ next' = IF op.at = "logged" THEN next + 1 ELSE next
  BY DEF Dies
<1>2. NoTip \in Tips
  BY DEF NoTip, Tips
<1>3. next' \in 1..(MaxMsgs + 1) /\ next <= next' /\ (op.at = "logged" => next < next')
  BY <1>1, SlotsIs DEF Typed
<1>4. op' \in Calls /\ op'.at = "down"
  BY <1>1, CallsAre
<1>5. tips' \in [Chats -> Tips] /\ \A c \in Chats : tips'[c] = NoTip
  BY <1>1, <1>2
<1> QED
  BY <1>1, <1>3, <1>4, <1>5

LEMMA KillTyped ==
  ASSUME Typed, Kill
  PROVE  Typed'
<1>1. /\ kills' = kills + 1 /\ Dies
      /\ UNCHANGED <<heap, fsynced, log, ckpt, meta, kept, stable, trims, ckpts, losses>>
  BY DEF Kill
<1>2. UNCHANGED <<disk, diskFree, safe, safeFree, wal, synced, appends, nextLsn, ckpt, meta, kept, stable, trims,
                  ckpts, losses>>
  BY <1>1 DEF heap, fsynced, log
<1>3. kills' \in Nat
  BY <1>1 DEF Typed
<1>4. /\ op' \in Calls /\ op'.at = "down" /\ page' \in Seq(Pages) /\ free' \in Nat
      /\ tips' \in [Chats -> Tips] /\ next' \in 1..(MaxMsgs + 1)
  BY <1>1, DiesIs
<1> QED
  BY <1>2, <1>3, <1>4 DEF Typed

\* The first records of a log.
LEMMA PrefixIs ==
  ASSUME NEW w \in Seq(Records), NEW n \in 0..Len(w), NEW v, v = SubSeq(w, 1, n)
  PROVE  /\ v \in Seq(Records) /\ Len(v) = n /\ DOMAIN v = 1..n
         /\ \A i \in 1..n : i \in DOMAIN w /\ v[i] = w[i]
<1>1. Len(w) \in Nat /\ DOMAIN w = 1..Len(w) /\ \A i \in 1..Len(w) : w[i] \in Records
  OBVIOUS
<1>2. n \in Nat /\ n <= Len(w)
  BY <1>1
<1>3. v \in Seq(Records) /\ Len(v) = n /\ \A i \in 1..n : v[i] = w[i]
  BY <1>1, <1>2, SubSeqProperties
<1> QED
  BY <1>1, <1>2, <1>3

LEMMA TornIs ==
  Torn \in Records /\ Torn.type = "torn"
  BY DEF Torn, Records

\* What a power loss leaves in the log: a prefix of it, and a torn frame behind it.
LEMMA LostLogIs ==
  ASSUME Typed, PowerLoss
  PROVE  \E n \in synced..Len(wal) : \E v :
            /\ n \in 0..Len(wal) /\ v = SubSeq(wal, 1, n)
            /\ wal' = v \/ wal' = Append(v, Torn)
<1>1. PICK n \in synced..Len(wal) :
         wal' \in {SubSeq(wal, 1, n)} \cup (IF n < Len(wal) THEN {Append(SubSeq(wal, 1, n), Torn)} ELSE {})
  BY DEF PowerLoss
<1>2. n \in 0..Len(wal)
  BY DEF Typed
<1> QED
  BY <1>1, <1>2

\* What it leaves of the heap.
LEMMA LostHeapIs ==
  ASSUME Typed, Len(safe) <= Len(disk), PowerLoss
  PROVE  /\ disk' \in Seq(Pages) /\ Len(safe) <= Len(disk') /\ Len(disk') <= Len(disk)
         /\ \A p \in DOMAIN disk' : \/ disk'[p] = disk[p]
                                    \/ p <= Len(safe) /\ disk'[p] = safe[p]
                                    \/ p > Len(safe) /\ disk'[p] = Blank("chat")
<1>0. PICK n \in Len(safe)..Len(disk) : \E lost \in SUBSET (1..n) :
          disk' = [p \in 1..n |-> IF p \notin lost THEN disk[p]
                                  ELSE IF p <= Len(safe) THEN safe[p] ELSE Blank("chat")]
  BY DEF PowerLoss
<1>1. PICK lost \in SUBSET (1..n) :
          disk' = [p \in 1..n |-> IF p \notin lost THEN disk[p]
                                  ELSE IF p <= Len(safe) THEN safe[p] ELSE Blank("chat")]
  BY <1>0
<1>2. disk \in Seq(Pages) /\ safe \in Seq(Pages) /\ Len(disk) \in Nat /\ Len(safe) \in Nat /\ Blank("chat") \in Pages
  BY BlankIs DEF Typed
<1>3. n \in Nat /\ Len(safe) <= n /\ n <= Len(disk)
  BY <1>2
<1>4. DOMAIN disk = 1..Len(disk) /\ DOMAIN safe = 1..Len(safe)
  BY <1>2
<1>5. \A p \in 1..n : p \in DOMAIN disk /\ (p <= Len(safe) => p \in DOMAIN safe)
  BY <1>3, <1>2, <1>4
<1>6. \A p \in 1..n : disk'[p] \in Pages
  BY <1>1, <1>2, <1>5
<1>7. disk' \in [1..n -> Pages]
  BY <1>1, <1>6
<1>8. disk' \in Seq(Pages) /\ Len(disk') = n /\ DOMAIN disk' = 1..n
  BY <1>3, <1>7
<1>9. \A p \in 1..n : \/ disk'[p] = disk[p]
                      \/ p <= Len(safe) /\ disk'[p] = safe[p]
                      \/ p > Len(safe) /\ disk'[p] = Blank("chat")
  BY <1>1, <1>2, <1>3
<1> QED
  BY <1>3, <1>8, <1>9

LEMMA LossTyped ==
  ASSUME Typed, Len(safe) <= Len(disk), PowerLoss
  PROVE  Typed'
<1>1. /\ losses' = losses + 1 /\ Dies
      /\ synced' = Len(wal')
      /\ diskFree' \in {diskFree, safeFree} /\ safe' = disk' /\ safeFree' = diskFree'
      /\ kept' = [c \in Chats |-> kept[c] \cap stable]
      /\ UNCHANGED <<appends, nextLsn, ckpt, meta, stable, trims, ckpts, kills>>
  BY DEF PowerLoss
<1>2. PICK n, v : n \in 0..Len(wal) /\ v = SubSeq(wal, 1, n) /\ (wal' = v \/ wal' = Append(v, Torn))
  BY LostLogIs
<1>3. wal' \in Seq(Records) /\ synced' \in 0..Len(wal')
  <2>1. wal \in Seq(Records)
    BY DEF Typed
  <2>2. v \in Seq(Records)
    BY <1>2, <2>1, PrefixIs
  <2>3. Append(v, Torn) \in Seq(Records)
    BY <2>2, TornIs, AppendIs
  <2>4. wal' \in Seq(Records)
    BY <1>2, <2>2, <2>3
  <2> QED
    BY <1>1, <2>4
<1>4. disk' \in Seq(Pages) /\ safe' \in Seq(Pages)
  BY <1>1, LostHeapIs
<1>5. diskFree' \in Nat /\ safeFree' \in Nat /\ losses' \in Nat
  BY <1>1 DEF Typed
<1>6. /\ op' \in Calls /\ op'.at = "down" /\ page' \in Seq(Pages) /\ free' \in Nat
      /\ tips' \in [Chats -> Tips] /\ next' \in 1..(MaxMsgs + 1)
  BY <1>1, DiesIs
<1>7. kept' \in [Chats -> SUBSET Messages]
  BY <1>1 DEF Typed
<1> QED
  BY <1>1, <1>3, <1>4, <1>5, <1>6, <1>7 DEF Typed

----------------------------------------------------------------------------
(* What a step does to the pages in memory.                                 *)

\* No page of a loses its chat or a message in b, in memory.
Extends(a, b) ==
    /\ Len(a) <= Len(b)
    /\ \A p \in DOMAIN a :
          p \in DOMAIN b /\ b[p].type = a[p].type /\ b[p].chat = a[p].chat /\ ToSet(a[p].msgs) \subseteq ToSet(b[p].msgs)

LEMMA ExtendsIs ==
  ASSUME NEW a, NEW b, Extends(a, b), NEW c
  PROVE  PagesOf(a, c) \subseteq PagesOf(b, c) /\ \A m : OnPage(a, c, m) => OnPage(b, c, m)
<1>1. PagesOf(a, c) \subseteq PagesOf(b, c)
  BY DEF Extends, PagesOf
<1>2. \A p \in PagesOf(a, c) : ToSet(a[p].msgs) \subseteq ToSet(b[p].msgs)
  BY DEF Extends, PagesOf
<1> QED
  BY <1>1, <1>2 DEF OnPage

LEMMA LagsExtends ==
  ASSUME NEW a \in Seq(Pages), NEW b \in Seq(Pages), NEW d \in Seq(Pages), Lags(a, b), Extends(b, d)
  PROVE  Lags(a, d)
<1>1. Len(a) \in Nat /\ Len(b) \in Nat /\ Len(d) \in Nat /\ DOMAIN a = 1..Len(a) /\ DOMAIN b = 1..Len(b)
  OBVIOUS
<1>2. DOMAIN a \subseteq DOMAIN b /\ Len(a) <= Len(d)
  BY <1>1 DEF Lags, Extends
<1> QED
  BY <1>2 DEF Lags, Extends, Older

LEMMA LagsTwice ==
  ASSUME NEW a \in Seq(Pages), NEW b \in Seq(Pages), NEW d \in Seq(Pages), Lags(a, b), Lags(b, d)
  PROVE  Lags(a, d)
<1>1. Len(a) \in Nat /\ Len(b) \in Nat /\ Len(d) \in Nat /\ DOMAIN a = 1..Len(a) /\ DOMAIN b = 1..Len(b)
  OBVIOUS
<1>2. DOMAIN a \subseteq DOMAIN b /\ Len(a) <= Len(d)
  BY <1>1 DEF Lags
<1> QED
  BY <1>2 DEF Lags, Older

LEMMA LagsItself ==
  ASSUME NEW a \in Seq(Pages), Images(a)
  PROVE  Lags(a, a)
<1>1. Len(a) \in Nat
  OBVIOUS
<1> QED
  BY <1>1 DEF Lags, Older, Images

LEMMA AboutExtends ==
  ASSUME NEW a, NEW b, NEW w, About(a, w), Extends(a, b)
  PROVE  About(b, w)
  BY DEF About, Extends

\* The same messages on pages of the same chats.
LEMMA OwnedBy ==
  ASSUME NEW a, Owned(a), NEW b,
         \A p \in DOMAIN b : \A m \in ToSet(b[p].msgs) :
            \E q \in DOMAIN a : m \in ToSet(a[q].msgs) /\ b[p].chat = a[q].chat
  PROVE  Owned(b)
  BY DEF Owned

\* The running call inserted nothing, and goes on.
LEMMA OwnedStays ==
  ASSUME NEW a, Owned(a), op.at # "logged", next' = next, \A c \in Chats : kept'[c] \subseteq kept[c]
  PROVE  Owned(a)'
  BY DEF Owned

\* The number of the next message is not in use before it is inserted.
LEMMA NextIsNew ==
  ASSUME Typed, Memory, op.at # "logged"
  PROVE  /\ \A p \in DOMAIN page : next \notin ToSet(page[p].msgs)
         /\ \A c \in Chats : next \notin kept[c]
<1>1. \A p \in DOMAIN page : next \notin ToSet(page[p].msgs)
  BY DEF Memory, Owned
<1>2. ASSUME NEW c \in Chats, next \in kept[c] PROVE FALSE
  <2>1. OnPage(page, c, next)
    BY <1>2 DEF Memory
  <2> QED
    BY <1>1, <2>1 DEF OnPage, PagesOf
<1> QED
  BY <1>1, <1>2

\* The messages of the chats have smaller numbers than the next one.
LEMMA KeptIsPast ==
  ASSUME Typed, Memory, NEW c \in Chats, NEW m \in kept[c]
  PROVE  m \in Messages /\ m <= next /\ (m = next => op.at = "logged")
<1>1. OnPage(page, c, m) /\ m \in Messages
  BY DEF Memory, Typed
<1>2. PICK p \in DOMAIN page : m \in ToSet(page[p].msgs)
  BY <1>1 DEF OnPage, PagesOf
<1> QED
  BY <1>1, <1>2 DEF Memory, Owned

LEMMA GrownExtends ==
  ASSUME NEW a \in Seq(Pages), NEW n \in Nat, NEW g, g = Grown(a, n, "chat")
  PROVE  /\ g \in Seq(Pages) /\ Extends(a, g) /\ Len(g) = IF n > Len(a) THEN n ELSE Len(a)
         /\ AllChat(a) => AllChat(g)
<1>1. /\ g \in Seq(Pages) /\ Len(g) = (IF n > Len(a) THEN n ELSE Len(a)) /\ DOMAIN g = 1..Len(g)
      /\ \A p \in DOMAIN g : g[p] = IF p <= Len(a) THEN a[p] ELSE Blank("chat")
  BY GrownIs
<1>2. Len(a) \in Nat /\ DOMAIN a = 1..Len(a) /\ Len(a) <= Len(g)
  BY <1>1
<1>3. \A p \in DOMAIN a : p \in DOMAIN g /\ g[p] = a[p]
  BY <1>1, <1>2
<1>4. \A p \in DOMAIN g : (p \in DOMAIN a /\ g[p] = a[p]) \/ g[p] = Blank("chat")
  BY <1>1, <1>2
<1>5. Blank("chat").type = "chat"
  BY DEF Blank
<1> QED
  BY <1>1, <1>2, <1>3, <1>4, <1>5 DEF Extends, AllChat

\* Pages that were never written lag behind any.
LEMMA GrownLags ==
  ASSUME NEW a \in Seq(Pages), NEW b \in Seq(Pages), Lags(a, b), NEW g, g = Grown(a, Len(b), "chat")
  PROVE  Lags(g, b)
<1>1. Len(a) \in Nat /\ Len(b) \in Nat /\ DOMAIN a = 1..Len(a) /\ Len(a) <= Len(b)
  BY DEF Lags
<1>2. /\ Len(g) = Len(b) /\ DOMAIN g = 1..Len(b)
      /\ \A p \in DOMAIN g : g[p] = IF p <= Len(a) THEN a[p] ELSE Blank("chat")
  BY <1>1, GrownIs
<1>3. Image(Blank("chat")) /\ Blank("chat").chat = None /\ ToSet(Blank("chat").msgs) = {}
  BY BlankIs DEF Blank, ToSet
<1>4. \A p \in DOMAIN g : (p \in DOMAIN a /\ g[p] = a[p]) \/ g[p] = Blank("chat")
  BY <1>1, <1>2
<1>5. \A p \in DOMAIN g : Older(g[p], b[p])
  BY <1>3, <1>4 DEF Lags, Older
<1> QED
  BY <1>1, <1>2, <1>5 DEF Lags

\* chatAppend hands out a page.
LEMMA NewPageMemory ==
  ASSUME Typed, free = 0, Memory, InRange(page, tips), NEW c \in Chats, op = Idle,
         Becomes(AllocFor(Now, c)), disk' = Grown(disk, Len(page'), "chat"),
         op' = [at |-> "link", chat |-> c, page |-> NewPage(Now)],
         next' = next, kept' = kept
  PROVE  /\ Memory' /\ InRange(page, tips)' /\ Extends(page, page') /\ Extends(disk, disk') /\ free' = 0
         /\ AllChat(page) => AllChat(page)'
<1>1. PICK u, n : u = AllocFor(Now, c) /\ n = NewPage(Now)
  OBVIOUS
<1>2. Now \in Stores /\ Now.page = page /\ Now.free = 0 /\ Now.tips = tips
  BY NowIs
<1>3. /\ u \in Stores /\ u.tips = tips /\ u.free = 0
      /\ n \in Nat \ {0} /\ n \in DOMAIN u.page /\ Len(u.page) = Len(page) + 1
      /\ DOMAIN page \subseteq DOMAIN u.page
      /\ u.page[n] = [type |-> "chat", chat |-> c, next |-> 0, msgs |-> <<>>]
      /\ \A q \in DOMAIN u.page : q # n => q \in DOMAIN page /\ u.page[q] = page[q]
  BY <1>1, <1>2, AllocIs
<1>4. page' = u.page /\ free' = 0 /\ tips' = tips /\ page' \in Seq(Pages)
  BY <1>1, <1>3 DEF Becomes, Stores
<1>5. n = Len(page) + 1 /\ Len(page) \in Nat /\ DOMAIN page = 1..Len(page)
  BY <1>1, <1>2 DEF NewPage, Typed
<1>6. n \notin DOMAIN page
  BY <1>5
<1>7. Extends(page, page')
  BY <1>3, <1>4, <1>5, <1>6 DEF Extends
<1>8. /\ page'[n].type = "chat" /\ page'[n].chat = c /\ page'[n].next = 0 /\ page'[n].msgs = <<>> /\ n \in DOMAIN page'
      /\ \A q \in DOMAIN page' : q = n \/ (q \in DOMAIN page /\ page'[q] = page[q])
  <2>1. PICK r : r = page'[n]
    OBVIOUS
  <2>2. r = [type |-> "chat", chat |-> c, next |-> 0, msgs |-> <<>>]
    BY <1>3, <1>4, <2>1
  <2>3. r.type = "chat" /\ r.chat = c /\ r.next = 0 /\ r.msgs = <<>>
    BY <2>2
  <2>4. n \in DOMAIN page' /\ \A q \in DOMAIN page' : q # n => q \in DOMAIN page /\ page'[q] = page[q]
    BY <1>3, <1>4
  <2>5. page'[n].type = "chat" /\ page'[n].chat = c /\ page'[n].next = 0 /\ page'[n].msgs = <<>>
    BY <2>1, <2>3
  <2>6. ASSUME NEW q \in DOMAIN page' PROVE q = n \/ (q \in DOMAIN page /\ page'[q] = page[q])
    <3>1. CASE q = n
      BY <3>1
    <3>2. CASE q # n
      BY <2>4, <3>2
    <3> QED
      BY <3>1, <3>2
  <2> QED
    BY <2>4, <2>5, <2>6
<1>9. Extends(disk, disk') /\ Len(disk') = Len(page')
  <2>1. disk \in Seq(Pages) /\ Len(page') \in Nat /\ Len(disk) = Len(page) /\ Len(page') > Len(page)
    BY <1>3, <1>4, <1>5 DEF Typed, Memory
  <2>2. Extends(disk, disk') /\ Len(disk') = IF Len(page') > Len(disk) THEN Len(page') ELSE Len(disk)
    BY <2>1, GrownExtends
  <2> QED
    BY <2>1, <2>2
<1>10. op'.at = "link" /\ op'.chat = c /\ op'.page = n
  BY <1>1
<1>11. Images(page')
  <2>1. Distinct(<<>>) /\ Len(<<>>) = 0
    BY DEF Distinct
  <2>2. Image(page'[n])
    BY <1>8, <2>1, SlotsIs DEF Image
  <2> QED
    BY <1>8, <2>2 DEF Images, Memory
<1>12. InRange(page, tips)'
  <2>1. Len(page') = Len(page) + 1
    BY <1>3, <1>4
  <2>2. ASSUME NEW p \in DOMAIN page' PROVE page'[p].next <= Len(page')
    <3>1. CASE p = n
      BY <1>5, <1>8, <2>1, <3>1
    <3>2. CASE p # n
      <4>1. p \in DOMAIN page /\ page'[p] = page[p]
        BY <1>8, <3>2
      <4>2. page[p] \in Pages /\ page[p].next <= Len(page)
        BY <4>1 DEF InRange, Typed
      <4>3. page[p].next \in Nat
        BY <4>2, PageIs
      <4> QED
        BY <1>5, <2>1, <4>1, <4>2, <4>3
    <3> QED
      BY <3>1, <3>2
  <2>3. ASSUME NEW d \in Chats PROVE tips[d].head <= Len(page') /\ tips[d].tail <= Len(page')
    <3>1. tips[d].head \in Nat /\ tips[d].tail \in Nat /\ tips[d].head <= Len(page) /\ tips[d].tail <= Len(page)
      BY DEF InRange, Typed, Tips
    <3> QED
      BY <1>5, <2>1, <3>1
  <2> QED
    BY <1>4, <2>2, <2>3 DEF InRange
<1>13. Owned(page)'
  <2>1. PICK P : P = page'
    OBVIOUS
  <2>2. \A p \in DOMAIN P : \A m \in ToSet(P[p].msgs) :
            \E q \in DOMAIN page : m \in ToSet(page[q].msgs) /\ P[p].chat = page[q].chat
    <3>1. ToSet(<<>>) = {}
      BY DEF ToSet
    <3> QED
      BY <1>8, <2>1, <3>1
  <2>3. Owned(P)
    BY <2>2, OwnedBy DEF Memory
  <2>4. Owned(P)'
    BY <2>3, OwnedStays DEF Idle
  <2> QED
    BY <2>1, <2>4 DEF Owned
<1>14. \A d \in Chats : PagesOf(page, d) \subseteq PagesOf(page', d) /\ \A m : OnPage(page, d, m) => OnPage(page', d, m)
  BY <1>7, ExtendsIs
<1>15. \A d \in Chats : tips[d].tail # 0 => tips[d].tail \in PagesOf(page', d)
  BY <1>14 DEF Memory
<1>16. n \in PagesOf(page', c)
  BY <1>8 DEF PagesOf
<1>17. \A d \in Chats : \A m \in kept'[d] : OnPage(page', d, m)
  BY <1>14 DEF Memory
<1>18. Memory'
  BY <1>4, <1>8, <1>9, <1>10, <1>11, <1>13, <1>15, <1>16, <1>17 DEF Memory, OnPage, PagesOf
<1>19. AllChat(page) => AllChat(page')
  BY <1>8 DEF AllChat
<1> QED
  BY <1>4, <1>7, <1>9, <1>12, <1>18, <1>19

\* Insert puts the next message on the tail page.
LEMMA InsertMemory ==
  ASSUME Typed, Memory, InRange(page, tips), Insert
  PROVE  Memory' /\ InRange(page, tips)' /\ Extends(page, page') /\ (AllChat(page) => AllChat(page)')
<1>1. /\ op.at = "insert" /\ op' = [at |-> "logged", chat |-> op.chat]
      /\ page' = [page EXCEPT ![tips[op.chat].tail].msgs = Append(@, next)]
      /\ UNCHANGED <<tips, disk, next, kept>>
  BY DEF Insert, heap, history
<1>2. op.chat \in Chats /\ next \in Messages
  BY <1>1, CallIs DEF Typed, Messages
<1>3. PICK c, t : c = op.chat /\ t = tips[op.chat].tail /\ c \in Chats
  BY <1>2
<1>4. t \in PagesOf(page, c) /\ t \in DOMAIN page /\ ~IsFull(page[t]) /\ page[t].chat = c
  BY <1>1, <1>2, <1>3 DEF Memory, PagesOf
<1>5. page \in Seq(Pages) /\ DOMAIN page = 1..Len(page) /\ Len(page) \in Nat /\ page[t] \in Pages
  BY <1>4 DEF Typed
<1>6. page[t].msgs \in Seq(Messages)
  BY <1>5, PageIs
<1>7. PICK ms : ms = Append(page[t].msgs, next)
  OBVIOUS
<1>8. ms \in Seq(Messages) /\ ToSet(ms) = ToSet(page[t].msgs) \cup {next} /\ Len(ms) = Len(page[t].msgs) + 1
  BY <1>2, <1>6, <1>7, AppendIs
<1>9. [page[t] EXCEPT !.msgs = ms] = [type |-> page[t].type, chat |-> page[t].chat, next |-> page[t].next, msgs |-> ms]
      /\ [page[t] EXCEPT !.msgs = ms] \in Pages
  BY <1>5, <1>8, SetMsgs
<1>10. page' = [page EXCEPT ![t] = [page[t] EXCEPT !.msgs = ms]]
  BY <1>1, <1>3, <1>4, <1>7
<1>11. PICK r \in Pages : r = [page[t] EXCEPT !.msgs = ms]
  BY <1>9
<1>12. r.type = page[t].type /\ r.chat = page[t].chat /\ r.next = page[t].next /\ r.msgs = ms
  BY <1>9, <1>11
<1>13. /\ page' \in Seq(Pages) /\ Len(page') = Len(page) /\ DOMAIN page' = DOMAIN page
       /\ \A q \in DOMAIN page : page'[q] = IF q = t THEN r ELSE page[q]
  <2>1. page' = [page EXCEPT ![t] = r]
    BY <1>10, <1>11
  <2>2. page' = [q \in 1..Len(page) |-> IF q = t THEN r ELSE page[q]]
    BY <1>5, <2>1
  <2>3. \A q \in 1..Len(page) : page[q] \in Pages
    BY <1>5
  <2>4. page' \in [1..Len(page) -> Pages] /\ DOMAIN page' = 1..Len(page)
    BY <2>2, <2>3
  <2>5. page' \in Seq(Pages) /\ Len(page') = Len(page)
    BY <1>5, <2>4
  <2> QED
    BY <1>5, <2>2, <2>4, <2>5
<1>14. \A q \in DOMAIN page : /\ page'[q].type = page[q].type /\ page'[q].chat = page[q].chat
                              /\ page'[q].next = page[q].next
                              /\ q # t => page'[q] = page[q]
  BY <1>12, <1>13
<1>15. page'[t].msgs = ms
  BY <1>4, <1>12, <1>13
<1>16. Extends(page, page')
  <2>1. \A q \in DOMAIN page : ToSet(page[q].msgs) \subseteq ToSet(page'[q].msgs)
    BY <1>8, <1>14, <1>15
  <2>2. Len(page) <= Len(page')
    BY <1>5, <1>13
  <2> QED
    BY <1>13, <1>14, <2>1, <2>2 DEF Extends
<1>17. \A d \in Chats : PagesOf(page, d) \subseteq PagesOf(page', d) /\ \A m : OnPage(page, d, m) => OnPage(page', d, m)
  BY <1>16, ExtendsIs
<1>18. next \notin ToSet(page[t].msgs) /\ (\A d \in Chats : next \notin kept[d])
  BY <1>1, <1>4, NextIsNew
<1>19. Image(page'[t])
  <2>1. Image(page[t]) /\ c # None
    <3>1. c # None
      BY <1>3, SlotsIs
    <3> QED
      BY <1>4, <3>1 DEF Memory, Images
  <2>2. Distinct(ms)
    BY <1>2, <1>6, <1>7, <1>18, <2>1, DistinctAppend DEF Image
  <2>3. Len(ms) <= Slots
    BY <1>4, <1>6, <1>8, SlotsIs DEF IsFull
  <2>4. page'[t].chat = c /\ page'[t].type = "chat"
    BY <1>4, <1>14 DEF PagesOf
  <2> QED
    BY <1>15, <2>1, <2>2, <2>3, <2>4 DEF Image
<1>20. Images(page')
  BY <1>13, <1>14, <1>19 DEF Images, Memory
<1>21. InRange(page, tips)'
  <2>1. \A q \in DOMAIN page' : page'[q].next <= Len(page')
    BY <1>13, <1>14 DEF InRange
  <2> QED
    BY <1>1, <1>13, <2>1 DEF InRange
<1>22. op'.at = "logged" /\ op'.chat = c
  BY <1>1, <1>3
<1>23. Owned(page)'
  <2>1. ASSUME NEW q \in DOMAIN page', NEW m \in ToSet(page'[q].msgs)
        PROVE  /\ \A d \in Chats : m \in kept[d] => page'[q].chat = d
               /\ m <= next /\ (m = next => page'[q].chat = c)
    <3>1. CASE m \in ToSet(page[q].msgs)
      <4>1. q \in DOMAIN page
        BY <1>13
      <4>2. /\ \A d \in Chats : m \in kept[d] => page[q].chat = d
            /\ m <= next /\ (m = next => op.at = "logged")
        BY <3>1, <4>1 DEF Memory, Owned
      <4> QED
        BY <1>1, <1>14, <4>1, <4>2
    <3>2. CASE m \notin ToSet(page[q].msgs)
      <4>1. q \in DOMAIN page /\ q = t
        BY <1>13, <1>14, <3>2
      <4>2. m = next
        BY <1>8, <1>15, <3>2, <4>1
      <4>3. page'[q].chat = c /\ next <= next
        BY <1>2, <1>4, <1>14, <4>1 DEF Messages
      <4> QED
        BY <1>18, <4>2, <4>3
    <3> QED
      BY <3>1, <3>2
  <2> QED
    BY <1>1, <1>22, <2>1 DEF Owned
<1>24. \A d \in Chats : tips'[d].tail # 0 => tips'[d].tail \in PagesOf(page', d)
  BY <1>1, <1>17 DEF Memory
<1>25. \A d \in Chats : \A m \in kept'[d] : OnPage(page', d, m)
  BY <1>1, <1>17 DEF Memory
<1>26. Len(disk') = Len(page') /\ tips'[c].tail # 0 /\ next' \in ToSet(page'[tips'[c].tail].msgs)
  BY <1>1, <1>3, <1>5, <1>8, <1>13, <1>15, <1>4 DEF Memory
<1>27. Memory'
  BY <1>20, <1>22, <1>23, <1>24, <1>25, <1>26 DEF Memory, OnPage, PagesOf
<1>28. AllChat(page) => AllChat(page')
  BY <1>13, <1>14 DEF AllChat
<1> QED
  BY <1>16, <1>21, <1>27, <1>28

\* LinkChatPage makes the page the chat's tail.
LEMMA LinkMemory ==
  ASSUME Typed, Memory, InRange(page, tips), op.at = "link",
         Becomes(Link(Now, op.chat, op.page, tips[op.chat].tail)),
         op' = [at |-> "insert", chat |-> op.chat],
         disk' = disk, next' = next, kept' = kept
  PROVE  /\ Memory' /\ InRange(page, tips)' /\ Extends(page, page') /\ free' = free
         /\ AllChat(page) => AllChat(page)'
<1>1. PICK c, n, a : c = op.chat /\ n = op.page /\ a = tips[op.chat].tail
  OBVIOUS
<1>2. c \in Chats /\ n \in Nat \ {0}
  BY <1>1, CallIs DEF Typed
<1>3. tips[c] \in Tips
  BY <1>2 DEF Typed
<1>4. a \in Nat /\ a <= Len(page)
  BY <1>1, <1>2, <1>3 DEF Tips, InRange
<1>5. n \in DOMAIN page /\ page[n].type = "chat" /\ page[n].chat = c /\ page[n].msgs = <<>>
  BY <1>1 DEF Memory, PagesOf
<1>6. PICK u : u = Link(Now, c, n, a)
  OBVIOUS
<1>7. Now \in Stores /\ Now.page = page /\ Now.free = free /\ Now.tips = tips
  BY NowIs
<1>8. u \in Stores /\ Linked(Now, c, n, a, u)
  BY <1>2, <1>4, <1>5, <1>6, <1>7, LinkIs
<1>9. /\ u.free = free /\ Len(u.page) = Len(page) /\ u.page \in Seq(Pages)
      /\ \A q \in DOMAIN page :
           /\ u.page[q].type = IF q = n THEN "chat" ELSE page[q].type
           /\ u.page[q].chat = IF q = n THEN c ELSE page[q].chat
           /\ u.page[q].next = IF a # 0 /\ q = a THEN n ELSE page[q].next
           /\ u.page[q].msgs = page[q].msgs
      /\ u.tips = [tips EXCEPT ![c] = [head |-> IF tips[c].head = 0 THEN n ELSE tips[c].head,
                                        tail |-> n, count |-> tips[c].count]]
  BY <1>7, <1>8 DEF Linked
<1>10. page' = u.page /\ free' = free /\ tips' = u.tips
  BY <1>1, <1>6, <1>9 DEF Becomes
<1>11. page \in Seq(Pages) /\ DOMAIN page = 1..Len(page) /\ Len(page) \in Nat /\ tips \in [Chats -> Tips]
  BY DEF Typed
<1>12. DOMAIN page' = DOMAIN page /\ Len(page') = Len(page)
  BY <1>9, <1>10, <1>11
<1>13. \A q \in DOMAIN page :
          /\ page'[q].type = page[q].type /\ page'[q].chat = page[q].chat /\ page'[q].msgs = page[q].msgs
          /\ page'[q].next = IF a # 0 /\ q = a THEN n ELSE page[q].next
  BY <1>5, <1>9, <1>10
<1>14. Extends(page, page')
  BY <1>11, <1>12, <1>13 DEF Extends
<1>15. \A d \in Chats : PagesOf(page, d) \subseteq PagesOf(page', d) /\ \A m : OnPage(page, d, m) => OnPage(page', d, m)
  BY <1>14, ExtendsIs
<1>16. Images(page')
  BY <1>12, <1>13 DEF Images, Image, Memory
<1>17. n <= Len(page)
  BY <1>5, <1>11
<1>18. tips'[c].tail = n /\ tips'[c].head \in {n, tips[c].head} /\ \A d \in Chats : d # c => tips'[d] = tips[d]
  BY <1>2, <1>9, <1>10, <1>11
<1>19. InRange(page, tips)'
  <2>1. \A q \in DOMAIN page' : page'[q].next <= Len(page')
    BY <1>12, <1>13, <1>17 DEF InRange
  <2>2. \A d \in Chats : tips'[d].head <= Len(page') /\ tips'[d].tail <= Len(page')
    BY <1>12, <1>17, <1>18 DEF InRange
  <2> QED
    BY <2>1, <2>2 DEF InRange
<1>20. op'.at = "insert" /\ op'.chat = c
  BY <1>1
<1>21. Owned(page)'
  <2>1. PICK P : P = page'
    OBVIOUS
  <2>2. \A p \in DOMAIN P : \A m \in ToSet(P[p].msgs) :
            \E q \in DOMAIN page : m \in ToSet(page[q].msgs) /\ P[p].chat = page[q].chat
    BY <1>12, <1>13, <2>1
  <2>3. Owned(P)
    BY <2>2, OwnedBy DEF Memory
  <2>4. Owned(P)'
    BY <2>3, OwnedStays
  <2> QED
    BY <2>1, <2>4 DEF Owned
<1>22. n \in PagesOf(page', c)
  BY <1>5, <1>12, <1>13 DEF PagesOf
<1>23. \A d \in Chats : tips'[d].tail # 0 => tips'[d].tail \in PagesOf(page', d)
  BY <1>15, <1>18, <1>22 DEF Memory
<1>24. \A d \in Chats : \A m \in kept'[d] : OnPage(page', d, m)
  BY <1>15 DEF Memory
<1>25. ~IsFull(page'[n])
  <2>1. page'[n].msgs = <<>> /\ Len(<<>>) = 0
    BY <1>5, <1>13
  <2> QED
    BY <2>1, SlotsIs DEF IsFull
<1>26. tips'[c].tail # 0 /\ Len(disk') = Len(page')
  BY <1>2, <1>12, <1>18 DEF Memory
<1>27. Memory'
  BY <1>16, <1>18, <1>20, <1>21, <1>23, <1>24, <1>25, <1>26 DEF Memory, OnPage, PagesOf, IsFull
<1>28. AllChat(page) => AllChat(page')
  BY <1>12, <1>13 DEF AllChat
<1> QED
  BY <1>10, <1>14, <1>19, <1>27, <1>28

\* LogInsert: the message is the chat's.
LEMMA LogInsertMemory ==
  ASSUME Typed, Memory, InRange(page, tips), LogInsert
  PROVE  Memory' /\ InRange(page, tips)' /\ page' = page
<1>1. /\ op.at = "logged" /\ op' = Idle
      /\ tips' = [tips EXCEPT ![op.chat].count = @ + 1]
      /\ next' = next + 1
      /\ kept' = [kept EXCEPT ![op.chat] = @ \cup {next}]
      /\ page' = page /\ disk' = disk
  BY DEF LogInsert, heap
<1>2. PICK c \in Chats : c = op.chat
  BY <1>1, CallIs DEF Typed
<1>3. /\ \A d \in Chats : tips'[d].head = tips[d].head /\ tips'[d].tail = tips[d].tail
      /\ \A d \in Chats : kept'[d] = IF d = c THEN kept[d] \cup {next} ELSE kept[d]
  BY <1>1, <1>2 DEF Typed, Tips
<1>4. InRange(page, tips)'
  BY <1>1, <1>3 DEF InRange
<1>5. tips[c].tail \in PagesOf(page, c) /\ next \in ToSet(page[tips[c].tail].msgs)
  BY <1>1, <1>2 DEF Memory
<1>6. \A d \in Chats : \A m \in kept'[d] : OnPage(page, d, m)
  <2>1. OnPage(page, c, next)
    BY <1>5 DEF OnPage
  <2>2. ASSUME NEW d \in Chats, NEW m \in kept'[d] PROVE OnPage(page, d, m)
    <3>1. CASE m \in kept[d]
      BY <3>1 DEF Memory
    <3>2. CASE m \notin kept[d]
      <4>1. d = c /\ m = next
        BY <1>3, <3>2
      <4> QED
        BY <2>1, <4>1
    <3> QED
      BY <3>1, <3>2
  <2> QED
    BY <2>2
<1>7. op'.at = "idle"
  BY <1>1 DEF Idle
<1>8. Owned(page)'
  <2>1. ASSUME NEW p \in DOMAIN page, NEW m \in ToSet(page[p].msgs)
        PROVE  /\ \A d \in Chats : m \in kept'[d] => page[p].chat = d
               /\ m <= next' /\ m # next'
    <3>1. /\ \A d \in Chats : m \in kept[d] => page[p].chat = d
          /\ m <= next /\ (m = next => page[p].chat = c)
      BY <1>2 DEF Memory, Owned
    <3>2. page[p] \in Pages
      BY DEF Typed
    <3>3. m \in Messages
      BY <3>2, PageIs DEF ToSet
    <3>4. m <= next' /\ m # next'
      <4>1. m \in Nat /\ next \in Nat
        BY <3>3, SlotsIs DEF Typed, Messages
      <4> QED
        BY <1>1, <3>1, <4>1
    <3> QED
      BY <1>3, <3>1, <3>4
  <2> QED
    BY <1>1, <2>1 DEF Owned
<1>9. \A d \in Chats : tips'[d].tail # 0 => tips'[d].tail \in PagesOf(page, d)
  BY <1>3 DEF Memory
<1>10. Memory'
  BY <1>1, <1>6, <1>7, <1>8, <1>9 DEF Memory, OnPage, PagesOf, Images
<1> QED
  BY <1>1, <1>4, <1>10

----------------------------------------------------------------------------
(* What a step does to the heap and the log, before any crash.              *)

\* What is on the pages stays there.
LEMMA CoveredExtends ==
  ASSUME NEW a, NEW b, Extends(a, b), NEW w, NEW n, NEW all, Covered(a, w, n, all)
  PROVE  Covered(b, w, n, all)
<1>1. ASSUME NEW c \in Chats, NEW m \in kept[c] \cap all PROVE OnPage(b, c, m) \/ InLog(w, n, c, m)
  <2>1. OnPage(a, c, m) => OnPage(b, c, m)
    BY ExtendsIs
  <2> QED
    BY <2>1 DEF Covered
<1> QED
  BY <1>1 DEF Covered

\* The same where the pages of b are newer images of those of a.
LEMMA LagsCovers ==
  ASSUME NEW a \in Seq(Pages), NEW b \in Seq(Pages), Lags(a, b), AllChat(b), NEW c \in Chats, NEW m
  PROVE  OnPage(a, c, m) => OnPage(b, c, m)
<1> SUFFICES ASSUME OnPage(a, c, m) PROVE OnPage(b, c, m)
  OBVIOUS
<1>1. PICK p \in PagesOf(a, c) : m \in ToSet(a[p].msgs)
  BY DEF OnPage
<1>2. p \in DOMAIN a /\ a[p].chat = c /\ c # None
  BY SlotsIs DEF PagesOf
<1>3. Len(a) \in Nat /\ Len(b) \in Nat /\ DOMAIN a = 1..Len(a) /\ DOMAIN b = 1..Len(b) /\ Len(a) <= Len(b)
  BY DEF Lags
<1>4. p \in DOMAIN b
  BY <1>2, <1>3
<1>5. a[p].chat \in {None, b[p].chat} /\ ToSet(a[p].msgs) \subseteq ToSet(b[p].msgs)
  BY <1>2 DEF Lags, Older
<1>6. p \in PagesOf(b, c)
  BY <1>2, <1>4, <1>5 DEF PagesOf, AllChat
<1> QED
  BY <1>1, <1>5, <1>6 DEF OnPage

\* One more record in the log.
LEMMA LogKeeps ==
  ASSUME NEW w \in Seq(Records), NEW r \in Records, NEW v, v = Append(w, r), NEW n \in 0..Len(w), NEW c, NEW m
  PROVE  /\ InLog(w, n, c, m) => InLog(v, n, c, m) /\ InLog(v, Len(v), c, m)
         /\ r.type = "insert" /\ r.chat = c /\ r.arg = m /\ r.lsn >= meta.ckpt => InLog(v, Len(v), c, m)
<1>1. /\ Len(v) = Len(w) + 1 /\ Len(w) \in Nat /\ DOMAIN w = 1..Len(w) /\ v[Len(w) + 1] = r
      /\ \A i \in DOMAIN w : v[i] = w[i]
  BY AppendIs
<1>2. \A i \in 1..n : i \in DOMAIN w /\ i \in 1..Len(v) /\ v[i] = w[i]
  BY <1>1
<1>3. Len(v) \in 1..Len(v)
  BY <1>1
<1> QED
  BY <1>1, <1>2, <1>3 DEF InLog

LEMMA AboutLogs ==
  ASSUME NEW P, NEW w \in Seq(Records), About(P, w), NEW r \in Records, NEW v, v = Append(w, r),
         r.type \in {"link", "insert", "checkpoint"},
         r.type # "checkpoint" => r.page \in DOMAIN P /\ r.chat \in Chats /\ r.chat = P[r.page].chat,
         r.type = "insert" => r.arg \in ToSet(P[r.page].msgs)
  PROVE  About(P, v)
<1>1. /\ DOMAIN v = 1..(Len(w) + 1) /\ Len(w) \in Nat /\ DOMAIN w = 1..Len(w) /\ v[Len(w) + 1] = r
      /\ \A i \in DOMAIN w : v[i] = w[i]
  BY AppendIs
<1>2. \A i \in DOMAIN v : (i \in DOMAIN w /\ v[i] = w[i]) \/ v[i] = r
  BY <1>1
<1> QED
  BY <1>2 DEF About

LEMMA OrderedLogs ==
  ASSUME NEW w \in Seq(Records), Ordered(w), NEW r \in Records, NEW v, v = Append(w, r),
         \A i \in DOMAIN w : w[i].lsn < r.lsn
  PROVE  Ordered(v) /\ \A i \in DOMAIN v : v[i].lsn <= r.lsn
<1>1. /\ DOMAIN v = 1..(Len(w) + 1) /\ Len(w) \in Nat /\ DOMAIN w = 1..Len(w) /\ v[Len(w) + 1] = r
      /\ \A i \in DOMAIN w : v[i] = w[i]
  BY AppendIs
<1>2. r.lsn \in Nat /\ \A i \in DOMAIN w : w[i].lsn \in Nat
  BY RecordIs
<1>3. \A i \in DOMAIN v : (i \in DOMAIN w /\ v[i] = w[i]) \/ (i = Len(w) + 1 /\ v[i] = r)
  BY <1>1
<1>4. ASSUME NEW i \in DOMAIN v, NEW j \in DOMAIN v, i < j PROVE v[i].lsn < v[j].lsn
  <2>1. i \in DOMAIN w /\ v[i] = w[i]
    BY <1>1, <1>3, <1>4
  <2>2. CASE j \in DOMAIN w /\ v[j] = w[j]
    BY <1>4, <2>1, <2>2 DEF Ordered
  <2>3. CASE v[j] = r
    BY <2>1, <2>3
  <2> QED
    BY <1>3, <2>2, <2>3
<1>5. \A i \in DOMAIN v : v[i].lsn <= r.lsn
  BY <1>2, <1>3
<1> QED
  BY <1>4, <1>5 DEF Ordered

LEMMA CoveredStays ==
  ASSUME NEW a, NEW w, NEW n, NEW all, Covered(a, w, n, all), meta' = meta, \A c \in Chats : kept'[c] \subseteq kept[c]
  PROVE  Covered(a, w, n, all)'
  BY DEF Covered, InLog

\* A step that writes no record.
LEMMA DurableUnlogged ==
  ASSUME Typed, Typed', Durable, Memory', Extends(page, page'), Lags(safe, disk'), Lags(disk', page'),
         \A c \in Chats : \A m \in kept[c] : OnPage(disk, c, m) => OnPage(disk', c, m),
         AllChat(page)', AllChat(disk)',
         Up, (op' = op /\ page' = page) \/ op'.at \notin {"meta", "rotate", "down"},
         UNCHANGED <<safe, wal, synced, nextLsn, ckpt, meta, next, kept, stable>>
  PROVE  Durable'
<1>1. PICK P, D : P = page' /\ D = disk'
  OBVIOUS
<1>2. Recoverable(page, wal) /\ Covered(safe, wal, Len(wal), Messages) /\ Covered(safe, wal, synced, stable)
  BY DEF Durable
<1>3. Images(P) /\ Owned(page)'
  BY <1>1 DEF Memory, Images
<1>4. About(P, wal) /\ Ordered(wal)
  BY <1>1, <1>2, AboutExtends DEF Recoverable, Speaks
<1>5. Covered(D, wal, Len(wal), Messages)
  BY <1>1, <1>2 DEF Recoverable, Covered
<1>6. Covered(D, wal, Len(wal), Messages)' /\ Covered(safe, wal, Len(wal), Messages)' /\ Covered(safe, wal, synced, stable)'
  BY <1>2, <1>5 DEF Covered, InLog
<1>7. Covered(disk, wal, Len(wal), Messages)'
  BY <1>1, <1>6 DEF Covered
<1>8. Lags(disk, page)' /\ Lags(safe, disk)'
  BY DEF Lags
<1>9. Images(page)' /\ About(page, wal)' /\ Ordered(wal)'
  BY <1>1, <1>3, <1>4 DEF Images, About, Ordered
<1>10. Recoverable(page, wal)'
  BY <1>3, <1>7, <1>8, <1>9 DEF Recoverable, Speaks
<1>11. /\ \A i \in DOMAIN wal' : wal'[i].lsn < nextLsn'
       /\ meta'.ckpt <= nextLsn' /\ meta'.ckpt <= meta'.lsn
       /\ \A m \in stable' : m < next'
       /\ AllChat(safe)'
  BY DEF Durable, AllChat
<1>12. /\ op'.at = "meta" => ckpt' = nextLsn'
       /\ op'.at \in {"meta", "rotate"} => safe' = page'
       /\ op'.at # "down"
  <2>1. CASE op' = op /\ page' = page
    BY <2>1 DEF Durable, Up
  <2>2. CASE op'.at \notin {"meta", "rotate", "down"}
    BY <2>2
  <2> QED
    BY <2>1, <2>2
<1> QED
  BY <1>6, <1>8, <1>10, <1>11, <1>12 DEF Durable, Up

\* A step that writes a record of the pages.
LEMMA DurableLogged ==
  ASSUME Typed, Typed', Durable, Memory', Extends(page, page'), AllChat(page)', Up,
         NEW r \in Records, Logs(r), r.lsn = nextLsn, r.type \in {"link", "insert"},
         r.page \in DOMAIN page', r.chat \in Chats, r.chat = page'[r.page].chat,
         r.type = "insert" => r.arg \in ToSet(page'[r.page].msgs) /\ r.arg = next,
         op'.at \notin {"meta", "rotate", "down"},
         \A c \in Chats : \A m \in kept'[c] : m \in kept[c] \/ (r.type = "insert" /\ r.chat = c /\ r.arg = m),
         \A m \in stable' : m < next', synced' # Len(wal') => stable' \subseteq stable,
         UNCHANGED <<disk, safe, ckpt, meta>>
  PROVE  Durable'
<1>1. PICK P, W, n : P = page' /\ W = wal' /\ n = synced'
  OBVIOUS
<1>2. /\ Recoverable(page, wal) /\ Covered(safe, wal, Len(wal), Messages) /\ Covered(safe, wal, synced, stable)
      /\ Lags(safe, disk) /\ meta.ckpt <= nextLsn /\ meta.ckpt <= meta.lsn
      /\ \A i \in DOMAIN wal : wal[i].lsn < r.lsn
  BY DEF Durable
<1>3. W = Append(wal, r) /\ wal \in Seq(Records) /\ nextLsn' = nextLsn + 1 /\ nextLsn \in Nat
      /\ Len(W) = Len(wal) + 1 /\ n \in {synced, Len(W)} /\ synced \in 0..Len(wal) /\ Len(wal) \in Nat
      /\ disk \in Seq(Pages) /\ page \in Seq(Pages) /\ P \in Seq(Pages)
  <2>1. W = Append(wal, r) /\ nextLsn' = nextLsn + 1
    BY <1>1 DEF Logs
  <2>2. wal \in Seq(Records) /\ nextLsn \in Nat /\ synced \in 0..Len(wal) /\ disk \in Seq(Pages) /\ page \in Seq(Pages)
    BY DEF Typed
  <2>3. P \in Seq(Pages)
    BY <1>1 DEF Typed
  <2>4. Len(wal') = Len(wal) + 1 /\ synced' \in {synced, Len(wal')}
    BY LogsIs
  <2> QED
    BY <1>1, <2>1, <2>2, <2>3, <2>4
<1>4. Images(P) /\ Owned(page)'
  BY <1>1 DEF Memory, Images
<1>5. About(P, wal)
  BY <1>1, <1>2, AboutExtends DEF Recoverable, Speaks
<1>6. About(P, W)
  BY <1>1, <1>3, <1>5, AboutLogs
<1>7. Ordered(W) /\ \A i \in DOMAIN W : W[i].lsn <= nextLsn
  BY <1>2, <1>3, OrderedLogs DEF Recoverable, Speaks
<1>8. Lags(disk, P)
  BY <1>1, <1>2, <1>3, LagsExtends DEF Recoverable
<1>9. ASSUME NEW c \in Chats, NEW m \in kept'[c] PROVE m \in kept[c] \/ InLog(W, Len(W), c, m)
  <2>1. CASE m \in kept[c]
    BY <2>1
  <2>2. CASE r.type = "insert" /\ r.chat = c /\ r.arg = m
    <3>1. Len(wal) \in 0..Len(wal)
      BY <1>3
    <3> QED
      BY <1>2, <1>3, <2>2, <3>1, LogKeeps
  <2> QED
    BY <1>9, <2>1, <2>2
<1>10. \A c \in Chats : \A m : InLog(wal, Len(wal), c, m) => InLog(W, Len(W), c, m)
  <2>1. Len(wal) \in 0..Len(wal)
    BY <1>3
  <2> QED
    BY <1>3, <2>1, LogKeeps
<1>11. ASSUME NEW c \in Chats, NEW m \in kept'[c] \cap Messages
       PROVE  /\ OnPage(disk, c, m) \/ InLog(W, Len(W), c, m)
              /\ OnPage(safe, c, m) \/ InLog(W, Len(W), c, m)
  <2>1. m \in kept[c] \/ InLog(W, Len(W), c, m)
    BY <1>9
  <2>2. CASE m \in kept[c]
    <3>1. OnPage(disk, c, m) \/ InLog(wal, Len(wal), c, m)
      BY <1>2, <2>2 DEF Recoverable, Covered
    <3>2. OnPage(safe, c, m) \/ InLog(wal, Len(wal), c, m)
      BY <1>2, <2>2 DEF Covered
    <3> QED
      BY <1>10, <3>1, <3>2
  <2> QED
    BY <2>1, <2>2
<1>12. ASSUME NEW c \in Chats, NEW m \in kept'[c] \cap stable'
       PROVE  OnPage(safe, c, m) \/ InLog(W, n, c, m)
  <2>1. m \in Messages
    BY DEF Typed
  <2>2. CASE n = Len(W)
    BY <1>11, <2>1, <2>2
  <2>3. CASE n # Len(W)
    <3>1. n = synced /\ m \in stable
      BY <1>1, <1>3, <2>3
    <3>2. m # next
      <4>1. m < next /\ m \in Nat
        BY <2>1, <3>1, SlotsIs DEF Durable, Messages
      <4> QED
        BY <4>1
    <3>3. m \in kept[c]
      BY <3>2
    <3>4. OnPage(safe, c, m) \/ InLog(wal, synced, c, m)
      BY <1>2, <3>1, <3>3 DEF Covered
    <3>5. InLog(wal, synced, c, m) => InLog(W, synced, c, m)
      BY <1>3, LogKeeps
    <3> QED
      BY <3>1, <3>4, <3>5
  <2> QED
    BY <2>2, <2>3
<1>13. /\ Covered(disk, W, Len(W), Messages)' /\ Covered(safe, W, Len(W), Messages)'
  BY <1>11 DEF Covered, InLog
<1>14. Covered(safe, W, n, stable)'
  BY <1>12 DEF Covered, InLog
<1>15. Covered(disk, wal, Len(wal), Messages)' /\ Covered(safe, wal, Len(wal), Messages)' /\ Covered(safe, wal, synced, stable)'
  BY <1>1, <1>13, <1>14
<1>16. Images(page)' /\ About(page, wal)' /\ Ordered(wal)' /\ Lags(disk, page)' /\ Lags(safe, disk)'
  BY <1>1, <1>2, <1>4, <1>6, <1>7, <1>8 DEF Images, About, Ordered, Lags
<1>17. Recoverable(page, wal)'
  BY <1>4, <1>15, <1>16 DEF Recoverable, Speaks
<1>18. \A i \in DOMAIN wal' : wal'[i].lsn < nextLsn'
  <2>1. W \in Seq(Records)
    BY <1>1 DEF Typed
  <2>2. ASSUME NEW i \in DOMAIN W PROVE W[i].lsn < nextLsn'
    <3>1. W[i].lsn \in Nat
      BY <2>1, RecordIs
    <3> QED
      BY <1>3, <1>7, <3>1
  <2> QED
    BY <1>1, <2>2
<1>19. meta'.ckpt <= nextLsn' /\ meta'.ckpt <= meta'.lsn
  <2>1. meta.ckpt \in Nat
    BY DEF Typed
  <2> QED
    BY <1>2, <1>3, <2>1
<1>20. AllChat(disk)' /\ AllChat(safe)'
  BY DEF Durable, AllChat
<1> QED
  BY <1>15, <1>16, <1>17, <1>18, <1>19, <1>20 DEF Durable, Up

LEMMA AppendKeeps ==
  ASSUME Typed, free = 0, Memory, InRange(page, tips), NEW c \in Chats, AppendMsg(c)
  PROVE  Memory' /\ InRange(page, tips)' /\ free' = 0 /\ diskFree' = diskFree /\ (Durable => Durable')
<1>1. op = Idle /\ UNCHANGED <<fsynced, log, ckpt, meta, history, counters>>
  BY DEF AppendMsg
<1>2. UNCHANGED <<safe, wal, synced, nextLsn, ckpt, meta, next, kept, stable>>
  BY <1>1 DEF fsynced, log, history
<1>3. Typed' /\ Up
  BY <1>1, AppendTyped DEF Up, Idle
<1>4. CASE tips[c].tail # 0 /\ ~IsFull(page[tips[c].tail])
  <2>1. op' = [at |-> "insert", chat |-> c] /\ UNCHANGED <<page, free, tips, disk, diskFree>>
    BY <1>4 DEF AppendMsg, store, heap
  <2>2. op'.at = "insert" /\ op'.chat = c
    BY <2>1
  <2>3. Owned(page)'
    <3>1. PICK P : P = page
      OBVIOUS
    <3>2. Owned(P)'
      BY <1>1, <1>2, <3>1, OwnedStays DEF Memory, Idle
    <3> QED
      BY <2>1, <3>1, <3>2 DEF Owned
  <2>4. InRange(page, tips)'
    BY <2>1 DEF InRange
  <2>5. Memory'
    BY <1>2, <1>4, <2>1, <2>2, <2>3 DEF Memory, Images, PagesOf, OnPage, IsFull
  <2>6. ASSUME Durable PROVE Durable'
    <3>1. Extends(page, page')
      <4>1. Len(page) \in Nat
        BY DEF Typed
      <4> QED
        BY <2>1, <4>1 DEF Extends
    <3>2. Lags(safe, disk') /\ Lags(disk', page') /\ AllChat(page)' /\ AllChat(disk)'
      BY <2>1, <2>6 DEF Durable, Recoverable, AllChat
    <3> QED
      BY <1>2, <1>3, <2>1, <2>2, <2>5, <2>6, <3>1, <3>2, DurableUnlogged
  <2> QED
    BY <2>1, <2>4, <2>5, <2>6
<1>5. CASE ~ (tips[c].tail # 0 /\ ~IsFull(page[tips[c].tail]))
  <2>1. /\ Becomes(AllocFor(Now, c)) /\ disk' = Grown(disk, Len(page'), "chat")
        /\ op' = [at |-> "link", chat |-> c, page |-> NewPage(Now)] /\ UNCHANGED diskFree
    BY <1>5 DEF AppendMsg
  <2>2. /\ Memory' /\ InRange(page, tips)' /\ Extends(page, page') /\ Extends(disk, disk') /\ free' = 0
        /\ AllChat(page) => AllChat(page)'
    BY <1>1, <1>2, <2>1, NewPageMemory
  <2>3. ASSUME Durable PROVE Durable'
    <3>1. /\ disk \in Seq(Pages) /\ safe \in Seq(Pages) /\ page \in Seq(Pages) /\ page' \in Seq(Pages)
          /\ disk' \in Seq(Pages) /\ Len(page') \in Nat
      BY <1>3 DEF Typed
    <3>2. Lags(safe, disk) /\ Lags(disk, page) /\ AllChat(disk) /\ AllChat(page)
      BY <2>3 DEF Durable, Recoverable
    <3>3. Lags(safe, disk')
      BY <2>2, <3>1, <3>2, LagsExtends
    <3>4. Lags(disk, page')
      BY <2>2, <3>1, <3>2, LagsExtends
    <3>5. Lags(disk', page')
      BY <2>1, <3>1, <3>4, GrownLags
    <3>6. AllChat(disk)'
      <4>1. AllChat(disk')
        BY <2>1, <3>1, <3>2, GrownExtends
      <4> QED
        BY <4>1 DEF AllChat
    <3>7. \A d \in Chats : \A m \in kept[d] : OnPage(disk, d, m) => OnPage(disk', d, m)
      BY <2>2, ExtendsIs
    <3>8. op'.at = "link"
      BY <2>1
    <3> QED
      BY <1>2, <1>3, <2>2, <2>3, <3>2, <3>3, <3>5, <3>6, <3>7, <3>8, DurableUnlogged
  <2> QED
    BY <2>1, <2>2, <2>3
<1> QED
  BY <1>4, <1>5

LEMMA InsertKeeps ==
  ASSUME Typed, Memory, InRange(page, tips), Insert
  PROVE  Memory' /\ InRange(page, tips)' /\ free' = free /\ diskFree' = diskFree /\ (Durable => Durable')
<1>1. /\ op.at = "insert" /\ op' = [at |-> "logged", chat |-> op.chat]
      /\ UNCHANGED <<free, tips, heap, fsynced, log, ckpt, meta, history, counters>>
  BY DEF Insert
<1>2. UNCHANGED <<disk, diskFree, safe, wal, synced, nextLsn, ckpt, meta, next, kept, stable>>
  BY <1>1 DEF heap, fsynced, log, history
<1>3. Typed' /\ Up /\ op'.at = "logged"
  BY <1>1, InsertTyped DEF Up
<1>4. Memory' /\ InRange(page, tips)' /\ Extends(page, page') /\ (AllChat(page) => AllChat(page)')
  BY InsertMemory
<1>5. ASSUME Durable PROVE Durable'
  <2>1. disk \in Seq(Pages) /\ page \in Seq(Pages) /\ page' \in Seq(Pages)
    BY <1>3 DEF Typed
  <2>2. Lags(safe, disk) /\ Lags(disk, page) /\ AllChat(disk) /\ AllChat(page)
    BY <1>5 DEF Durable, Recoverable
  <2>3. Lags(disk, page')
    BY <1>4, <2>1, <2>2, LagsExtends
  <2>4. AllChat(disk)' /\ Lags(safe, disk') /\ Lags(disk', page')
    BY <1>2, <2>2, <2>3 DEF AllChat
  <2> QED
    BY <1>2, <1>3, <1>4, <1>5, <2>2, <2>4, DurableUnlogged
<1> QED
  BY <1>1, <1>2, <1>4, <1>5

LEMMA LinkPageKeeps ==
  ASSUME Typed, Memory, InRange(page, tips), LinkPage
  PROVE  Memory' /\ InRange(page, tips)' /\ free' = free /\ diskFree' = diskFree /\ (Durable => Durable')
<1>1. /\ op.at = "link" /\ op' = [at |-> "insert", chat |-> op.chat]
      /\ Logs(Rec("link", op.chat, op.page, tips[op.chat].tail))
      /\ Becomes(Link(Now, op.chat, op.page, tips[op.chat].tail))
      /\ Stable(stable)
      /\ UNCHANGED <<heap, fsynced, ckpt, meta, next, kept, counters>>
  BY DEF LinkPage
<1>2. UNCHANGED <<disk, diskFree, safe, ckpt, meta, next, kept>>
  BY <1>1 DEF heap, fsynced
<1>3. op.chat \in Chats /\ op.page \in Nat \ {0} /\ op.page \in DOMAIN page /\ page[op.page].chat = op.chat
  BY <1>1, CallIs DEF Typed, Memory, PagesOf
<1>4. Typed' /\ Up /\ op'.at = "insert"
  BY <1>1, <1>3, LinkTyped DEF Up
<1>5. /\ Memory' /\ InRange(page, tips)' /\ Extends(page, page') /\ free' = free
      /\ AllChat(page) => AllChat(page)'
  BY <1>1, <1>2, LinkMemory
<1>6. ASSUME Durable PROVE Durable'
  <2>1. PICK r : r = Rec("link", op.chat, op.page, tips[op.chat].tail)
    OBVIOUS
  <2>2. tips[op.chat].tail \in Nat /\ nextLsn \in Nat
    BY <1>3 DEF Typed, Tips
  <2>3. /\ r \in Records /\ r.type = "link" /\ r.lsn = nextLsn /\ r.chat = op.chat /\ r.page = op.page
    BY <1>3, <2>1, <2>2, RecIs
  <2>4. r.page \in DOMAIN page' /\ r.chat = page'[r.page].chat
    BY <1>3, <1>5, <2>3 DEF Extends
  <2>5. stable' \subseteq stable
    BY <1>1 DEF Stable
  <2>6. \A m \in stable' : m < next'
    BY <1>2, <1>6, <2>5 DEF Durable
  <2>7. AllChat(page)'
    BY <1>5, <1>6 DEF Durable
  <2> QED
    BY <1>1, <1>2, <1>3, <1>4, <1>5, <1>6, <2>1, <2>3, <2>4, <2>5, <2>6, <2>7, DurableLogged
<1> QED
  BY <1>2, <1>5, <1>6

LEMMA LogInsertKeeps ==
  ASSUME Typed, Memory, InRange(page, tips), LogInsert
  PROVE  Memory' /\ InRange(page, tips)' /\ free' = free /\ diskFree' = diskFree /\ (Durable => Durable')
<1>1. /\ op.at = "logged" /\ op' = Idle
      /\ Logs(Rec("insert", op.chat, tips[op.chat].tail, next))
      /\ next' = next + 1
      /\ kept' = [kept EXCEPT ![op.chat] = @ \cup {next}]
      /\ Stable(Everything \cup {next})
      /\ UNCHANGED <<page, free, heap, fsynced, ckpt, meta, counters>>
  BY DEF LogInsert
<1>2. UNCHANGED <<page, free, disk, diskFree, safe, ckpt, meta>>
  BY <1>1 DEF heap, fsynced
<1>3. PICK c, t : c = op.chat /\ t = tips[op.chat].tail
  OBVIOUS
<1>4. c \in Chats /\ t \in PagesOf(page, c) /\ t \in DOMAIN page /\ page[t].chat = c /\ next \in ToSet(page[t].msgs)
  BY <1>1, <1>3, CallIs DEF Typed, Memory, PagesOf
<1>5. Typed' /\ Up /\ op'.at = "idle"
  BY <1>1, LogInsertTyped DEF Up, Idle
<1>6. Memory' /\ InRange(page, tips)' /\ page' = page
  BY LogInsertMemory
<1>7. ASSUME Durable PROVE Durable'
  <2>1. PICK r : r = Rec("insert", c, t, next)
    OBVIOUS
  <2>2. t \in Nat /\ nextLsn \in Nat /\ next \in Nat
    BY <1>4 DEF Typed
  <2>3. r \in Records /\ r.type = "insert" /\ r.lsn = nextLsn /\ r.chat = c /\ r.page = t /\ r.arg = next
    BY <1>4, <2>1, <2>2, RecIs
  <2>4. Extends(page, page') /\ AllChat(page)'
    <3>1. Len(page) \in Nat
      BY DEF Typed
    <3> QED
      BY <1>2, <1>7, <3>1 DEF Durable, AllChat, Extends
  <2>5. \A d \in Chats : \A m \in kept'[d] : m \in kept[d] \/ (d = c /\ m = next)
    BY <1>1, <1>3, <1>4 DEF Typed
  <2>6. ASSUME NEW m \in Everything PROVE m < next + 1
    <3>1. PICK d \in Chats : m \in kept[d]
      BY <2>6 DEF Everything
    <3>2. m \in Messages /\ m <= next
      BY <3>1, KeptIsPast
    <3> QED
      BY <2>2, <3>2 DEF Messages
  <2>7. ASSUME NEW m \in stable PROVE m < next + 1
    <3>1. m < next /\ m \in Messages
      BY <1>7 DEF Durable, Typed
    <3> QED
      BY <2>2, <3>1 DEF Messages
  <2>8. stable' \subseteq stable \cup Everything \cup {next} /\ (synced' # Len(wal') => stable' \subseteq stable)
    BY <1>1 DEF Stable
  <2>9. \A m \in stable' : m < next'
    BY <1>1, <2>2, <2>6, <2>7, <2>8
  <2>10. /\ r.page \in DOMAIN page' /\ r.chat = page'[r.page].chat
         /\ r.arg \in ToSet(page'[r.page].msgs)
    BY <1>2, <1>4, <2>3
  <2>11. \A d \in Chats : \A m \in kept'[d] : m \in kept[d] \/ (r.type = "insert" /\ r.chat = d /\ r.arg = m)
    BY <2>3, <2>5
  <2>12. Logs(r)
    BY <1>1, <1>3, <2>1
  <2> QED
    BY <1>2, <1>4, <1>5, <1>6, <1>7, <2>3, <2>4, <2>8, <2>9, <2>10, <2>11, <2>12, DurableLogged
<1> QED
  BY <1>2, <1>6, <1>7

LEMMA EvictKeeps ==
  ASSUME Typed, Memory, InRange(page, tips), NEW p \in DOMAIN page, EvictPage(p)
  PROVE  Memory' /\ InRange(page, tips)' /\ free' = free /\ diskFree' = diskFree /\ (Durable => Durable')
<1>1. /\ op.at # "down" /\ page[p] # disk[p] /\ disk' = [disk EXCEPT ![p] = page[p]]
      /\ UNCHANGED <<store, diskFree, fsynced, log, ckpt, meta, op, history, counters>>
  BY DEF EvictPage
<1>2. UNCHANGED <<page, free, tips, diskFree, safe, wal, synced, nextLsn, ckpt, meta, op, next, kept, stable>>
  BY <1>1 DEF store, fsynced, log, history
<1>3. Typed' /\ Up
  BY <1>1, EvictTyped DEF Up
<1>4. disk \in Seq(Pages) /\ page \in Seq(Pages) /\ safe \in Seq(Pages) /\ disk' \in Seq(Pages)
  BY <1>3 DEF Typed
<1>5. Len(disk) = Len(page) /\ op.at \notin {"meta", "rotate"}
  BY <1>1 DEF Memory
<1>6. /\ Len(disk') = Len(disk) /\ DOMAIN disk' = DOMAIN disk /\ DOMAIN disk = DOMAIN page
      /\ \A q \in DOMAIN disk : disk'[q] = IF q = p THEN page[p] ELSE disk[q]
  <2>1. DOMAIN disk = 1..Len(disk) /\ DOMAIN page = 1..Len(page)
    BY <1>4
  <2> QED
    BY <1>1, <1>4, <1>5, <2>1
<1>7. InRange(page, tips)'
  BY <1>2 DEF InRange
<1>8. Memory'
  <2>1. Owned(page)'
    <3>1. PICK P : P = page
      OBVIOUS
    <3>2. Owned(P)'
      BY <1>2, <3>1 DEF Memory, Owned
    <3> QED
      BY <1>2, <3>1, <3>2 DEF Owned
  <2>2. Len(disk') = Len(page')
    BY <1>2, <1>5, <1>6
  <2> QED
    BY <1>2, <1>5, <2>1, <2>2 DEF Memory, Images, PagesOf, OnPage, IsFull
<1>9. ASSUME Durable PROVE Durable'
  <2>1. Lags(safe, disk) /\ Lags(disk, page) /\ AllChat(disk) /\ AllChat(page) /\ AllChat(safe) /\ Images(page)
    BY <1>9 DEF Durable, Recoverable, Speaks
  <2>2. Lags(safe, page)
    BY <1>4, <2>1, LagsTwice
  <2>3. Older(page[p], page[p])
    BY <2>1 DEF Images, Older
  <2>4. Lags(disk', page')
    BY <1>2, <1>6, <2>1, <2>3 DEF Lags
  <2>5. Lags(safe, disk')
    BY <1>6, <2>1, <2>2 DEF Lags
  <2>6. AllChat(disk)' /\ AllChat(page)'
    BY <1>2, <1>6, <2>1 DEF AllChat
  <2>7. Lags(disk, disk')
    <3>1. \A q \in DOMAIN disk : Older(disk[q], page[q]) /\ Older(disk[q], disk[q])
      BY <2>1 DEF Lags, Older
    <3>2. Len(disk) \in Nat
      BY <1>4
    <3> QED
      BY <1>6, <3>1, <3>2 DEF Lags
  <2>8. ASSUME NEW c \in Chats, NEW m PROVE OnPage(disk, c, m) => OnPage(disk', c, m)
    <3>1. AllChat(disk')
      BY <2>6 DEF AllChat
    <3> QED
      BY <1>4, <2>7, <3>1, LagsCovers
  <2>9. Extends(page, page')
    <3>1. Len(page) \in Nat
      BY <1>4
    <3> QED
      BY <1>2, <3>1 DEF Extends
  <2> QED
    BY <1>2, <1>3, <1>8, <1>9, <2>4, <2>5, <2>6, <2>8, <2>9, DurableUnlogged
<1> QED
  BY <1>2, <1>7, <1>8, <1>9

LEMMA CheckpointKeeps ==
  ASSUME Typed, Untrimmed, Memory, InRange(page, tips), NEW then \in {"idle", "down"}, Checkpoint(then)
  PROVE  Memory' /\ InRange(page, tips)' /\ Untrimmed' /\ (Durable => Durable')
<1>1. /\ op = Idle
      /\ disk' = page /\ diskFree' = free /\ safe' = page /\ safeFree' = free
      /\ wal' = Append(wal, Rec("checkpoint", None, 0, 0)) /\ synced' = Len(wal')
      /\ nextLsn' = nextLsn + 1 /\ ckpt' = nextLsn + 1
      /\ stable' = Everything
      /\ op' = [at |-> "meta", then |-> then]
      /\ UNCHANGED <<page, free, tips, meta, next, kept>>
  BY DEF Checkpoint, store
<1>2. Typed' /\ op'.at = "meta" /\ op.at = "idle" /\ Up
  BY <1>1, CheckpointTyped DEF Idle, Up
<1>3. Untrimmed'
  BY <1>1, <1>2 DEF Untrimmed
<1>4. InRange(page, tips)'
  BY <1>1 DEF InRange
<1>5. PICK P : P = page
  OBVIOUS
<1>6. Owned(page)'
  <2>1. Owned(P)'
    BY <1>1, <1>2, <1>5, OwnedStays DEF Memory
  <2> QED
    BY <1>1, <1>5, <2>1 DEF Owned
<1>7. Memory'
  BY <1>1, <1>2, <1>6 DEF Memory, Images, PagesOf, OnPage
<1>8. ASSUME Durable PROVE Durable'
  <2>1. PICK r, W : r = Rec("checkpoint", None, 0, 0) /\ W = wal'
    OBVIOUS
  <2>2. nextLsn \in Nat /\ wal \in Seq(Records) /\ page \in Seq(Pages) /\ meta.ckpt \in Nat
    BY DEF Typed
  <2>3. r \in Records /\ r.type = "checkpoint" /\ r.lsn = nextLsn
    <3>1. Rec("checkpoint", None, 0, 0) \in Records
      BY RecIs DEF Typed
    <3>2. r.type = "checkpoint" /\ r.lsn = nextLsn
      BY <2>1 DEF Rec
    <3> QED
      BY <2>1, <3>1, <3>2
  <2>4. /\ Images(page) /\ About(page, wal) /\ Ordered(wal) /\ AllChat(page) /\ meta.ckpt <= nextLsn /\ meta.ckpt <= meta.lsn
        /\ \A i \in DOMAIN wal : wal[i].lsn < r.lsn
    BY <1>8, <2>3 DEF Durable, Recoverable, Speaks
  <2>5. W = Append(wal, r)
    BY <1>1, <2>1
  <2>6. About(P, W)
    BY <1>5, <2>2, <2>3, <2>4, <2>5, AboutLogs
  <2>7. Ordered(W) /\ \A i \in DOMAIN W : W[i].lsn <= nextLsn
    BY <2>2, <2>3, <2>4, <2>5, OrderedLogs
  <2>8. Lags(P, P)
    BY <1>5, <2>2, <2>4, LagsItself
  <2>9. \A c \in Chats : \A m \in kept[c] : OnPage(P, c, m)
    BY <1>5 DEF Memory
  <2>10. \A n, all : Covered(P, W, n, all)'
    BY <1>1, <2>9 DEF Covered
  <2>11. Covered(disk, wal, Len(wal), Messages)' /\ Covered(safe, wal, Len(wal), Messages)' /\ Covered(safe, wal, synced, stable)'
    BY <1>1, <1>5, <2>1, <2>10
  <2>12. Images(page)' /\ About(page, wal)' /\ Ordered(wal)' /\ Lags(disk, page)' /\ Lags(safe, disk)'
    BY <1>1, <1>5, <2>1, <2>4, <2>6, <2>7, <2>8 DEF Images, About, Ordered, Lags
  <2>13. Recoverable(page, wal)'
    BY <1>6, <2>11, <2>12 DEF Recoverable, Speaks
  <2>14. \A i \in DOMAIN wal' : wal'[i].lsn < nextLsn'
    <3>1. W \in Seq(Records)
      BY <1>2, <2>1 DEF Typed
    <3>2. ASSUME NEW i \in DOMAIN W PROVE W[i].lsn < nextLsn'
      <4>1. W[i].lsn \in Nat
        BY <3>1, RecordIs
      <4> QED
        BY <1>1, <2>2, <2>7, <4>1
    <3> QED
      BY <2>1, <3>2
  <2>15. meta'.ckpt <= nextLsn' /\ meta'.ckpt <= meta'.lsn
    BY <1>1, <2>2, <2>4
  <2>16. ASSUME NEW m \in Everything PROVE m < next
    <3>1. PICK d \in Chats : m \in kept[d]
      BY <2>16 DEF Everything
    <3>2. m \in Messages /\ m <= next /\ m # next
      BY <1>2, <3>1, KeptIsPast
    <3>3. m \in Nat /\ next \in Nat
      BY <3>2 DEF Messages, Typed
    <3> QED
      BY <3>2, <3>3
  <2>17. AllChat(page)' /\ AllChat(disk)' /\ AllChat(safe)'
    BY <1>1, <2>4 DEF AllChat
  <2> QED
    BY <1>1, <1>2, <2>11, <2>12, <2>13, <2>14, <2>15, <2>16, <2>17 DEF Durable, Up
<1> QED
  BY <1>3, <1>4, <1>7, <1>8

LEMMA MetaKeeps ==
  ASSUME Typed, Memory, InRange(page, tips), PersistMeta
  PROVE  Memory' /\ InRange(page, tips)' /\ free' = free /\ diskFree' = diskFree /\ (Durable => Durable')
<1>1. /\ op.at = "meta" /\ meta' = [lsn |-> nextLsn, ckpt |-> ckpt]
      /\ op' = [op EXCEPT !.at = "rotate"]
      /\ UNCHANGED <<page, free, tips, disk, diskFree, safe, wal, synced, nextLsn, ckpt, next, kept, stable>>
  BY DEF PersistMeta, store, heap, fsynced, log, history
<1>2. Typed'
  BY MetaTyped
<1>3. op'.at = "rotate"
  <2>1. op \in [at : {"meta", "rotate"}, then : {"idle", "down"}]
    BY <1>1 DEF Typed, Calls
  <2> QED
    BY <1>1, <2>1
<1>4. InRange(page, tips)'
  BY <1>1 DEF InRange
<1>5. PICK P, w : P = page /\ w = wal
  OBVIOUS
<1>6. Owned(page)'
  <2>1. Owned(P)'
    BY <1>1, <1>5, OwnedStays DEF Memory
  <2> QED
    BY <1>1, <1>5, <2>1 DEF Owned
<1>7. Memory'
  BY <1>1, <1>3, <1>6 DEF Memory, Images, PagesOf, OnPage
<1>8. ASSUME Durable PROVE Durable'
  <2>1. /\ Images(page) /\ About(page, wal) /\ Ordered(wal) /\ Lags(disk, page) /\ Lags(safe, disk)
        /\ safe = page /\ ckpt = nextLsn
    BY <1>1, <1>8 DEF Durable, Recoverable, Speaks
  <2>2. disk = page
    BY <1>1 DEF Memory
  <2>3. \A c \in Chats : \A m \in kept[c] : OnPage(P, c, m)
    BY <1>5 DEF Memory
  <2>4. \A n, all : Covered(P, w, n, all)'
    BY <1>1, <2>3 DEF Covered
  <2>5. Covered(disk, wal, Len(wal), Messages)' /\ Covered(safe, wal, Len(wal), Messages)' /\ Covered(safe, wal, synced, stable)'
    BY <1>1, <1>5, <2>1, <2>2, <2>4
  <2>6. Images(page)' /\ About(page, wal)' /\ Ordered(wal)' /\ Lags(disk, page)' /\ Lags(safe, disk)'
    BY <1>1, <2>1 DEF Images, About, Ordered, Lags
  <2>7. Recoverable(page, wal)'
    BY <1>6, <2>5, <2>6 DEF Recoverable, Speaks
  <2>8. meta'.ckpt <= nextLsn' /\ meta'.ckpt <= meta'.lsn
    BY <1>1, <2>1 DEF Typed
  <2>9. AllChat(page)' /\ AllChat(disk)' /\ AllChat(safe)'
    BY <1>1, <1>8 DEF AllChat, Durable
  <2>10. (\A i \in DOMAIN wal' : wal'[i].lsn < nextLsn') /\ (\A m \in stable' : m < next')
    BY <1>1, <1>8 DEF Durable
  <2> QED
    BY <1>1, <1>3, <2>1, <2>5, <2>6, <2>7, <2>8, <2>9, <2>10 DEF Durable, Up
<1> QED
  BY <1>1, <1>4, <1>7, <1>8

LEMMA NothingReadable == Readable(<<>>) = <<>>
  BY DEF Readable

LEMMA RotateKeeps ==
  ASSUME Typed, Untrimmed, Memory, InRange(page, tips), Rotate
  PROVE  /\ InRange(page, tips)' /\ Untrimmed' /\ (Up' => Memory') /\ (Durable => Durable')
         /\ ~Up' => Restorable'
<1>1. /\ op.at = "rotate" /\ wal' = <<>> /\ synced' = 0 /\ op' = [at |-> op.then]
      /\ UNCHANGED <<page, free, tips, disk, diskFree, safe, safeFree, nextLsn, ckpt, meta, next, kept, stable>>
  BY DEF Rotate, store, heap, fsynced, history
<1>2. Typed'
  BY RotateTyped
<1>3. op'.at \in {"idle", "down"}
  BY <1>1, CallIs DEF Typed
<1>4. InRange(page, tips)' /\ Untrimmed'
  BY <1>1, <1>3 DEF InRange, Untrimmed
<1>5. PICK P : P = page
  OBVIOUS
<1>6. Owned(P)'
  BY <1>1, <1>5, OwnedStays DEF Memory
<1>7. Owned(page)'
  BY <1>1, <1>5, <1>6 DEF Owned
<1>8. Memory'
  BY <1>1, <1>3, <1>7 DEF Memory, Images, PagesOf, OnPage
<1>9. \A n, all : Covered(P, <<>>, n, all)'
  BY <1>1, <1>5 DEF Covered, Memory
<1>10. disk = page /\ Images(P) /\ P \in Seq(Pages)
  BY <1>1, <1>5 DEF Memory, Typed, Images
<1>11. About(P, <<>>) /\ Ordered(<<>>) /\ Lags(P, P)
  BY <1>10, LagsItself DEF About, Ordered
<1>12. Recoverable(P, <<>>)'
  <2>1. Lags(disk, P)'
    BY <1>1, <1>5, <1>10, <1>11 DEF Lags
  <2>2. \A n, all : Covered(disk, <<>>, n, all)'
    BY <1>1, <1>5, <1>9, <1>10
  <2> QED
    BY <1>6, <1>10, <1>11, <2>1, <2>2 DEF Recoverable, Speaks
<1>13. ASSUME Durable PROVE Durable'
  <2>1. safe = page /\ Lags(safe, disk) /\ meta.ckpt <= nextLsn /\ meta.ckpt <= meta.lsn
    BY <1>1, <1>13 DEF Durable
  <2>2. Recoverable(page, wal)'
    BY <1>1, <1>5, <1>12 DEF Recoverable, Speaks, Images, About, Owned, Lags
  <2>3. \A n, all : Covered(safe, <<>>, n, all)'
    BY <1>1, <1>5, <1>9, <2>1
  <2>4. Covered(safe, wal, Len(wal), Messages)' /\ Covered(safe, wal, synced, stable)'
    BY <1>1, <2>3
  <2>5. AllChat(page)' /\ AllChat(disk)' /\ AllChat(safe)' /\ Lags(safe, disk)'
    BY <1>1, <1>13, <2>1 DEF AllChat, Durable, Lags
  <2>6. (\A i \in DOMAIN wal' : wal'[i].lsn < nextLsn') /\ (\A m \in stable' : m < next')
    BY <1>1, <1>13 DEF Durable
  <2> QED
    BY <1>1, <1>3, <2>1, <2>2, <2>4, <2>5, <2>6 DEF Durable, Up
<1>14. Restorable'
  <2>1. Recoverable(P, Readable(wal))'
    BY <1>1, <1>12, NothingReadable
  <2>2. \A p \in DOMAIN disk' : disk'[p].type = "free" => disk'[p].next <= Len(disk')
    BY <1>1, <1>10 DEF InRange
  <2> QED
    BY <1>10, <2>1, <2>2 DEF Restorable
<1> QED
  BY <1>4, <1>8, <1>13, <1>14

----------------------------------------------------------------------------
(* Opening and crashing.                                                    *)

LEMMA RestoredIs ==
  ASSUME Typed, NEW P \in Seq(Pages), NEW w \in Seq(Records), Recoverable(P, w), diskFree = 0,
         \A p \in DOMAIN disk : disk[p].type = "free" => disk[p].next <= Len(disk),
         NEW s, s = Replay(FromHeap, w)
  PROVE  Caught(P, w, Len(w), s)
<1>1. disk \in Seq(Pages) /\ meta.ckpt \in Nat
  BY DEF Typed
<1>2. Caught(P, w, 0, FromHeap)
  BY <1>1, HeapCatches
<1>3. Speaks(P, w)
  BY DEF Recoverable
<1> QED
  BY <1>1, <1>2, <1>3, ReplayCatches

\* open finds again what was kept.
LEMMA RestoredMemory ==
  ASSUME Typed, NEW P \in Seq(Pages), NEW w \in Seq(Records), Recoverable(P, w), ~Up, NEW s, Caught(P, w, Len(w), s),
         Becomes(s), disk' = Grown(disk, Len(s.page), "free"), op' = Idle, next' = next, kept' = kept
  PROVE  /\ Memory' /\ InRange(page, tips)' /\ free' = 0 /\ page' \in Seq(Pages) /\ tips' \in [Chats -> Tips]
         /\ disk' \in Seq(Pages)
<1>1. /\ s.page \in Seq(Pages) /\ s.free = 0 /\ s.tips \in [Chats -> Tips]
      /\ Len(disk) <= Len(s.page) /\ Len(s.page) <= Len(P)
      /\ \A p \in DOMAIN s.page : Older(s.page[p], P[p])
      /\ InRange(s.page, s.tips)
      /\ \A c \in Chats : s.tips[c].tail # 0 => s.tips[c].tail \in PagesOf(s.page, c)
      /\ \A c \in Chats, m \in Messages : OnPage(disk, c, m) \/ InLog(w, Len(w), c, m) => OnPage(s.page, c, m)
  BY FlatReplay DEF Caught
<1>2. page' = s.page /\ free' = 0 /\ tips' = s.tips /\ op'.at = "idle"
  BY <1>1 DEF Becomes, Idle
<1>3. disk \in Seq(Pages) /\ Len(disk) \in Nat /\ Len(s.page) \in Nat /\ Len(P) \in Nat
      /\ DOMAIN P = 1..Len(P) /\ DOMAIN s.page = 1..Len(s.page)
  BY <1>1 DEF Typed
<1>4. disk' \in Seq(Pages) /\ Len(disk') = Len(page')
  BY <1>1, <1>2, <1>3, GrownIs
<1>5. InRange(page, tips)'
  BY <1>1, <1>2 DEF InRange
<1>6. Images(page')
  BY <1>1, <1>2 DEF Images, Older
<1>7. \A p \in DOMAIN s.page : p \in DOMAIN P
  BY <1>1, <1>3
<1>8. Owned(s.page)
  <2>1. ASSUME NEW p \in DOMAIN s.page, NEW m \in ToSet(s.page[p].msgs)
        PROVE  m \in ToSet(P[p].msgs) /\ s.page[p].chat = P[p].chat
    <3>1. Image(s.page[p]) /\ s.page[p].chat \in {None, P[p].chat} /\ ToSet(s.page[p].msgs) \subseteq ToSet(P[p].msgs)
      BY <1>1 DEF Older
    <3>2. s.page[p].msgs # <<>>
      BY <2>1 DEF ToSet
    <3> QED
      BY <3>1, <3>2 DEF Image
  <2>2. Owned(P)
    BY DEF Recoverable
  <2> QED
    BY <1>7, <2>1, <2>2, OwnedBy
<1>9. Owned(page)'
  <2>1. PICK Q : Q = s.page
    OBVIOUS
  <2>2. Owned(Q)'
    BY <1>8, <2>1, OwnedStays DEF Up
  <2> QED
    BY <1>2, <2>1, <2>2 DEF Owned
<1>10. ASSUME NEW c \in Chats, NEW m \in kept[c] PROVE OnPage(s.page, c, m)
  <2>1. m \in Messages
    BY DEF Typed
  <2>2. OnPage(disk, c, m) \/ InLog(w, Len(w), c, m)
    BY <2>1 DEF Recoverable, Covered
  <2> QED
    BY <1>1, <2>1, <2>2
<1>11. Memory'
  BY <1>1, <1>2, <1>4, <1>6, <1>9, <1>10 DEF Memory, PagesOf, OnPage
<1> QED
  BY <1>1, <1>2, <1>4, <1>5, <1>11

LEMMA UntrimmedStays ==
  ASSUME Untrimmed, free' = free, UNCHANGED <<diskFree, safeFree>>, op'.at \notin {"free", "rewrite"}
  PROVE  Untrimmed'
  BY DEF Untrimmed

LEMMA OpenTyped ==
  ASSUME Typed, Open, page' \in Seq(Pages), disk' \in Seq(Pages), free' \in Nat, tips' \in [Chats -> Tips], ckpt' \in Nat
  PROVE  Typed'
<1>1. /\ nextLsn' = meta.lsn /\ appends' = 0 /\ op' = Idle
      /\ UNCHANGED <<diskFree, safe, safeFree, wal, synced, meta, next, kept, stable, trims, ckpts, kills, losses>>
  BY DEF Open, fsynced, history, counters
<1>2. op' \in Calls /\ op'.at = "idle"
  BY <1>1, CallsAre DEF Idle
<1>3. nextLsn' \in Nat /\ appends' \in 0..(SyncEvery - 1)
  BY <1>1, SlotsIs DEF Typed
<1> QED
  BY <1>1, <1>2, <1>3 DEF Typed

\* The opened heap, before any crash: the log is empty.
LEMMA CleanOpenDurable ==
  ASSUME Typed, Typed', Durable, ~Up, Memory', page' = Relinked(disk), disk' = Grown(disk, Len(page'), "free"),
         op' = Idle, nextLsn' = meta.lsn,
         UNCHANGED <<safe, wal, synced, meta, next, kept, stable>>
  PROVE  Durable'
<1>1. wal = <<>> /\ Lags(safe, disk) /\ Lags(disk, page) /\ AllChat(disk) /\ AllChat(safe)
      /\ meta.ckpt <= meta.lsn /\ (\A m \in stable : m < next)
  BY DEF Durable, Recoverable
<1>2. /\ disk \in Seq(Pages) /\ Len(disk) \in Nat /\ DOMAIN disk = 1..Len(disk) /\ safe \in Seq(Pages)
  <2>1. disk \in Seq(Pages) /\ safe \in Seq(Pages)
    BY DEF Typed
  <2> QED
    BY <2>1
<1>3. /\ Len(page') = Len(disk) /\ DOMAIN page' = DOMAIN disk
      /\ \A p \in DOMAIN disk : /\ page'[p].type = disk[p].type /\ page'[p].chat = disk[p].chat
                                /\ page'[p].msgs = disk[p].msgs
  <2>1. /\ Len(Relinked(disk)) = Len(disk) /\ Relinked(disk) \in Seq(Pages)
        /\ \A p \in DOMAIN disk : /\ Relinked(disk)[p].type = disk[p].type /\ Relinked(disk)[p].chat = disk[p].chat
                                  /\ Relinked(disk)[p].msgs = disk[p].msgs
    BY <1>2, RelinkedIs
  <2>2. DOMAIN Relinked(disk) = DOMAIN disk
    BY <1>2, <2>1
  <2> QED
    BY <2>1, <2>2
<1>4. PICK D, P : D = disk' /\ P = page'
  OBVIOUS
<1>5. D \in Seq(Pages) /\ Len(D) = Len(disk) /\ DOMAIN D = DOMAIN disk /\ \A p \in DOMAIN disk : D[p] = disk[p]
  <2>1. /\ D \in Seq(Pages)
        /\ Len(D) = (IF Len(disk) > Len(disk) THEN Len(disk) ELSE Len(disk))
        /\ DOMAIN D = 1..Len(D)
        /\ \A p \in DOMAIN D : D[p] = IF p <= Len(disk) THEN disk[p] ELSE Blank("free")
    BY <1>2, <1>3, <1>4, GrownIs
  <2> QED
    BY <1>2, <2>1
<1>6. Lags(safe, D)
  <2>1. \A p \in DOMAIN safe : p \in DOMAIN disk
    BY <1>1, <1>2 DEF Lags
  <2> QED
    BY <1>1, <1>5, <2>1 DEF Lags
<1>7. Lags(D, P)
  <2>1. \A p \in DOMAIN disk : Image(disk[p])
    BY <1>1 DEF Lags, Older
  <2>2. \A p \in DOMAIN D : Older(D[p], P[p])
    BY <1>3, <1>4, <1>5, <2>1 DEF Older
  <2> QED
    BY <1>2, <1>3, <1>4, <1>5, <2>2 DEF Lags
<1>8. \A c \in Chats : \A m : OnPage(disk, c, m) => OnPage(D, c, m)
  BY <1>5 DEF OnPage, PagesOf
<1>9. Covered(disk, <<>>, 0, Messages) /\ Covered(safe, <<>>, 0, Messages) /\ Covered(safe, <<>>, synced, stable)
  <2>1. Len(<<>>) = 0
    OBVIOUS
  <2> QED
    BY <1>1, <2>1 DEF Durable, Recoverable
<1>10. Covered(D, <<>>, 0, Messages)
  BY <1>8, <1>9 DEF Covered
<1>11. Covered(D, <<>>, 0, Messages)' /\ Covered(safe, <<>>, 0, Messages)' /\ Covered(safe, <<>>, synced, stable)'
  BY <1>9, <1>10 DEF Covered, InLog
<1>12. Covered(disk, wal, Len(wal), Messages)' /\ Covered(safe, wal, Len(wal), Messages)' /\ Covered(safe, wal, synced, stable)'
  <2>1. Len(<<>>) = 0
    OBVIOUS
  <2> QED
    BY <1>1, <1>4, <1>11, <2>1
<1>13. Images(page)' /\ Owned(page)'
  BY DEF Memory, Images
<1>14. About(page, wal)' /\ Ordered(wal)' /\ Lags(safe, disk)' /\ Lags(disk, page)'
  BY <1>1, <1>4, <1>6, <1>7 DEF About, Ordered, Lags
<1>15. Recoverable(page, wal)'
  BY <1>12, <1>13, <1>14 DEF Recoverable, Speaks
<1>16. AllChat(page)' /\ AllChat(disk)' /\ AllChat(safe)'
  BY <1>1, <1>3, <1>4, <1>5 DEF AllChat
<1>17. (\A i \in DOMAIN wal' : wal'[i].lsn < nextLsn') /\ meta'.ckpt <= nextLsn' /\ meta'.ckpt <= meta'.lsn
       /\ \A m \in stable' : m < next'
  BY <1>1
<1> QED
  BY <1>12, <1>14, <1>15, <1>16, <1>17 DEF Durable, Up, Idle

\* A log without a torn frame is read to its end.
LEMMA AllReadable ==
  ASSUME NEW w, \A i \in DOMAIN w : w[i].type # "torn"
  PROVE  Readable(w) = w
  BY TornIs DEF Readable

LEMMA TornReadable ==
  ASSUME NEW v \in Seq(Records), \A i \in DOMAIN v : v[i].type # "torn"
  PROVE  Readable(Append(v, Torn)) = v
<1>1. Len(v) \in Nat /\ DOMAIN v = 1..Len(v)
  OBVIOUS
<1>2. PICK w : w = Append(v, Torn)
  OBVIOUS
<1>3. /\ w \in Seq(Records) /\ Len(w) = Len(v) + 1 /\ DOMAIN w = 1..(Len(v) + 1) /\ w[Len(v) + 1] = Torn
      /\ \A i \in DOMAIN v : w[i] = v[i]
  BY <1>2, TornIs, AppendIs
<1> DEFINE torn == {i \in DOMAIN w : w[i] = Torn}
<1>4. torn = {Len(v) + 1}
  <2>1. ASSUME NEW i \in DOMAIN w, w[i] = Torn PROVE i = Len(v) + 1
    <3>1. i \notin DOMAIN v
      BY <1>3, <2>1, TornIs
    <3> QED
      BY <1>1, <1>3, <3>1
  <2>2. Len(v) + 1 \in DOMAIN w
    BY <1>1, <1>3
  <2> QED
    BY <1>3, <2>1, <2>2
<1>5. Min(torn) = Len(v) + 1
  <2>1. torn \subseteq Nat /\ torn # {}
    BY <1>1, <1>4
  <2> HIDE DEF torn
  <2>2. Min(torn) \in torn
    BY <2>1, MinIs
  <2> QED
    BY <1>4, <2>2
<1>6. Readable(w) = SubSeq(w, 1, Len(v))
  <2>1. Readable(w) = SubSeq(w, 1, Min(torn) - 1)
    BY <1>4 DEF Readable
  <2> HIDE DEF torn
  <2>2. Min(torn) - 1 = Len(v)
    BY <1>1, <1>5
  <2> QED
    BY <2>1, <2>2
<1>7. PICK u : u = SubSeq(w, 1, Len(v))
  OBVIOUS
<1>8. Len(v) \in 0..Len(w)
  BY <1>1, <1>3
<1>9. u \in Seq(Records) /\ Len(u) = Len(v) /\ DOMAIN u = 1..Len(v) /\ \A i \in 1..Len(v) : u[i] = w[i]
  BY <1>3, <1>7, <1>8, PrefixIs
<1>10. \A i \in 1..Len(v) : u[i] = v[i]
  BY <1>1, <1>3, <1>9
<1>11. u = v
  BY <1>1, <1>9, <1>10, SeqEqual
<1> QED
  BY <1>2, <1>6, <1>7, <1>11

LEMMA ReadableIs ==
  ASSUME NEW w \in Seq(Records)
  PROVE  Readable(w) \in Seq(Records)
<1> DEFINE torn == {i \in DOMAIN w : w[i] = Torn}
<1>1. Len(w) \in Nat /\ DOMAIN w = 1..Len(w)
  OBVIOUS
<1>2. CASE torn = {}
  BY <1>2 DEF Readable
<1>3. CASE torn # {}
  <2>1. torn \subseteq Nat /\ torn \subseteq DOMAIN w
    BY <1>1
  <2>2. Readable(w) = SubSeq(w, 1, Min(torn) - 1)
    BY <1>3 DEF Readable
  <2> HIDE DEF torn
  <2>3. Min(torn) \in torn
    BY <1>3, <2>1, MinIs
  <2>4. PICK k : k = Min(torn)
    OBVIOUS
  <2>5. k \in 1..Len(w)
    BY <1>1, <2>1, <2>3, <2>4
  <2>6. k - 1 \in 0..Len(w)
    BY <1>1, <2>5
  <2> QED
    BY <2>2, <2>4, <2>6, PrefixIs
<1> QED
  BY <1>2, <1>3

LEMMA NothingReplayed == ASSUME NEW s PROVE Replay(s, <<>>) = s
<1>0. <<>> \in Seq(Records)
  OBVIOUS
<1>1. PICK w \in Seq(Records) : w = <<>>
  BY <1>0
<1>2. Len(w) = 0
  BY <1>1
<1>3. PICK after : /\ after[0] = s /\ Replay(s, w) = after[Len(w)]
                   /\ \A n \in 1..Len(w) : after[n] = Redo(after[n - 1], w[n])
  BY ReplayIs
<1> QED
  BY <1>1, <1>2, <1>3

LEMMA OpenKeeps ==
  ASSUME Typed, Untrimmed, Restorable, Open
  PROVE  Typed' /\ Untrimmed' /\ Memory' /\ InRange(page, tips)' /\ Up' /\ (Durable => Durable')
<1>1. /\ op.at = "down" /\ op' = Idle /\ nextLsn' = meta.lsn
      /\ UNCHANGED <<diskFree, safe, safeFree, wal, synced, meta, next, kept, stable, trims, ckpts, kills, losses>>
  BY DEF Open, fsynced, history, counters
<1>2. PICK w : w = Readable(wal)
  OBVIOUS
<1>3. w \in Seq(Records)
  BY <1>2, ReadableIs DEF Typed
<1>4. PICK P \in Seq(Pages) : Recoverable(P, w)
  BY <1>2 DEF Restorable
<1>5. PICK s : s = Replay(FromHeap, w)
  OBVIOUS
<1>6. Becomes(s) /\ ckpt' = s.ckpt /\ disk' = Grown(disk, Len(s.page), "free")
  BY <1>2, <1>5 DEF Open, FromHeap
<1>7. Caught(P, w, Len(w), s)
  BY <1>3, <1>4, <1>5, RestoredIs DEF Restorable, Untrimmed
<1>8. ckpt' \in Nat
  BY <1>6, <1>7, FlatReplay DEF Caught
<1>9. /\ Memory' /\ InRange(page, tips)' /\ free' = 0 /\ page' \in Seq(Pages) /\ tips' \in [Chats -> Tips]
      /\ disk' \in Seq(Pages)
  BY <1>1, <1>3, <1>4, <1>6, <1>7, RestoredMemory DEF Up
<1>10. Typed'
  BY <1>8, <1>9, OpenTyped
<1>11. Untrimmed' /\ Up'
  BY <1>1, <1>9 DEF Untrimmed, Idle, Up
<1>12. ASSUME Durable PROVE Durable'
  <2>1. w = <<>>
    BY <1>1, <1>2, <1>12, NothingReadable DEF Durable, Up
  <2>2. s = FromHeap
    BY <1>5, <2>1, NothingReplayed
  <2>3. page' = Relinked(disk) /\ disk' = Grown(disk, Len(page'), "free")
    BY <1>6, <2>2 DEF FromHeap, Becomes
  <2> QED
    BY <1>1, <1>9, <1>10, <1>12, <2>3, CleanOpenDurable DEF Up
<1> QED
  BY <1>9, <1>10, <1>11, <1>12

LEMMA KillKeeps ==
  ASSUME Typed, Untrimmed, Memory, Durable, Kill
  PROVE  InRange(page, tips)' /\ Untrimmed' /\ Restorable'
<1>1. Dies /\ UNCHANGED <<disk, diskFree, safe, safeFree, wal, meta, kept>>
  BY DEF Kill, heap, fsynced, log
<1>2. /\ op'.at = "down" /\ page' = <<>> /\ free' = 0 /\ (\A c \in Chats : tips'[c] = NoTip)
      /\ next <= next' /\ (op.at = "logged" => next < next') /\ next' \in Nat
  BY <1>1, DiesIs, SlotsIs
<1>3. Untrimmed'
  BY <1>1, <1>2 DEF Untrimmed
<1>4. InRange(page, tips)'
  BY <1>2 DEF InRange, NoTip
<1>5. PICK P, w : P = page /\ w = wal
  OBVIOUS
<1>6. Owned(P)'
  <2>1. ASSUME NEW p \in DOMAIN page, NEW m \in ToSet(page[p].msgs)
        PROVE  /\ \A c \in Chats : m \in kept[c] => page[p].chat = c
               /\ m <= next' /\ m # next'
    <3>1. /\ \A c \in Chats : m \in kept[c] => page[p].chat = c
          /\ m <= next /\ (m = next => op.at = "logged")
      BY DEF Memory, Owned
    <3>2. page[p] \in Pages
      BY DEF Typed
    <3>3. m \in Messages
      BY <3>2, PageIs DEF ToSet
    <3>4. m \in Nat /\ next \in Nat
      BY <3>3, SlotsIs DEF Messages, Typed
    <3>5. m <= next' /\ m # next'
      BY <1>2, <3>1, <3>4
    <3> QED
      BY <3>1, <3>5
  <2> QED
    BY <1>1, <1>5, <2>1 DEF Owned
<1>7. Recoverable(page, wal) /\ AllChat(disk)
  BY DEF Durable
<1>8. Recoverable(P, w)'
  <2>1. Speaks(P, w) /\ Lags(disk, P) /\ Covered(disk, w, Len(w), Messages)
    BY <1>5, <1>7 DEF Recoverable
  <2>2. Covered(disk, w, Len(w), Messages)' /\ Lags(disk, P)'
    BY <1>1, <2>1 DEF Covered, InLog, Lags
  <2> QED
    BY <1>6, <2>1, <2>2 DEF Recoverable, Speaks
<1>9. Readable(w) = w
  <2>1. \A i \in DOMAIN w : w[i].type # "torn"
    BY <1>5, <1>7 DEF Recoverable, Speaks, About
  <2> QED
    BY <2>1, AllReadable
<1>10. P \in Seq(Pages)
  BY <1>5 DEF Typed
<1>11. Recoverable(P, Readable(wal))'
  BY <1>1, <1>5, <1>8, <1>9
<1> QED
  BY <1>1, <1>3, <1>4, <1>7, <1>10, <1>11 DEF Restorable, AllChat

LEMMA PowerLossKeeps ==
  ASSUME Typed, Untrimmed, Memory, Durable, PowerLoss
  PROVE  InRange(page, tips)' /\ Untrimmed' /\ Restorable'
<1>1. /\ Dies /\ UNCHANGED <<meta, stable>>
      /\ diskFree' \in {diskFree, safeFree} /\ safeFree' = diskFree'
      /\ kept' = [c \in Chats |-> kept[c] \cap stable]
  BY DEF PowerLoss
<1>2. /\ op'.at = "down" /\ page' = <<>> /\ free' = 0 /\ (\A c \in Chats : tips'[c] = NoTip)
      /\ next <= next' /\ (op.at = "logged" => next < next') /\ next' \in Nat
  BY <1>1, DiesIs, SlotsIs
<1>3. Untrimmed'
  BY <1>1, <1>2 DEF Untrimmed
<1>4. InRange(page, tips)'
  BY <1>2 DEF InRange, NoTip
<1>5. PICK P, D : P = page /\ D = disk'
  OBVIOUS
<1>6. /\ page \in Seq(Pages) /\ disk \in Seq(Pages) /\ safe \in Seq(Pages) /\ wal \in Seq(Records)
      /\ synced \in 0..Len(wal) /\ Len(wal) \in Nat
  BY DEF Typed
<1>7. Owned(P)'
  <2>1. ASSUME NEW p \in DOMAIN page, NEW m \in ToSet(page[p].msgs)
        PROVE  /\ \A c \in Chats : m \in kept'[c] => page[p].chat = c
               /\ m <= next' /\ m # next'
    <3>1. /\ \A c \in Chats : m \in kept[c] => page[p].chat = c
          /\ m <= next /\ (m = next => op.at = "logged")
      BY DEF Memory, Owned
    <3>2. page[p] \in Pages
      BY DEF Typed
    <3>3. m \in Messages
      BY <3>2, PageIs DEF ToSet
    <3>4. m \in Nat /\ next \in Nat
      BY <3>3, SlotsIs DEF Messages, Typed
    <3>5. m <= next' /\ m # next'
      BY <1>2, <3>1, <3>4
    <3> QED
      BY <1>1, <3>1, <3>5
  <2> QED
    BY <1>5, <2>1 DEF Owned
<1>8. /\ Images(page) /\ About(page, wal) /\ Ordered(wal) /\ Lags(disk, page) /\ Lags(safe, disk)
      /\ Covered(safe, wal, synced, stable) /\ AllChat(disk) /\ AllChat(safe)
  BY DEF Durable, Recoverable, Speaks
<1>9. PICK n \in synced..Len(wal) : \E u :
            /\ n \in 0..Len(wal) /\ u = SubSeq(wal, 1, n)
            /\ wal' = u \/ wal' = Append(u, Torn)
  BY LostLogIs
<1>10. PICK v : n \in 0..Len(wal) /\ v = SubSeq(wal, 1, n) /\ (wal' = v \/ wal' = Append(v, Torn))
  BY <1>9
<1>11. v \in Seq(Records) /\ Len(v) = n /\ DOMAIN v = 1..n /\ \A i \in 1..n : i \in DOMAIN wal /\ v[i] = wal[i]
  BY <1>6, <1>10, PrefixIs
<1>12. About(P, v) /\ Ordered(v)
  BY <1>5, <1>8, <1>11 DEF About, Ordered
<1>13. Readable(wal') = v
  <2>1. \A i \in DOMAIN v : v[i].type # "torn"
    BY <1>12 DEF About
  <2>2. Readable(v) = v /\ Readable(Append(v, Torn)) = v
    BY <1>11, <2>1, AllReadable, TornReadable
  <2> QED
    BY <1>10, <2>2
<1>14. /\ D \in Seq(Pages) /\ Len(safe) <= Len(D) /\ Len(D) <= Len(disk)
       /\ \A p \in DOMAIN D : \/ D[p] = disk[p]
                              \/ p <= Len(safe) /\ D[p] = safe[p]
                              \/ p > Len(safe) /\ D[p] = Blank("chat")
  <2>1. Len(safe) <= Len(disk)
    BY <1>8 DEF Lags
  <2> QED
    BY <1>5, <2>1, LostHeapIs
<1>15. /\ DOMAIN D = 1..Len(D) /\ DOMAIN disk = 1..Len(disk) /\ DOMAIN safe = 1..Len(safe)
       /\ Len(D) \in Nat /\ Len(disk) \in Nat /\ Len(safe) \in Nat /\ Len(page) \in Nat
  BY <1>6, <1>14
<1>16. Lags(safe, page)
  BY <1>6, <1>8, LagsTwice
<1>17. /\ Image(Blank("chat")) /\ Blank("chat").chat = None /\ Blank("chat").type = "chat"
       /\ ToSet(Blank("chat").msgs) = {}
  BY BlankIs DEF Blank, ToSet
<1>18. ASSUME NEW p \in DOMAIN D
       PROVE  /\ Older(D[p], P[p]) /\ D[p].type = "chat"
              /\ p \in DOMAIN safe => Older(safe[p], D[p])
  <2>1. p \in DOMAIN disk /\ (p <= Len(safe) => p \in DOMAIN safe) /\ (p \in DOMAIN safe => p <= Len(safe))
    BY <1>14, <1>15
  <2>2. CASE D[p] = disk[p]
    BY <1>5, <1>8, <2>1, <2>2 DEF Lags, AllChat
  <2>3. CASE p <= Len(safe) /\ D[p] = safe[p]
    <3>1. Older(safe[p], P[p]) /\ safe[p].type = "chat"
      BY <1>5, <1>8, <1>16, <2>1, <2>3 DEF Lags, AllChat
    <3> QED
      BY <2>3, <3>1 DEF Older
  <2>4. CASE p > Len(safe) /\ D[p] = Blank("chat")
    <3>1. p \notin DOMAIN safe
      BY <1>15, <2>1, <2>4
    <3> QED
      BY <1>17, <2>4, <3>1 DEF Older
  <2> QED
    BY <1>14, <2>2, <2>3, <2>4
<1>19. Lags(D, P)
  <2>1. Len(D) <= Len(P)
    BY <1>5, <1>8, <1>14, <1>15 DEF Lags
  <2> QED
    BY <1>18, <2>1 DEF Lags
<1>20. Lags(safe, D) /\ AllChat(D)
  <2>1. \A p \in DOMAIN safe : p \in DOMAIN D
    BY <1>14, <1>15
  <2> QED
    BY <1>14, <1>18, <2>1 DEF Lags, AllChat
<1>21. ASSUME NEW c \in Chats, NEW m \in kept'[c] PROVE OnPage(D, c, m) \/ InLog(v, Len(v), c, m)
  <2>1. m \in kept[c] \cap stable
    BY <1>1
  <2>2. OnPage(safe, c, m) \/ InLog(wal, synced, c, m)
    BY <1>8, <2>1 DEF Covered
  <2>3. OnPage(safe, c, m) => OnPage(D, c, m)
    BY <1>6, <1>14, <1>20, LagsCovers
  <2>4. InLog(wal, synced, c, m) => InLog(v, Len(v), c, m)
    <3>1. \A i \in 1..synced : i \in 1..Len(v) /\ v[i] = wal[i]
      BY <1>6, <1>9, <1>11
    <3> QED
      BY <3>1 DEF InLog
  <2> QED
    BY <2>2, <2>3, <2>4
<1>22. Recoverable(P, v)'
  <2>1. Covered(D, v, Len(v), Messages)'
    BY <1>1, <1>21 DEF Covered, InLog
  <2>2. Covered(disk, v, Len(v), Messages)' /\ Lags(disk, P)'
    BY <1>5, <1>19, <2>1
  <2>3. Speaks(P, v)
    BY <1>5, <1>8, <1>12 DEF Speaks
  <2> QED
    BY <1>7, <2>2, <2>3 DEF Recoverable, Speaks
<1>23. Recoverable(P, Readable(wal))'
  BY <1>13, <1>22
<1>24. \A p \in DOMAIN disk' : disk'[p].type # "free"
  BY <1>5, <1>20 DEF AllChat
<1>25. P \in Seq(Pages)
  BY <1>5, <1>6
<1> QED
  BY <1>3, <1>4, <1>23, <1>24, <1>25 DEF Restorable

----------------------------------------------------------------------------
(* Theorems.                                                                *)

LEMMA InitTyped ==
  ASSUME Init
  PROVE  Typed
<1>1. /\ page = <<>> /\ free = 0 /\ tips = [c \in Chats |-> NoTip]
      /\ disk = <<>> /\ diskFree = 0 /\ safe = <<>> /\ safeFree = 0
      /\ wal = <<>> /\ synced = 0 /\ appends = 0 /\ nextLsn = 1 /\ ckpt = 0
      /\ meta = [lsn |-> 1, ckpt |-> 0]
      /\ op = Idle /\ next = 1
      /\ kept = [c \in Chats |-> {}] /\ stable = {}
      /\ trims = 0 /\ ckpts = 0 /\ kills = 0 /\ losses = 0
  BY DEF Init
<1>2. op \in Calls /\ op.at = "idle"
  BY <1>1, CallsAre DEF Idle
<1>3. Len(<<>>) = 0 /\ DOMAIN <<>> = {}
  OBVIOUS
<1>4. page \in Seq(Pages) /\ disk \in Seq(Pages) /\ safe \in Seq(Pages) /\ wal \in Seq(Records)
  BY <1>1
<1>5. tips \in [Chats -> Tips]
  BY <1>1 DEF NoTip, Tips
<1>6. synced \in 0..Len(wal) /\ appends \in 0..(SyncEvery - 1) /\ next \in 1..(MaxMsgs + 1)
  BY <1>1, <1>3, SlotsIs
<1>7. meta \in [lsn : Nat, ckpt : Nat] /\ kept \in [Chats -> SUBSET Messages] /\ stable \subseteq Messages
  BY <1>1
<1> QED
  BY <1>1, <1>2, <1>4, <1>5, <1>6, <1>7 DEF Typed

LEMMA CrashInit == Init => CrashInv
<1> SUFFICES ASSUME Init PROVE CrashInv
  OBVIOUS
<1>1. /\ page = <<>> /\ free = 0 /\ tips = [c \in Chats |-> NoTip]
      /\ disk = <<>> /\ diskFree = 0 /\ safe = <<>> /\ safeFree = 0
      /\ wal = <<>> /\ synced = 0 /\ appends = 0 /\ nextLsn = 1 /\ ckpt = 0
      /\ meta = [lsn |-> 1, ckpt |-> 0]
      /\ op = Idle /\ next = 1
      /\ kept = [c \in Chats |-> {}] /\ stable = {}
      /\ trims = 0 /\ ckpts = 0 /\ kills = 0 /\ losses = 0
  BY DEF Init
<1>2. op \in Calls /\ op.at = "idle"
  BY <1>1, CallsAre DEF Idle
<1>3. Len(<<>>) = 0 /\ DOMAIN <<>> = {}
  OBVIOUS
<1>4. Typed
  BY InitTyped
<1>5. Untrimmed /\ InRange(page, tips)
  BY <1>1, <1>2, <1>3 DEF Untrimmed, InRange, NoTip
<1>6. Memory
  BY <1>1, <1>2, <1>3 DEF Memory, Images, Owned, NoTip
<1>7. Durable
  <2>1. \A a, w, n, all : Covered(a, w, n, all)
    BY <1>1 DEF Covered
  <2>2. Recoverable(page, wal)
    BY <1>1, <1>3, <1>6, <2>1 DEF Recoverable, Speaks, About, Ordered, Lags, Memory
  <2> QED
    BY <1>1, <1>2, <1>3, <2>1, <2>2 DEF Durable, Lags, AllChat, Up
<1> QED
  BY <1>1, <1>2, <1>4, <1>5, <1>6, <1>7 DEF CrashInv, Up, Counted

\* No count of trims or crashes is taken back.
LEMMA CountsGrow ==
  ASSUME Counted, [Next]_vars
  PROVE  Counted' /\ trims <= trims' /\ kills <= kills' /\ losses <= losses'
<1>1. CASE UNCHANGED counters
  BY <1>1 DEF counters, Counted
<1>2. CASE trims' = trims + 1 /\ UNCHANGED <<ckpts, kills, losses>>
  BY <1>2 DEF Counted
<1>3. CASE ckpts' = ckpts + 1 /\ UNCHANGED <<trims, kills, losses>>
  BY <1>3 DEF Counted
<1>4. CASE kills' = kills + 1 /\ UNCHANGED <<trims, ckpts, losses>>
  BY <1>4 DEF Counted
<1>5. CASE losses' = losses + 1 /\ UNCHANGED <<trims, ckpts, kills>>
  BY <1>5 DEF Counted
<1>6. \/ UNCHANGED counters
      \/ trims' = trims + 1 /\ UNCHANGED <<ckpts, kills, losses>>
      \/ ckpts' = ckpts + 1 /\ UNCHANGED <<trims, kills, losses>>
      \/ kills' = kills + 1 /\ UNCHANGED <<trims, ckpts, losses>>
      \/ losses' = losses + 1 /\ UNCHANGED <<trims, ckpts, kills>>
  <2>1. CASE \E c \in Chats : AppendMsg(c)
    BY <2>1 DEF AppendMsg
  <2>2. CASE \E c \in Chats : LogTrim(c)
    BY <2>2 DEF LogTrim
  <2>3. CASE LinkPage \/ Insert \/ LogInsert
    BY <2>3 DEF LinkPage, Insert, LogInsert
  <2>4. CASE FreeOld \/ RewriteKept
    BY <2>4 DEF FreeOld, RewriteKept
  <2>5. CASE \E p \in DOMAIN page : EvictPage(p)
    BY <2>5 DEF EvictPage
  <2>6. CASE EvictSuper
    BY <2>6 DEF EvictSuper
  <2>7. CASE \E then \in {"idle", "down"} : Checkpoint(then)
    BY <2>7 DEF Checkpoint
  <2>8. CASE PersistMeta \/ Rotate \/ Open
    BY <2>8 DEF PersistMeta, Rotate, Open
  <2>9. CASE Kill
    BY <2>9 DEF Kill
  <2>10. CASE PowerLoss
    BY <2>10 DEF PowerLoss
  <2>11. CASE UNCHANGED vars
    BY <2>11 DEF vars
  <2> QED
    BY <2>1, <2>2, <2>3, <2>4, <2>5, <2>6, <2>7, <2>8, <2>9, <2>10, <2>11 DEF Next
<1> QED
  BY <1>1, <1>2, <1>3, <1>4, <1>5, <1>6

LEMMA FewerCrashes ==
  ASSUME NEW a \in Nat, NEW b \in Nat, NEW d \in Nat, NEW e \in Nat, a <= d, b <= e, d + e <= 1
  PROVE  a + b <= 1
  OBVIOUS

\* What a step that leaves the process up preserves.
LEMMA StaysUp ==
  ASSUME Counted', Typed', Untrimmed', InRange(page, tips)', Memory', Up',
         kills' = kills, losses' = losses,
         kills + losses = 0 => Durable, Durable => Durable'
  PROVE  CrashInv'
  BY DEF CrashInv

LEMMA CrashStep == CrashInv /\ [Next]_vars => CrashInv'
<1> SUFFICES ASSUME CrashInv, [Next]_vars PROVE CrashInv'
  OBVIOUS
<1>1. Counted /\ Counted' /\ trims <= trims' /\ kills <= kills' /\ losses <= losses'
  BY CountsGrow DEF CrashInv
<1>2. CASE ~OneCrash'
  BY <1>1, <1>2 DEF CrashInv
<1>3. CASE OneCrash'
  <2>1. OneCrash /\ trims = 0 /\ trims' = 0
    <3>1. trims' = 0 /\ kills' + losses' <= 1
      BY <1>3 DEF OneCrash
    <3>2. /\ trims \in Nat /\ kills \in Nat /\ losses \in Nat /\ kills' \in Nat /\ losses' \in Nat
          /\ trims <= trims' /\ kills <= kills' /\ losses <= losses'
      BY <1>1 DEF Counted
    <3>3. kills + losses <= 1
      BY <3>1, <3>2, FewerCrashes
    <3>4. trims = 0
      BY <3>1, <3>2
    <3> QED
      BY <3>1, <3>3, <3>4 DEF OneCrash
  <2>2. Typed /\ Untrimmed /\ InRange(page, tips) /\ (Up => Memory) /\ (kills + losses = 0 => Durable) /\ (~Up => Restorable)
    BY <2>1 DEF CrashInv
  <2>3. free = 0 /\ op.at \notin {"free", "rewrite"}
    BY <2>2 DEF Untrimmed
  <2>4. ASSUME NEW c \in Chats, AppendMsg(c) PROVE CrashInv'
    <3>1. Up /\ op'.at \in {"insert", "link"} /\ kills' = kills /\ losses' = losses /\ safeFree' = safeFree
      BY <2>4 DEF AppendMsg, Up, Idle, counters, fsynced
    <3>2. Typed' /\ Memory' /\ InRange(page, tips)' /\ free' = 0 /\ diskFree' = diskFree /\ (Durable => Durable')
      BY <2>2, <2>3, <2>4, <3>1, AppendTyped, AppendKeeps
    <3> QED
      BY <1>1, <2>2, <2>3, <3>1, <3>2, UntrimmedStays, StaysUp DEF Up
  <2>5. ASSUME NEW c \in Chats, LogTrim(c) PROVE CrashInv'
    BY <2>1, <2>5 DEF LogTrim
  <2>6. CASE LinkPage
    <3>1. Up /\ op.at = "link" /\ op'.at = "insert" /\ kills' = kills /\ losses' = losses /\ safeFree' = safeFree
      BY <2>6 DEF LinkPage, Up, counters, fsynced
    <3>2. op.page \in DOMAIN page
      BY <2>2, <3>1 DEF Memory, PagesOf
    <3>3. Typed' /\ Memory' /\ InRange(page, tips)' /\ free' = free /\ diskFree' = diskFree /\ (Durable => Durable')
      BY <2>2, <2>6, <3>1, <3>2, LinkTyped, LinkPageKeeps
    <3> QED
      BY <1>1, <2>2, <3>1, <3>3, UntrimmedStays, StaysUp DEF Up
  <2>7. CASE Insert
    <3>1. Up /\ op'.at = "logged" /\ kills' = kills /\ losses' = losses /\ safeFree' = safeFree
      BY <2>7 DEF Insert, Up, counters, fsynced
    <3>2. Typed' /\ Memory' /\ InRange(page, tips)' /\ free' = free /\ diskFree' = diskFree /\ (Durable => Durable')
      BY <2>2, <2>7, <3>1, InsertTyped, InsertKeeps
    <3> QED
      BY <1>1, <2>2, <3>1, <3>2, UntrimmedStays, StaysUp DEF Up
  <2>8. CASE LogInsert
    <3>1. Up /\ op'.at = "idle" /\ kills' = kills /\ losses' = losses /\ safeFree' = safeFree
      BY <2>8 DEF LogInsert, Up, Idle, counters, fsynced
    <3>2. Typed' /\ Memory' /\ InRange(page, tips)' /\ free' = free /\ diskFree' = diskFree /\ (Durable => Durable')
      BY <2>2, <2>8, <3>1, LogInsertTyped, LogInsertKeeps
    <3> QED
      BY <1>1, <2>2, <3>1, <3>2, UntrimmedStays, StaysUp DEF Up
  <2>9. CASE FreeOld \/ RewriteKept
    BY <2>3, <2>9 DEF FreeOld, RewriteKept
  <2>10. ASSUME NEW p \in DOMAIN page, EvictPage(p) PROVE CrashInv'
    <3>1. Up /\ op' = op /\ kills' = kills /\ losses' = losses /\ safeFree' = safeFree
      BY <2>10 DEF EvictPage, Up, counters, fsynced
    <3>2. Typed' /\ Memory' /\ InRange(page, tips)' /\ free' = free /\ diskFree' = diskFree /\ (Durable => Durable')
      BY <2>2, <2>10, <3>1, EvictTyped, EvictKeeps
    <3> QED
      BY <1>1, <2>2, <2>3, <3>1, <3>2, UntrimmedStays, StaysUp DEF Up
  <2>11. CASE EvictSuper
    BY <2>2, <2>11 DEF EvictSuper, Untrimmed
  <2>12. ASSUME NEW then \in {"idle", "down"}, Checkpoint(then) PROVE CrashInv'
    <3>1. Up /\ op'.at = "meta" /\ kills' = kills /\ losses' = losses
      BY <2>12 DEF Checkpoint, Up, Idle
    <3>2. Typed' /\ Memory' /\ InRange(page, tips)' /\ Untrimmed' /\ (Durable => Durable')
      BY <2>2, <2>12, <3>1, CheckpointTyped, CheckpointKeeps
    <3> QED
      BY <1>1, <2>2, <3>1, <3>2, StaysUp DEF Up
  <2>13. CASE PersistMeta
    <3>1. Up /\ op'.at = "rotate" /\ kills' = kills /\ losses' = losses /\ safeFree' = safeFree
      <4>1. op \in [at : {"meta", "rotate"}, then : {"idle", "down"}]
        BY <2>2, <2>13 DEF PersistMeta, Typed, Calls
      <4> QED
        BY <2>13, <4>1 DEF PersistMeta, Up, counters, fsynced
    <3>2. Typed' /\ Memory' /\ InRange(page, tips)' /\ free' = free /\ diskFree' = diskFree /\ (Durable => Durable')
      BY <2>2, <2>13, <3>1, MetaTyped, MetaKeeps
    <3> QED
      BY <1>1, <2>2, <3>1, <3>2, UntrimmedStays, StaysUp DEF Up
  <2>14. CASE Rotate
    <3>1. Up /\ kills' = kills /\ losses' = losses
      BY <2>14 DEF Rotate, Up, counters
    <3>2. /\ Typed' /\ InRange(page, tips)' /\ Untrimmed' /\ (Up' => Memory') /\ (Durable => Durable')
          /\ ~Up' => Restorable'
      BY <2>2, <2>14, <3>1, RotateTyped, RotateKeeps
    <3> QED
      BY <1>1, <2>2, <3>1, <3>2 DEF CrashInv
  <2>15. CASE Open
    <3>1. ~Up /\ kills' = kills /\ losses' = losses
      BY <2>15 DEF Open, Up, counters
    <3>2. Typed' /\ Untrimmed' /\ Memory' /\ InRange(page, tips)' /\ Up' /\ (Durable => Durable')
      BY <2>2, <2>15, <3>1, OpenKeeps
    <3> QED
      BY <1>1, <2>2, <3>1, <3>2, StaysUp
  <2>16. CASE Kill
    <3>1. Up /\ kills' = kills + 1 /\ losses' = losses
      BY <2>16 DEF Kill, Dies, Up
    <3>2. kills = 0 /\ losses = 0
      BY <1>1, <1>3, <3>1 DEF OneCrash, Counted
    <3>3. Durable /\ Memory
      BY <2>2, <3>1, <3>2
    <3>4. Typed' /\ InRange(page, tips)' /\ Untrimmed' /\ Restorable'
      BY <2>2, <2>16, <3>3, KillTyped, KillKeeps
    <3>5. ~Up' /\ kills' + losses' # 0
      BY <2>16, <3>1, <3>2 DEF Kill, Dies, Up
    <3> QED
      BY <1>1, <3>4, <3>5 DEF CrashInv
  <2>17. CASE PowerLoss
    <3>1. Up /\ losses' = losses + 1 /\ kills' = kills
      BY <2>17 DEF PowerLoss, Dies, Up
    <3>2. kills = 0 /\ losses = 0
      BY <1>1, <1>3, <3>1 DEF OneCrash, Counted
    <3>3. Durable /\ Memory
      BY <2>2, <3>1, <3>2
    <3>4. Typed'
      BY <2>2, <2>17, <3>3, LossTyped DEF Durable, Lags
    <3>5. InRange(page, tips)' /\ Untrimmed' /\ Restorable'
      BY <2>2, <2>17, <3>3, PowerLossKeeps
    <3>6. ~Up' /\ kills' + losses' # 0
      BY <2>17, <3>1, <3>2 DEF PowerLoss, Dies, Up
    <3> QED
      BY <1>1, <3>4, <3>5, <3>6 DEF CrashInv
  <2>18. CASE UNCHANGED vars
    <3>1. /\ UNCHANGED <<page, free, tips, disk, diskFree, safe, safeFree, wal, synced, appends, nextLsn, ckpt>>
          /\ UNCHANGED <<meta, op, next, kept, stable, trims, ckpts, kills, losses>>
      BY <2>18 DEF vars, store, heap, fsynced, log, history, counters
    <3>2. Typed' /\ Untrimmed' /\ InRange(page, tips)' /\ (Up' <=> Up)
      BY <2>2, <3>1 DEF Typed, Untrimmed, InRange, Up
    <3>3. \A P, w : Recoverable(P, w) => Recoverable(P, w)'
      BY <3>1 DEF Recoverable, Speaks, Owned, Lags, Covered, InLog
    <3>4. Memory => Memory'
      BY <3>1 DEF Memory, Images, Owned, PagesOf, OnPage, IsFull
    <3>5. Restorable => Restorable'
      BY <3>1, <3>3 DEF Restorable
    <3>6. Durable => Durable'
      <4>1. Recoverable(page, wal) => Recoverable(page, wal)'
        BY <3>1 DEF Recoverable, Speaks, Images, About, Ordered, Owned, Lags, Covered, InLog, OnPage, PagesOf
      <4> QED
        BY <3>1, <4>1 DEF Durable, Lags, Covered, InLog, OnPage, PagesOf, AllChat, Up
    <3> QED
      BY <1>1, <2>2, <3>1, <3>2, <3>4, <3>5, <3>6 DEF CrashInv
  <2> QED
    BY <2>4, <2>5, <2>6, <2>7, <2>8, <2>9, <2>10, <2>11, <2>12, <2>13, <2>14, <2>15, <2>16, <2>17, <2>18 DEF Next
<1> QED
  BY <1>2, <1>3

\* What memory, heap and log hold of the chats' messages, in every behavior with no trim
\* and at most one crash: the invariant behind the next two theorems.
THEOREM CrashInvariant == Spec => []CrashInv
<1>1. Init => CrashInv
  BY CrashInit
<1>2. CrashInv /\ [Next]_vars => CrashInv'
  BY CrashStep
<1> QED
  BY <1>1, <1>2, PTL DEF Spec

\* In memory, what a chat kept is found in it.
LEMMA KeptIsFound ==
  ASSUME CrashInv, OneCrash, op = Idle
  PROVE  \A c \in Chats : kept[c] \subseteq Found(c)
<1>1. Memory
  BY DEF CrashInv, Up, Idle
<1> QED
  BY <1>1 DEF Memory, OnPage, Found

\* A kill at any step of any call, with any page evicted before it and any checkpoint
\* under way, loses no message that chatAppend had returned for.
THEOREM KillKeepsEveryAppend == Spec => []KillKeepsAppends
<1>1. CrashInv => KillKeepsAppends
  BY KeptIsFound DEF KillKeepsAppends
<1> QED
  BY <1>1, CrashInvariant, PTL

\* A power loss loses no message whose redo record was fsynced before it, whatever pages
\* and records the disk kept of the rest.
THEOREM SyncedMessagesSurvive == Spec => []SyncedSurvives
<1>1. CrashInv => SyncedSurvives
  BY KeptIsFound DEF SyncedSurvives
<1> QED
  BY <1>1, CrashInvariant, PTL

(* Lists of pages.                                                          *)

LEMMA ListStays ==
  ASSUME NEW a, NEW b, NEW h, NEW S, IsList(a, h, S), \A p \in S : b[p].next = a[p].next
  PROVE  IsList(b, h, S)
<1>1. PICK r \in [S -> Nat] : \A p \in S : a[p].next # 0 => r[p] < r[a[p].next]
  BY DEF IsList
<1>2. \A p \in S : b[p].next # 0 => r[p] < r[b[p].next]
  BY <1>1
<1>3. /\ IF S = {} THEN h = 0 ELSE h \in S
      /\ \A p \in S : b[p].next \in S \cup {0}
      /\ \A q \in S \ {h} : \E p \in S : b[p].next = q
  BY DEF IsList
<1> QED
  BY <1>2, <1>3 DEF IsList

\* The first page is taken off.
LEMMA ListPop ==
  ASSUME NEW a, NEW b, NEW S, S \subseteq Nat \ {0}, NEW h \in S, IsList(a, h, S),
         \A p \in S \ {h} : b[p].next = a[p].next
  PROVE  IsList(b, a[h].next, S \ {h})
<1> DEFINE k == a[h].next
           T == S \ {h}
<1>1. PICK r \in [S -> Nat] : \A p \in S : a[p].next # 0 => r[p] < r[a[p].next]
  BY DEF IsList
<1>2. /\ \A p \in S : a[p].next \in S \cup {0}
      /\ \A q \in S \ {h} : \E p \in S : a[p].next = q
  BY DEF IsList
<1>3. k # h /\ k \in T \cup {0}
  <2>1. k = h => r[h] < r[h] /\ r[h] \in Nat
    BY <1>1
  <2> QED
    BY <1>2, <2>1
<1>4. ASSUME T # {} PROVE k \in T
  <2>1. PICK q0 \in T : TRUE
    BY <1>4
  <2> DEFINE V == {r[q] : q \in T}
  <2>2. V \subseteq Nat /\ V # {}
    BY <2>1, <1>1
  <2>3. PICK v \in V : \A w \in V : v <= w
    <3> HIDE DEF V
    <3> QED
      BY <2>2, LeastNumber
  <2>4. PICK q \in T : v = r[q]
    BY <2>3
  <2>5. PICK p \in S : a[p].next = q
    BY <1>2, <2>4
  <2>6. r[p] < r[q] /\ r[p] \in Nat /\ r[q] \in Nat
    BY <1>1, <2>5, <2>4
  <2>7. p = h
    <3>1. p \in T => r[p] \in V
      OBVIOUS
    <3>2. p \in T => r[q] <= r[p]
      BY <2>3, <2>4, <3>1
    <3> QED
      BY <2>5, <2>6, <3>2
  <2> QED
    BY <2>5, <2>7, <2>4
<1>5. T = {} => k = 0
  BY <1>3
<1>6. \A p \in T : b[p].next \in T \cup {0}
  <2> SUFFICES ASSUME NEW p \in T PROVE a[p].next \in T \cup {0}
    OBVIOUS
  <2>1. a[p].next # h
    <3>1. ASSUME a[p].next = h PROVE FALSE
      \* Going back from h, some page of least rank would precede another.
      <4> DEFINE V == {r[q] : q \in S}
      <4>1. V \subseteq Nat /\ V # {}
        BY <1>1
      <4>2. PICK v \in V : \A w \in V : v <= w
        <5> HIDE DEF V
        <5> QED
          BY <4>1, LeastNumber
      <4>3. PICK q \in S : v = r[q]
        BY <4>2
      <4>4. PICK x \in S : a[x].next = q
        <5>1. CASE q = h
          BY <3>1, <5>1
        <5>2. CASE q # h
          BY <1>2, <4>3, <5>2
        <5> QED
          BY <5>1, <5>2
      <4>5. r[x] < r[q] /\ r[x] \in V /\ r[x] \in Nat /\ r[q] \in Nat
        BY <1>1, <4>3, <4>4
      <4> QED
        BY <4>2, <4>3, <4>5
    <3> QED
      BY <3>1
  <2> QED
    BY <1>2, <2>1
<1>7. \A q \in T \ {k} : \E p \in T : b[p].next = q
  <2> SUFFICES ASSUME NEW q \in T \ {k} PROVE \E p \in T : a[p].next = q
    OBVIOUS
  <2>1. PICK p \in S : a[p].next = q
    BY <1>2
  <2> QED
    BY <2>1
<1>8. PICK s : s = [p \in T |-> r[p]]
  OBVIOUS
<1>9. s \in [T -> Nat] /\ \A p \in T : b[p].next # 0 => s[p] < s[b[p].next]
  <2>1. \A p \in T : s[p] = r[p] /\ r[p] \in Nat
    BY <1>8
  <2>2. s \in [T -> Nat]
    BY <1>8, <2>1
  <2> QED
    BY <1>1, <1>6, <2>1, <2>2
<1> QED
  BY <1>4, <1>5, <1>6, <1>7, <1>9 DEF IsList

\* A page is put first.
LEMMA ListPush ==
  ASSUME NEW a, NEW b, NEW h, NEW S, S \subseteq Nat \ {0}, IsList(a, h, S), NEW p, p \in Nat \ {0}, p \notin S,
         b[p].next = h, \A q \in S : b[q].next = a[q].next
  PROVE  IsList(b, p, S \cup {p})
<1> DEFINE T == S \cup {p}
<1>1. PICK r \in [S -> Nat] : \A q \in S : a[q].next # 0 => r[q] < r[a[q].next]
  BY DEF IsList
<1>2. /\ IF S = {} THEN h = 0 ELSE h \in S
      /\ \A q \in S : a[q].next \in S \cup {0}
      /\ \A q \in S \ {h} : \E x \in S : a[x].next = q
  BY DEF IsList
<1>3. PICK s : s = [q \in T |-> IF q = p THEN 0 ELSE r[q] + 1]
  OBVIOUS
<1>4. /\ \A q \in S : r[q] \in Nat /\ s[q] = r[q] + 1
      /\ s[p] = 0 /\ s \in [T -> Nat]
  BY <1>1, <1>3
<1>5. \A q \in T : b[q].next # 0 => s[q] < s[b[q].next]
  <2>1. ASSUME NEW q \in S, b[q].next # 0 PROVE s[q] < s[b[q].next]
    <3>1. a[q].next \in S /\ r[q] < r[a[q].next] /\ b[q].next = a[q].next
      BY <1>1, <1>2, <2>1
    <3>2. s[q] = r[q] + 1 /\ s[a[q].next] = r[a[q].next] + 1 /\ r[q] \in Nat /\ r[a[q].next] \in Nat
      BY <1>4, <3>1
    <3> QED
      BY <3>1, <3>2
  <2>2. b[p].next # 0 => s[p] < s[b[p].next]
    <3>1. h # 0 => h \in S
      BY <1>2
    <3>2. h # 0 => s[h] = r[h] + 1 /\ r[h] \in Nat
      BY <1>4, <3>1
    <3> QED
      BY <1>4, <3>2
  <2> QED
    BY <2>1, <2>2
<1>6. \A q \in T : b[q].next \in T \cup {0}
  BY <1>2
<1>7. \A q \in T \ {p} : \E x \in T : b[x].next = q
  <2> SUFFICES ASSUME NEW q \in S PROVE \E x \in T : b[x].next = q
    OBVIOUS
  <2>1. CASE q = h
    BY <2>1
  <2>2. CASE q # h
    BY <1>2, <2>2
  <2> QED
    BY <2>1, <2>2
<1> QED
  BY <1>4, <1>5, <1>6, <1>7 DEF IsList

\* A page is linked behind the last one.
LEMMA ListAppend ==
  ASSUME NEW a, NEW b, NEW h, NEW S, S \subseteq Nat \ {0}, IsList(a, h, S), NEW t \in S, a[t].next = 0,
         NEW p, p \in Nat \ {0}, p \notin S,
         b[t].next = p, b[p].next = 0, \A q \in S : q # t => b[q].next = a[q].next
  PROVE  IsList(b, h, S \cup {p})
<1> DEFINE T == S \cup {p}
<1>1. PICK r \in [S -> Nat] : \A q \in S : a[q].next # 0 => r[q] < r[a[q].next]
  BY DEF IsList
<1>2. /\ h \in S
      /\ \A q \in S : a[q].next \in S \cup {0}
      /\ \A q \in S \ {h} : \E x \in S : a[x].next = q
  BY DEF IsList
<1>3. PICK s : s = [q \in T |-> IF q = p THEN r[t] + 1 ELSE r[q]]
  OBVIOUS
<1>4. /\ \A q \in S : r[q] \in Nat /\ s[q] = r[q]
      /\ s[p] = r[t] + 1 /\ s \in [T -> Nat]
  BY <1>1, <1>3
<1>5. \A q \in T : b[q].next # 0 => s[q] < s[b[q].next]
  <2>1. ASSUME NEW q \in S, q # t, b[q].next # 0 PROVE s[q] < s[b[q].next]
    <3>1. a[q].next \in S /\ r[q] < r[a[q].next] /\ b[q].next = a[q].next
      BY <1>1, <1>2, <2>1
    <3> QED
      BY <1>4, <3>1
  <2>2. s[t] < s[b[t].next]
    BY <1>4
  <2> QED
    BY <2>1, <2>2
<1>6. \A q \in T : b[q].next \in T \cup {0}
  BY <1>2
<1>7. \A q \in T \ {h} : \E x \in T : b[x].next = q
  <2>1. \A q \in S \ {h} : \E x \in S : x # t /\ a[x].next = q
    BY <1>2
  <2> QED
    BY <2>1
<1> QED
  BY <1>2, <1>4, <1>5, <1>6, <1>7 DEF IsList

LEMMA ListOne ==
  ASSUME NEW b, NEW p, b[p].next = 0
  PROVE  IsList(b, p, {p})
<1>1. PICK s : s = [q \in {p} |-> 0]
  OBVIOUS
<1>2. s \in [{p} -> Nat] /\ \A q \in {p} : b[q].next # 0 => s[q] < s[b[q].next]
  BY <1>1
<1> QED
  BY <1>2 DEF IsList

\* One step of PathFrom, and the function it defines, up to k.
Follow(pages, s) ==
    LET n == pages[Last(s)].next IN IF n = 0 \/ Contains(s, n) THEN s ELSE Append(s, n)
PathUpTo(pages, h, path, k) ==
    path = [n \in 0..k |-> IF n = 0 THEN <<h>> ELSE Follow(pages, path[n - 1])]

LEMMA PathExists ==
  ASSUME NEW pages, NEW h, NEW k \in Nat
  PROVE  \E path : PathUpTo(pages, h, path, k)
<1> DEFINE Without == {n \in Nat : ~ \E path : PathUpTo(pages, h, path, n)}
<1> SUFFICES ASSUME Without # {} PROVE FALSE
  OBVIOUS
<1>1. PICK n \in Without : \A i \in Without : n <= i
  BY LeastNumber
<1>2. n # 0
  <2>1. PathUpTo(pages, h, [i \in {0} |-> <<h>>], 0)
    BY DEF PathUpTo
  <2> QED
    BY <2>1
<1>3. PICK path : PathUpTo(pages, h, path, n - 1)
  BY <1>1, <1>2
<1> DEFINE more == [i \in 0..n |-> IF i < n THEN path[i] ELSE Follow(pages, path[i - 1])]
<1>4. PathUpTo(pages, h, more, n)
  <2>1. \A i \in 0..n : i < n => i \in 0..(n - 1) /\ (i # 0 => i - 1 \in 0..(n - 1))
    BY <1>1
  <2>2. \A i \in 0..(n - 1) : path[i] = IF i = 0 THEN <<h>> ELSE Follow(pages, path[i - 1])
    BY <1>3 DEF PathUpTo
  <2>3. \A i \in 0..n : more[i] = IF i = 0 THEN <<h>> ELSE Follow(pages, more[i - 1])
    BY <1>1, <1>2, <2>1, <2>2
  <2> QED
    BY <2>3 DEF PathUpTo
<1> QED
  BY <1>1, <1>4

LEMMA PathIs ==
  ASSUME NEW pages \in Seq(Pages), NEW h, h # 0
  PROVE  \E path : /\ path[0] = <<h>> /\ PathFrom(pages, h) = path[Len(pages)]
                   /\ \A n \in 1..Len(pages) : path[n] = Follow(pages, path[n - 1])
<1>1. Len(pages) \in Nat
  OBVIOUS
<1> DEFINE path == CHOOSE f : PathUpTo(pages, h, f, Len(pages))
<1>2. PathUpTo(pages, h, path, Len(pages))
  BY <1>1, PathExists
<1>3. PathFrom(pages, h) = path[Len(pages)]
  BY DEF PathFrom, PathUpTo, Follow
<1> HIDE DEF path
<1>4. path[0] = <<h>> /\ \A n \in 1..Len(pages) : path[n] = Follow(pages, path[n - 1])
  BY <1>1, <1>2 DEF PathUpTo
<1> QED
  BY <1>3, <1>4

\* A part of a list, from its first page on, in which no later page has a lower rank.
Prefix(pages, h, S, r, s) ==
    /\ s \in Seq(S) /\ Len(s) > 0 /\ s[1] = h /\ Distinct(s)
    /\ \A i \in 1..Len(s) : i < Len(s) => pages[s[i]].next = s[i + 1]
    /\ \A i \in 1..Len(s) : r[s[i]] <= r[s[Len(s)]]

LEMMA FollowIs ==
  ASSUME NEW pages, NEW h, NEW S, S \subseteq Nat \ {0}, NEW r \in [S -> Nat],
         \A p \in S : pages[p].next \in S \cup {0} /\ (pages[p].next # 0 => r[p] < r[pages[p].next]),
         NEW s, Prefix(pages, h, S, r, s)
  PROVE  /\ Prefix(pages, h, S, r, Follow(pages, s))
         /\ IF pages[s[Len(s)]].next = 0 THEN Follow(pages, s) = s ELSE Len(Follow(pages, s)) = Len(s) + 1
<1>1. /\ s \in Seq(S) /\ Len(s) \in Nat /\ Len(s) > 0 /\ s[1] = h /\ Distinct(s)
      /\ \A i \in 1..Len(s) : i < Len(s) => pages[s[i]].next = s[i + 1]
      /\ \A i \in 1..Len(s) : r[s[i]] <= r[s[Len(s)]]
      /\ DOMAIN s = 1..Len(s)
  BY DEF Prefix
<1>2. PICK t : t = s[Len(s)]
  OBVIOUS
<1>3. t \in S /\ Len(s) \in 1..Len(s)
  BY <1>1, <1>2
<1>4. CASE pages[t].next = 0
  <2>1. Follow(pages, s) = s
    BY <1>2, <1>4 DEF Follow, Last
  <2> QED
    BY <1>2, <1>4, <2>1
<1>5. CASE pages[t].next # 0
  <2>1. PICK n : n = pages[t].next
    OBVIOUS
  <2>2. n \in S /\ n # 0 /\ r[t] < r[n] /\ r[t] \in Nat /\ r[n] \in Nat
    BY <1>3, <1>5, <2>1
  <2>3. ASSUME NEW i \in 1..Len(s) PROVE s[i] \in S /\ r[s[i]] \in Nat /\ r[s[i]] < r[n]
    <3>1. s[i] \in S
      BY <1>1
    <3>2. r[s[i]] \in Nat
      BY <3>1
    <3>3. r[s[i]] <= r[t]
      BY <1>1, <1>2
    <3> QED
      BY <2>2, <3>1, <3>2, <3>3
  <2>4. \A i \in 1..Len(s) : s[i] # n
    BY <2>2, <2>3
  <2>5. n \notin ToSet(s) /\ ~Contains(s, n)
    BY <1>1, <2>4 DEF ToSet, Contains
  <2>6. Follow(pages, s) = Append(s, n)
    BY <1>2, <2>1, <2>2, <2>5 DEF Follow, Last
  <2>7. PICK u : u = Append(s, n)
    OBVIOUS
  <2>8. /\ u \in Seq(S) /\ Len(u) = Len(s) + 1 /\ \A i \in 1..Len(s) : u[i] = s[i]
        /\ u[Len(s) + 1] = n
    BY <1>1, <2>2, <2>7
  <2>9. Distinct(u)
    BY <1>1, <2>2, <2>5, <2>7, DistinctAppend
  <2>10. \A i \in 1..Len(u) : i < Len(u) => pages[u[i]].next = u[i + 1]
    <3> SUFFICES ASSUME NEW i \in 1..Len(u), i < Len(u) PROVE pages[u[i]].next = u[i + 1]
      OBVIOUS
    <3>1. i \in 1..Len(s) /\ u[i] = s[i]
      BY <1>1, <2>8
    <3>2. CASE i = Len(s)
      BY <1>2, <2>1, <2>8, <3>1, <3>2
    <3>3. CASE i # Len(s)
      <4>1. i < Len(s) /\ i + 1 \in 1..Len(s)
        BY <1>1, <3>1, <3>3
      <4> QED
        BY <1>1, <2>8, <3>1, <4>1
    <3> QED
      BY <3>2, <3>3
  <2>11. \A i \in 1..Len(u) : r[u[i]] <= r[u[Len(u)]]
    <3>1. \A i \in 1..Len(u) : i \in 1..Len(s) \/ i = Len(u)
      BY <1>1, <2>8
    <3>2. u[Len(u)] = n
      BY <2>8
    <3>3. \A i \in 1..Len(s) : r[u[i]] <= r[n]
      BY <2>2, <2>3, <2>8
    <3>4. r[u[Len(u)]] <= r[u[Len(u)]]
      BY <2>2, <3>2
    <3> QED
      BY <3>1, <3>2, <3>3, <3>4
  <2>12. u[1] = h /\ Len(u) > 0
    BY <1>1, <2>8
  <2>13. Prefix(pages, h, S, r, u)
    BY <2>8, <2>9, <2>10, <2>11, <2>12 DEF Prefix
  <2> QED
    BY <1>2, <1>5, <2>6, <2>7, <2>8, <2>13
<1> QED
  BY <1>4, <1>5

\* What PathFrom returns for a list: each of its pages, once.
LEMMA WalkIs ==
  ASSUME NEW pages \in Seq(Pages), NEW S, S \subseteq DOMAIN pages, NEW h, IsList(pages, h, S)
  PROVE  PathFrom(pages, h) \in Seq(S) /\ Distinct(PathFrom(pages, h)) /\ ToSet(PathFrom(pages, h)) = S
<1>1. DOMAIN pages = 1..Len(pages) /\ Len(pages) \in Nat /\ S \subseteq Nat \ {0}
  OBVIOUS
<1>2. CASE S = {}
  <2>1. h = 0
    BY <1>2 DEF IsList
  <2>2. PathFrom(pages, h) = <<>>
    BY <2>1 DEF PathFrom
  <2>3. <<>> \in Seq(S) /\ Distinct(<<>>) /\ ToSet(<<>>) = {}
    BY DEF Distinct, ToSet
  <2> QED
    BY <1>2, <2>2, <2>3
<1>3. CASE S # {}
  <2>1. h \in S /\ h # 0
    BY <1>1, <1>3 DEF IsList
  <2>2. PICK r \in [S -> Nat] : \A p \in S : pages[p].next # 0 => r[p] < r[pages[p].next]
    BY DEF IsList
  <2>3. /\ \A p \in S : pages[p].next \in S \cup {0}
        /\ \A q \in S \ {h} : \E p \in S : pages[p].next = q
    BY DEF IsList
  <2>4. \A p \in S : pages[p].next \in S \cup {0} /\ (pages[p].next # 0 => r[p] < r[pages[p].next])
    BY <2>2, <2>3
  <2>5. PICK path : /\ path[0] = <<h>> /\ PathFrom(pages, h) = path[Len(pages)]
                    /\ \A n \in 1..Len(pages) : path[n] = Follow(pages, path[n - 1])
    BY <2>1, PathIs
  <2> DEFINE Fine(n) == /\ Prefix(pages, h, S, r, path[n])
                        /\ pages[path[n][Len(path[n])]].next = 0 \/ Len(path[n]) = n + 1
             Bad == {n \in 0..Len(pages) : ~Fine(n)}
  <2>6. Bad = {}
    <3> SUFFICES ASSUME Bad # {} PROVE FALSE
      OBVIOUS
    <3>1. Bad \subseteq Nat
      BY <1>1
    <3>2. PICK n \in Bad : \A i \in Bad : n <= i
      <4> HIDE DEF Bad
      <4> QED
        BY <3>1, LeastNumber
    <3>3. CASE n = 0
      <4>1. PICK s : s = <<h>>
        OBVIOUS
      <4>2. s \in Seq(S) /\ Len(s) = 1 /\ s[1] = h /\ DOMAIN s = {1}
        BY <2>1, <4>1
      <4>3. Prefix(pages, h, S, r, s)
        <5>1. r[h] <= r[h]
          BY <2>1, <2>2
        <5>2. \A i \in 1..Len(s) : i = 1
          BY <4>2
        <5>3. Distinct(s)
          BY <4>2 DEF Distinct
        <5> QED
          BY <4>2, <5>1, <5>2, <5>3 DEF Prefix
      <4>4. path[0] = s
        BY <2>5, <4>1
      <4>5. Fine(0)
        BY <4>2, <4>3, <4>4
      <4> QED
        BY <3>2, <3>3, <4>5
    <3>4. CASE n # 0
      <4>1. n \in 1..Len(pages) /\ n - 1 \in 0..Len(pages) /\ ~(n <= n - 1) /\ n \in Nat
        BY <1>1, <3>2, <3>4
      <4>2. Fine(n - 1)
        BY <3>2, <4>1
      <4>3. PICK s : s = path[n - 1]
        OBVIOUS
      <4>4. Prefix(pages, h, S, r, s) /\ (pages[s[Len(s)]].next = 0 \/ Len(s) = n)
        BY <4>1, <4>2, <4>3
      <4>5. path[n] = Follow(pages, s)
        BY <2>5, <4>1, <4>3
      <4>6. /\ Prefix(pages, h, S, r, Follow(pages, s))
            /\ IF pages[s[Len(s)]].next = 0 THEN Follow(pages, s) = s ELSE Len(Follow(pages, s)) = Len(s) + 1
        BY <1>1, <2>4, <4>4, FollowIs
      <4>7. Fine(n)
        BY <4>4, <4>5, <4>6
      <4> QED
        BY <3>2, <4>7
    <3> QED
      BY <3>3, <3>4
  <2>7. PICK s : s = path[Len(pages)]
    OBVIOUS
  <2>8. Prefix(pages, h, S, r, s) /\ (pages[s[Len(s)]].next = 0 \/ Len(s) = Len(pages) + 1)
    <3>1. Len(pages) \in 0..Len(pages)
      BY <1>1
    <3>2. Fine(Len(pages))
      BY <2>6, <3>1
    <3> QED
      BY <2>7, <3>2
  <2>9. /\ s \in Seq(S) /\ Len(s) \in Nat /\ Len(s) > 0 /\ s[1] = h /\ Distinct(s)
        /\ DOMAIN s = 1..Len(s)
        /\ \A i \in 1..Len(s) : i < Len(s) => pages[s[i]].next = s[i + 1]
    BY <2>8 DEF Prefix
  <2>10. ToSet(s) \subseteq S
    BY <2>9 DEF ToSet
  <2>11. Len(s) <= Len(pages)
    <3>1. IsFiniteSet(ToSet(s)) /\ Cardinality(ToSet(s)) = Len(s)
      BY <2>9, DistinctLen
    <3>2. IsFiniteSet(1..Len(pages))
      BY <1>1, FS_Interval
    <3>3. Cardinality(1..Len(pages)) = Len(pages)
      BY <1>1, FS_Interval
    <3>4. ToSet(s) \subseteq 1..Len(pages)
      BY <1>1, <2>10
    <3>5. Cardinality(ToSet(s)) <= Cardinality(1..Len(pages))
      BY <3>2, <3>4, FS_Subset
    <3> QED
      BY <3>1, <3>3, <3>5
  <2>12. pages[s[Len(s)]].next = 0
    <3>1. Len(s) # Len(pages) + 1
      <4>1. Len(s) \in Nat /\ Len(pages) \in Nat /\ Len(s) <= Len(pages)
        BY <1>1, <2>9, <2>11
      <4> QED
        BY <4>1
    <3> QED
      BY <2>8, <3>1
  <2>13. S \subseteq ToSet(s)
    <3> SUFFICES ASSUME S \ ToSet(s) # {} PROVE FALSE
      OBVIOUS
    <3> DEFINE V == {r[q] : q \in S \ ToSet(s)}
    <3>1. V \subseteq Nat /\ V # {}
      BY <2>2
    <3>2. PICK v \in V : \A w \in V : v <= w
      <4> HIDE DEF V
      <4> QED
        BY <3>1, LeastNumber
    <3>3. PICK q \in S \ ToSet(s) : v = r[q]
      BY <3>2
    <3>4. q # h
      <4>1. 1 \in DOMAIN s
        BY <2>9
      <4>2. h \in ToSet(s)
        BY <2>9, <4>1 DEF ToSet
      <4> QED
        BY <3>3, <4>2
    <3>5. PICK p \in S : pages[p].next = q
      BY <2>3, <3>3, <3>4
    <3>6. r[p] < r[q] /\ r[p] \in Nat /\ r[q] \in Nat /\ q # 0
      BY <1>1, <2>2, <3>3, <3>5
    <3>7. p \in ToSet(s)
      <4>1. p \notin ToSet(s) => r[p] \in V
        OBVIOUS
      <4>2. p \notin ToSet(s) => r[q] <= r[p]
        BY <3>2, <3>3, <4>1
      <4> QED
        BY <3>6, <4>2
    <3>8. PICK i \in DOMAIN s : p = s[i]
      BY <3>7 DEF ToSet
    <3>9. i # Len(s)
      BY <2>12, <3>5, <3>6, <3>8
    <3>10. q = s[i + 1] /\ i + 1 \in DOMAIN s
      <4>0. Len(s) \in Nat /\ i \in 1..Len(s) /\ i # Len(s)
        BY <2>9, <3>9
      <4>1. i \in 1..Len(s) /\ i < Len(s) /\ i + 1 \in 1..Len(s)
        BY <4>0
      <4>2. pages[s[i]].next = s[i + 1]
        BY <2>9, <4>1
      <4> QED
        BY <2>9, <3>5, <3>8, <4>1, <4>2
    <3>11. q \in ToSet(s)
      BY <3>10 DEF ToSet
    <3> QED
      BY <3>3, <3>11
  <2> QED
    BY <2>5, <2>7, <2>9, <2>10, <2>13
<1> QED
  BY <1>2, <1>3

(* Pages, lists and messages together.                                      *)

LEMMA PagesAre ==
  ASSUME NEW a \in Seq(Pages)
  PROVE  /\ DOMAIN a = 1..Len(a) /\ Len(a) \in Nat /\ DOMAIN a \subseteq Nat \ {0}
         /\ FreePages(a) \subseteq DOMAIN a /\ FreePages(a) \subseteq Nat \ {0}
         /\ \A c : PagesOf(a, c) \subseteq DOMAIN a /\ PagesOf(a, c) \subseteq Nat \ {0}
         /\ \A c : PagesOf(a, c) \cap FreePages(a) = {}
         /\ \A p \in DOMAIN a : /\ a[p] \in Pages /\ a[p].type \in {"chat", "free"} /\ a[p].next \in Nat
                                /\ a[p].msgs \in Seq(Messages)
<1>1. DOMAIN a = 1..Len(a) /\ Len(a) \in Nat
  OBVIOUS
<1>2. FreePages(a) \subseteq DOMAIN a /\ \A c : PagesOf(a, c) \subseteq DOMAIN a
  BY DEF FreePages, PagesOf
<1>3. \A c : PagesOf(a, c) \cap FreePages(a) = {}
  BY DEF FreePages, PagesOf
<1>4. \A p \in DOMAIN a : a[p] \in Pages
  BY <1>1
<1>5. \A p \in DOMAIN a : a[p].type \in {"chat", "free"} /\ a[p].next \in Nat /\ a[p].msgs \in Seq(Messages)
  BY <1>4 DEF Pages
<1>6. DOMAIN a \subseteq Nat \ {0}
  BY <1>1
<1> QED
  BY <1>1, <1>2, <1>3, <1>4, <1>5, <1>6

\* The pages b carry the same labels and messages as a.
Alike(a, b) ==
    /\ Len(b) = Len(a)
    /\ \A p \in DOMAIN a : b[p].type = a[p].type /\ b[p].chat = a[p].chat /\ b[p].msgs = a[p].msgs

LEMMA AlikeIs ==
  ASSUME NEW a \in Seq(Pages), NEW b \in Seq(Pages), Alike(a, b)
  PROVE  /\ DOMAIN b = DOMAIN a
         /\ FreePages(b) = FreePages(a)
         /\ \A c : PagesOf(b, c) = PagesOf(a, c)
         /\ \A K : Holds(a, K) => Holds(b, K)
<1>1. DOMAIN b = DOMAIN a
  BY DEF Alike
<1>2. FreePages(b) = FreePages(a) /\ \A c : PagesOf(b, c) = PagesOf(a, c)
  BY <1>1 DEF FreePages, PagesOf, Alike
<1>3. \A p \in DOMAIN a : b[p].msgs = a[p].msgs
  BY DEF Alike
<1>4. \A c, m : OnPage(b, c, m) <=> OnPage(a, c, m)
  <2>1. \A c : PagesOf(a, c) \subseteq DOMAIN a
    BY DEF PagesOf
  <2> QED
    BY <1>2, <1>3, <2>1 DEF OnPage
<1>5. \A K : Holds(a, K) => Holds(b, K)
  BY <1>1, <1>3, <1>4 DEF Holds
<1> QED
  BY <1>1, <1>2, <1>5

LEMMA ChainStays ==
  ASSUME NEW a, NEW b, NEW tip, NEW new, NEW S, IsChain(a, tip, S), \A p \in S : b[p].next = a[p].next,
         new.head = tip.head, new.tail = tip.tail
  PROVE  IsChain(b, new, S)
<1>1. IsList(a, tip.head, S) /\ (IF S = {} THEN tip.tail = 0 ELSE tip.tail \in S /\ a[tip.tail].next = 0)
  BY DEF IsChain
<1>2. IsList(b, new.head, S)
  BY <1>1, ListStays
<1> QED
  BY <1>1, <1>2 DEF IsChain

\* A new page, from the free list or at the end, is on no list.
LEMMA AllocTidy ==
  ASSUME NEW s \in Stores, NEW c \in Chats, NEW ts, Tidy(s.page, s.free, ts, {}), NEW K, Holds(s.page, K),
         NEW u, u = AllocFor(s, c), NEW p, p = NewPage(s)
  PROVE  /\ s.free = 0 \/ s.free \in DOMAIN s.page
         /\ u \in Stores /\ u.tips = s.tips /\ Len(s.page) <= Len(u.page)
         /\ Tidy(u.page, u.free, ts, {p}) /\ Holds(u.page, K)
         /\ p \in PagesOf(u.page, c) /\ u.page[p].msgs = <<>>
<1>1. PICK a, f : a = s.page /\ f = s.free
  OBVIOUS
<1>2. a \in Seq(Pages) /\ f \in Nat
  BY <1>1 DEF Stores
<1>3. /\ DOMAIN a = 1..Len(a) /\ Len(a) \in Nat /\ DOMAIN a \subseteq Nat \ {0}
      /\ FreePages(a) \subseteq DOMAIN a /\ FreePages(a) \subseteq Nat \ {0}
      /\ \A d : PagesOf(a, d) \subseteq DOMAIN a /\ PagesOf(a, d) \cap FreePages(a) = {}
  BY <1>2, PagesAre
<1>4. /\ \A q \in DOMAIN a : IF a[q].type = "free" THEN a[q].msgs = <<>> ELSE a[q].chat \in Chats
      /\ IsList(a, f, FreePages(a))
      /\ \A d \in Chats : IsChain(a, ts[d], PagesOf(a, d))
  BY <1>1 DEF Tidy
<1>5. IF f = 0 THEN FreePages(a) = {} ELSE f \in FreePages(a)
  BY <1>3, <1>4 DEF IsList
<1>6. f = 0 \/ f \in DOMAIN a
  BY <1>3, <1>5
<1>7. PICK b, g : b = u.page /\ g = u.free
  OBVIOUS
<1>8. /\ u \in Stores /\ u.tips = s.tips
      /\ p \in Nat \ {0} /\ p \in DOMAIN b /\ Len(b) = IF f = 0 THEN Len(a) + 1 ELSE Len(a)
      /\ g = IF f = 0 THEN 0 ELSE a[f].next
      /\ DOMAIN a \subseteq DOMAIN b
      /\ b[p] = [type |-> "chat", chat |-> c, next |-> 0, msgs |-> <<>>]
      /\ \A q \in DOMAIN b : q # p => q \in DOMAIN a /\ b[q] = a[q]
  BY <1>1, <1>6, <1>7, AllocIs
<1>9. b \in Seq(Pages) /\ Len(a) <= Len(b)
  <2>1. b \in Seq(Pages)
    BY <1>7, <1>8 DEF Stores
  <2> QED
    BY <1>3, <1>8, <2>1
<1>10. IF f = 0 THEN p \notin DOMAIN a ELSE p = f
  BY <1>1, <1>3 DEF NewPage
<1>11. \A d : p \notin PagesOf(a, d)
  BY <1>3, <1>5, <1>10
<1>12. b[p].type = "chat" /\ b[p].chat = c /\ b[p].next = 0 /\ b[p].msgs = <<>>
  BY <1>8
<1>13. FreePages(b) = FreePages(a) \ {p}
  <2>1. \A q : q \in FreePages(b) <=> q \in FreePages(a) /\ q # p
    BY <1>8, <1>12 DEF FreePages
  <2> QED
    BY <2>1
<1>14. \A d : PagesOf(b, d) \ {p} = PagesOf(a, d)
  <2>1. \A d, q : q \in PagesOf(b, d) /\ q # p <=> q \in PagesOf(a, d)
    BY <1>8, <1>11 DEF PagesOf
  <2> QED
    BY <2>1
<1>15. IsList(b, g, FreePages(b))
  <2>1. \A q \in FreePages(a) \ {p} : b[q].next = a[q].next
    BY <1>3, <1>8
  <2>2. CASE f = 0
    <3>1. FreePages(b) = FreePages(a) /\ g = f
      BY <1>5, <1>8, <1>13, <2>2
    <3>2. \A q \in FreePages(a) : b[q].next = a[q].next
      BY <1>5, <2>2
    <3> QED
      BY <1>4, <3>1, <3>2, ListStays
  <2>3. CASE f # 0
    <3>1. f \in FreePages(a) /\ p = f /\ g = a[f].next
      BY <1>5, <1>8, <1>10, <2>3
    <3>2. IsList(b, a[f].next, FreePages(a) \ {f})
      BY <1>3, <1>4, <2>1, <3>1, ListPop
    <3> QED
      BY <1>13, <3>1, <3>2
  <2> QED
    BY <2>2, <2>3
<1>16. \A d \in Chats : IsChain(b, ts[d], PagesOf(b, d) \ {p})
  <2> SUFFICES ASSUME NEW d \in Chats PROVE IsChain(b, ts[d], PagesOf(a, d))
    BY <1>14
  <2>1. \A q \in PagesOf(a, d) : b[q].next = a[q].next
    BY <1>3, <1>8, <1>11
  <2> QED
    BY <1>4, <2>1, ChainStays
<1>17. \A q \in DOMAIN b : IF b[q].type = "free" THEN b[q].msgs = <<>> ELSE b[q].chat \in Chats
  BY <1>4, <1>8, <1>12
<1>18. Tidy(b, g, ts, {p})
  BY <1>8, <1>12, <1>15, <1>16, <1>17 DEF Tidy
<1>19. Holds(b, K)
  <2>1. /\ \A q \in DOMAIN a : Distinct(a[q].msgs)
        /\ \A q, r \in DOMAIN a : q = r \/ ToSet(a[q].msgs) \cap ToSet(a[r].msgs) = {}
        /\ \A d \in Chats : \A m \in Messages : m \in K[d] <=> OnPage(a, d, m)
    BY <1>1 DEF Holds
  <2>2. Distinct(b[p].msgs) /\ ToSet(b[p].msgs) = {}
    BY <1>12 DEF Distinct, ToSet
  <2>3. \A q \in DOMAIN b : Distinct(b[q].msgs)
    BY <1>8, <2>1, <2>2
  <2>4. \A q, r \in DOMAIN b : q = r \/ ToSet(b[q].msgs) \cap ToSet(b[r].msgs) = {}
    BY <1>8, <2>1, <2>2
  <2>5. \A d \in Chats : \A m \in Messages : OnPage(b, d, m) <=> OnPage(a, d, m)
    <3> SUFFICES ASSUME NEW d \in Chats, NEW m \in Messages PROVE OnPage(b, d, m) <=> OnPage(a, d, m)
      OBVIOUS
    <3>1. \A q \in PagesOf(a, d) : q \in PagesOf(b, d) /\ b[q] = a[q]
      BY <1>3, <1>8, <1>11, <1>14
    <3>2. \A q \in PagesOf(b, d) : q = p \/ q \in PagesOf(a, d)
      BY <1>14
    <3> QED
      BY <2>2, <3>1, <3>2 DEF OnPage
  <2> QED
    BY <2>1, <2>3, <2>4, <2>5 DEF Holds
<1>20. p \in PagesOf(b, c)
  BY <1>8, <1>12 DEF PagesOf
<1> QED
  BY <1>1, <1>6, <1>7, <1>8, <1>9, <1>12, <1>18, <1>19, <1>20

\* The page p is put behind the page t, if there is one.
LinkedTo(a, t, p, b) == \A q \in DOMAIN a : b[q].next = IF q = t THEN p ELSE a[q].next
\* The tips after that.
Moved(ts, c, p, us) ==
    /\ \A d \in Chats : d # c => us[d].head = ts[d].head /\ us[d].tail = ts[d].tail
    /\ us[c].head = (IF ts[c].head = 0 THEN p ELSE ts[c].head) /\ us[c].tail = p

\* A chat's new page is linked behind its last one, or is its first.
LEMMA LinkTidy ==
  ASSUME NEW a \in Seq(Pages), NEW f, NEW ts, NEW p, Tidy(a, f, ts, {p}), NEW c \in Chats, p \in PagesOf(a, c),
         NEW b \in Seq(Pages), Alike(a, b), LinkedTo(a, ts[c].tail, p, b), NEW us, Moved(ts, c, p, us)
  PROVE  Tidy(b, f, us, {})
<1>0. /\ \A q \in DOMAIN a : b[q].next = IF q = ts[c].tail THEN p ELSE a[q].next
      /\ \A d \in Chats : d # c => us[d].head = ts[d].head /\ us[d].tail = ts[d].tail
      /\ us[c].head = (IF ts[c].head = 0 THEN p ELSE ts[c].head) /\ us[c].tail = p
  BY DEF LinkedTo, Moved
<1>1. /\ DOMAIN a = 1..Len(a) /\ Len(a) \in Nat /\ DOMAIN a \subseteq Nat \ {0}
      /\ FreePages(a) \subseteq DOMAIN a /\ FreePages(a) \subseteq Nat \ {0}
      /\ \A d : PagesOf(a, d) \subseteq DOMAIN a /\ PagesOf(a, d) \subseteq Nat \ {0}
      /\ \A d : PagesOf(a, d) \cap FreePages(a) = {}
  BY PagesAre
<1>2. /\ DOMAIN b = DOMAIN a /\ FreePages(b) = FreePages(a) /\ \A d : PagesOf(b, d) = PagesOf(a, d)
  BY AlikeIs
<1>3. /\ \A q \in DOMAIN a : IF a[q].type = "free" THEN a[q].msgs = <<>> ELSE a[q].chat \in Chats
      /\ p \in DOMAIN a /\ a[p].type = "chat" /\ a[p].next = 0
      /\ IsList(a, f, FreePages(a))
      /\ \A d \in Chats : IsChain(a, ts[d], PagesOf(a, d) \ {p})
  BY DEF Tidy
<1>4. PICK t, S : t = ts[c].tail /\ S = PagesOf(a, c) \ {p}
  OBVIOUS
<1>5. /\ IsList(a, ts[c].head, S)
      /\ IF S = {} THEN t = 0 ELSE t \in S /\ a[t].next = 0
  BY <1>3, <1>4 DEF IsChain
<1>6. S \subseteq Nat \ {0} /\ S \subseteq DOMAIN a /\ p \notin S /\ p \in Nat \ {0} /\ t # p
  BY <1>1, <1>3, <1>4, <1>5
<1>7. \A q \in DOMAIN a : q \notin PagesOf(a, c) => b[q].next = a[q].next
  BY <1>0, <1>1, <1>4, <1>5
<1>8. b[p].next = 0
  BY <1>0, <1>3, <1>4, <1>6
<1>9. IsList(b, f, FreePages(b))
  <2>1. \A q \in FreePages(a) : b[q].next = a[q].next
    BY <1>1, <1>7
  <2> QED
    BY <1>2, <1>3, <2>1, ListStays
<1>10. \A d \in Chats : d # c => IsChain(b, us[d], PagesOf(b, d))
  <2> SUFFICES ASSUME NEW d \in Chats, d # c PROVE IsChain(b, us[d], PagesOf(a, d))
    BY <1>2
  <2>1. PagesOf(a, d) \cap PagesOf(a, c) = {}
    BY DEF PagesOf
  <2>2. PagesOf(a, d) \ {p} = PagesOf(a, d)
    BY <2>1
  <2>3. \A q \in PagesOf(a, d) : b[q].next = a[q].next
    BY <1>1, <1>7, <2>1
  <2>4. us[d].head = ts[d].head /\ us[d].tail = ts[d].tail
    BY <1>0
  <2>5. IsChain(a, ts[d], PagesOf(a, d))
    BY <1>3, <2>2
  <2> QED
    BY <2>3, <2>4, <2>5, ChainStays
<1>11. IsChain(b, us[c], PagesOf(b, c))
  <2>1. PagesOf(b, c) = S \cup {p}
    BY <1>2, <1>4
  <2>2. CASE S = {}
    <3>1. ts[c].head = 0
      BY <1>5, <2>2 DEF IsList
    <3>2. us[c].head = p /\ us[c].tail = p
      BY <1>0, <3>1
    <3>3. IsList(b, p, {p})
      BY <1>8, ListOne
    <3> QED
      BY <1>8, <2>1, <2>2, <3>2, <3>3 DEF IsChain
  <2>3. CASE S # {}
    <3>1. ts[c].head \in S
      BY <1>5, <2>3 DEF IsList
    <3>2. us[c].head = ts[c].head /\ us[c].tail = p
      BY <1>0, <1>6, <3>1
    <3>3. t \in S /\ a[t].next = 0 /\ b[t].next = p
      BY <1>0, <1>4, <1>5, <1>6, <2>3
    <3>4. \A q \in S : q # t => b[q].next = a[q].next
      BY <1>0, <1>4, <1>6
    <3>5. IsList(b, ts[c].head, S \cup {p})
      <4>1. PICK h : h = ts[c].head
        OBVIOUS
      <4>2. IsList(a, h, S) /\ S \subseteq Nat \ {0} /\ p \in Nat \ {0} /\ p \notin S
        BY <1>5, <1>6, <4>1
      <4>3. a[t].next = 0 /\ t \in S /\ b[t].next = p /\ b[p].next = 0
        BY <1>8, <3>3
      <4>4. IsList(b, h, S \cup {p})
        BY ONLY <3>4, <4>2, <4>3, ListAppend
      <4> QED
        BY <4>1, <4>4
    <3> QED
      BY <1>8, <2>1, <3>2, <3>5 DEF IsChain
  <2> QED
    BY <2>2, <2>3
<1>12. \A d \in Chats : IsChain(b, us[d], PagesOf(b, d) \ {})
  BY <1>10, <1>11
<1>13. \A q \in DOMAIN b : IF b[q].type = "free" THEN b[q].msgs = <<>> ELSE b[q].chat \in Chats
  BY <1>2, <1>3 DEF Alike
<1> QED
  BY <1>9, <1>12, <1>13 DEF Tidy

\* A new message is put on a page of its chat.
LEMMA AddTidy ==
  ASSUME NEW a \in Seq(Pages), NEW f, NEW ts, NEW X, Tidy(a, f, ts, X), NEW K, Holds(a, K),
         NEW c \in Chats, NEW t \in PagesOf(a, c), NEW m \in Messages, \A q \in DOMAIN a : m \notin ToSet(a[q].msgs),
         NEW b \in Seq(Pages), Len(b) = Len(a),
         \A q \in DOMAIN a : b[q].type = a[q].type /\ b[q].chat = a[q].chat /\ b[q].next = a[q].next,
         \A q \in DOMAIN a : b[q].msgs = IF q = t THEN Append(a[q].msgs, m) ELSE a[q].msgs,
         NEW L, L[c] = K[c] \cup {m}, \A d \in Chats : d # c => L[d] = K[d]
  PROVE  Tidy(b, f, ts, X) /\ Holds(b, L)
<1>1. /\ DOMAIN a = 1..Len(a) /\ FreePages(a) \subseteq DOMAIN a
      /\ \A d : PagesOf(a, d) \subseteq DOMAIN a /\ PagesOf(a, d) \cap FreePages(a) = {}
      /\ \A q \in DOMAIN a : a[q].msgs \in Seq(Messages)
  BY PagesAre
<1>2. DOMAIN b = DOMAIN a
  OBVIOUS
<1>3. FreePages(b) = FreePages(a) /\ \A d : PagesOf(b, d) = PagesOf(a, d)
  BY <1>2 DEF FreePages, PagesOf
<1>4. /\ \A q \in DOMAIN a : IF a[q].type = "free" THEN a[q].msgs = <<>> ELSE a[q].chat \in Chats
      /\ \A p \in X : p \in DOMAIN a /\ a[p].type = "chat" /\ a[p].next = 0
      /\ IsList(a, f, FreePages(a))
      /\ \A d \in Chats : IsChain(a, ts[d], PagesOf(a, d) \ X)
  BY DEF Tidy
<1>5. t \in DOMAIN a /\ a[t].type = "chat" /\ a[t].chat = c
  BY DEF PagesOf
<1>6. Tidy(b, f, ts, X)
  <2>1. IsList(b, f, FreePages(b))
    BY <1>1, <1>3, <1>4, ListStays
  <2>2. \A d \in Chats : IsChain(b, ts[d], PagesOf(b, d) \ X)
    <3> SUFFICES ASSUME NEW d \in Chats PROVE IsChain(b, ts[d], PagesOf(a, d) \ X)
      BY <1>3
    <3>1. \A q \in PagesOf(a, d) \ X : b[q].next = a[q].next
      BY <1>1
    <3> QED
      BY <1>4, <3>1, ChainStays
  <2>3. \A q \in DOMAIN b : IF b[q].type = "free" THEN b[q].msgs = <<>> ELSE b[q].chat \in Chats
    BY <1>2, <1>4, <1>5
  <2>4. \A p \in X : p \in DOMAIN b /\ b[p].type = "chat" /\ b[p].next = 0
    BY <1>2, <1>4
  <2> QED
    BY <2>1, <2>2, <2>3, <2>4 DEF Tidy
<1>7. /\ \A q \in DOMAIN a : Distinct(a[q].msgs)
      /\ \A q, r \in DOMAIN a : q = r \/ ToSet(a[q].msgs) \cap ToSet(a[r].msgs) = {}
      /\ \A d \in Chats : \A x \in Messages : x \in K[d] <=> OnPage(a, d, x)
  BY DEF Holds
<1>8. b[t].msgs = Append(a[t].msgs, m) /\ a[t].msgs \in Seq(Messages) /\ Distinct(a[t].msgs) /\ m \notin ToSet(a[t].msgs)
  BY <1>1, <1>5, <1>7
<1>9. ToSet(b[t].msgs) = ToSet(a[t].msgs) \cup {m} /\ Distinct(b[t].msgs)
  BY <1>8, AppendIs, DistinctAppend
<1>10. \A q \in DOMAIN a : q # t => b[q].msgs = a[q].msgs
  OBVIOUS
<1>11. \A q \in DOMAIN b : Distinct(b[q].msgs)
  BY <1>2, <1>7, <1>9, <1>10
<1>12. \A q, r \in DOMAIN b : q = r \/ ToSet(b[q].msgs) \cap ToSet(b[r].msgs) = {}
  <2> SUFFICES ASSUME NEW q \in DOMAIN a, NEW r \in DOMAIN a, q # r
               PROVE  ToSet(b[q].msgs) \cap ToSet(b[r].msgs) = {}
    BY <1>2
  <2>1. /\ ToSet(a[q].msgs) \cap ToSet(a[r].msgs) = {} /\ m \notin ToSet(a[q].msgs) /\ m \notin ToSet(a[r].msgs)
    BY <1>7
  <2>2. /\ ToSet(b[q].msgs) = IF q = t THEN ToSet(a[q].msgs) \cup {m} ELSE ToSet(a[q].msgs)
        /\ ToSet(b[r].msgs) = IF r = t THEN ToSet(a[r].msgs) \cup {m} ELSE ToSet(a[r].msgs)
    BY <1>9, <1>10
  <2> QED
    BY <2>1, <2>2
<1>13. \A d \in Chats : \A x \in Messages : x \in L[d] <=> OnPage(b, d, x)
  <2> SUFFICES ASSUME NEW d \in Chats, NEW x \in Messages PROVE x \in L[d] <=> OnPage(b, d, x)
    OBVIOUS
  <2>1. \A q \in PagesOf(a, d) : q # t => b[q].msgs = a[q].msgs
    BY <1>1, <1>10
  <2>2. CASE d = c
    <3>1. x \in L[d] <=> x \in K[d] \/ x = m
      BY <2>2
    <3>2. OnPage(b, d, x) <=> OnPage(a, d, x) \/ x = m
      BY <1>3, <1>9, <2>1, <2>2 DEF OnPage
    <3> QED
      BY <1>7, <3>1, <3>2
  <2>3. CASE d # c
    <3>1. t \notin PagesOf(a, d)
      BY <1>5, <2>3 DEF PagesOf
    <3>2. OnPage(b, d, x) <=> OnPage(a, d, x)
      BY <1>3, <2>1, <3>1 DEF OnPage
    <3> QED
      BY <1>7, <2>3, <3>2
  <2> QED
    BY <2>2, <2>3
<1> QED
  BY <1>6, <1>11, <1>12, <1>13 DEF Holds

(* The messages on a chain.                                                 *)

Joined(s, t, u) ==
    /\ \A m : m \in ToSet(u) <=> m \in ToSet(s) \/ m \in ToSet(t)
    /\ Distinct(s) /\ Distinct(t) /\ ToSet(s) \cap ToSet(t) = {} => Distinct(u)

LEMMA ConcatIs ==
  ASSUME NEW S, NEW s \in Seq(S), NEW t \in Seq(S), NEW u, u = s \o t
  PROVE  u \in Seq(S) /\ Joined(s, t, u)
<1>1. /\ Len(s) \in Nat /\ Len(t) \in Nat /\ DOMAIN s = 1..Len(s) /\ DOMAIN t = 1..Len(t)
      /\ u \in Seq(S) /\ Len(u) = Len(s) + Len(t) /\ DOMAIN u = 1..(Len(s) + Len(t))
  OBVIOUS
<1>2. \A i \in 1..Len(s) : u[i] = s[i] /\ i \in DOMAIN u
  BY <1>1
<1>3. \A j \in 1..Len(t) : u[Len(s) + j] = t[j] /\ Len(s) + j \in DOMAIN u
  BY <1>1
<1>4. ASSUME NEW i \in DOMAIN u
      PROVE  \/ i \in 1..Len(s) /\ u[i] = s[i]
             \/ i - Len(s) \in 1..Len(t) /\ u[i] = t[i - Len(s)]
  <2>1. i \in 1..Len(s) \/ (i - Len(s) \in 1..Len(t) /\ i = Len(s) + (i - Len(s)))
    BY <1>1
  <2> QED
    BY <1>2, <1>3, <2>1
<1>5. ToSet(u) = ToSet(s) \cup ToSet(t)
  <2>1. ToSet(u) \subseteq ToSet(s) \cup ToSet(t)
    BY <1>1, <1>4 DEF ToSet
  <2>2. ToSet(s) \subseteq ToSet(u)
    BY <1>1, <1>2 DEF ToSet
  <2>3. ASSUME NEW y \in ToSet(t) PROVE y \in ToSet(u)
    <3>1. PICK j \in 1..Len(t) : t[j] = y
      BY <1>1 DEF ToSet
    <3>2. Len(s) + j \in DOMAIN u /\ u[Len(s) + j] = y
      BY <1>3, <3>1
    <3> QED
      BY <3>2 DEF ToSet
  <2> QED
    BY <2>1, <2>2, <2>3
<1>6. ASSUME Distinct(s), Distinct(t), ToSet(s) \cap ToSet(t) = {} PROVE Distinct(u)
  <2> SUFFICES ASSUME NEW i \in DOMAIN u, NEW j \in DOMAIN u, u[i] = u[j] PROVE i = j
    BY DEF Distinct
  <2>1. \A x \in 1..Len(s), y \in 1..Len(t) : s[x] # t[y]
    BY <1>1, <1>6 DEF ToSet
  <2>2. \A x, y \in 1..Len(s) : s[x] = s[y] => x = y
    BY <1>1, <1>6 DEF Distinct
  <2>3. \A x, y \in 1..Len(t) : t[x] = t[y] => x = y
    BY <1>1, <1>6 DEF Distinct
  <2>4. CASE i \in 1..Len(s) /\ u[i] = s[i]
    <3>1. j \in 1..Len(s) /\ u[j] = s[j]
      BY <1>4, <2>1, <2>4
    <3> QED
      BY <2>2, <2>4, <3>1
  <2>5. CASE i - Len(s) \in 1..Len(t) /\ u[i] = t[i - Len(s)]
    <3>1. j - Len(s) \in 1..Len(t) /\ u[j] = t[j - Len(s)]
      BY <1>4, <2>1, <2>5
    <3>2. i - Len(s) = j - Len(s)
      BY <2>3, <2>5, <3>1
    <3>3. i \in Int /\ j \in Int
      BY <1>1
    <3> QED
      BY <1>1, <3>2, <3>3
  <2> QED
    BY <1>4, <2>4, <2>5
<1>7. \A m : m \in ToSet(u) <=> m \in ToSet(s) \/ m \in ToSet(t)
  BY <1>5
<1> QED
  BY <1>1, <1>6, <1>7 DEF Joined

\* The function that FlattenSeq defines, up to k.
FlatUpTo(ss, flat, k) == flat = [i \in 1..k |-> IF i = 1 THEN ss[i] ELSE flat[i - 1] \o ss[i]]

LEMMA FlatExists ==
  ASSUME NEW ss, NEW k \in Nat
  PROVE  \E flat : FlatUpTo(ss, flat, k)
<1> DEFINE Without == {n \in Nat : ~ \E flat : FlatUpTo(ss, flat, n)}
<1> SUFFICES ASSUME Without # {} PROVE FALSE
  OBVIOUS
<1>1. PICK n \in Without : \A i \in Without : n <= i
  BY LeastNumber
<1>2. n # 0
  <2>1. FlatUpTo(ss, [i \in {} |-> ss], 0)
    <3>1. 1..0 = {}
      OBVIOUS
    <3> QED
      BY <3>1 DEF FlatUpTo
  <2> QED
    BY <2>1
<1>3. PICK flat : FlatUpTo(ss, flat, n - 1)
  BY <1>1, <1>2
<1> DEFINE more == [i \in 1..n |-> IF i < n THEN flat[i] ELSE IF i = 1 THEN ss[i] ELSE flat[i - 1] \o ss[i]]
<1>4. FlatUpTo(ss, more, n)
  <2>1. \A i \in 1..n : (i < n => i \in 1..(n - 1)) /\ (i # 1 => i - 1 \in 1..n /\ i - 1 < n)
    BY <1>1
  <2>2. \A i \in 1..(n - 1) : flat[i] = IF i = 1 THEN ss[i] ELSE flat[i - 1] \o ss[i]
    BY <1>3 DEF FlatUpTo
  <2>3. \A i \in 1..n : more[i] = IF i = 1 THEN ss[i] ELSE more[i - 1] \o ss[i]
    BY <1>1, <1>2, <2>1, <2>2
  <2> QED
    BY <2>3 DEF FlatUpTo
<1> QED
  BY <1>1, <1>4

LEMMA FlattenIs ==
  ASSUME NEW S, NEW ss \in Seq(Seq(S)), \A i \in DOMAIN ss : Distinct(ss[i]),
         \A i, j \in DOMAIN ss : i = j \/ ToSet(ss[i]) \cap ToSet(ss[j]) = {}
  PROVE  /\ FlattenSeq(ss) \in Seq(S) /\ Distinct(FlattenSeq(ss))
         /\ \A m : m \in ToSet(FlattenSeq(ss)) <=> \E i \in DOMAIN ss : m \in ToSet(ss[i])
<1>1. DOMAIN ss = 1..Len(ss) /\ Len(ss) \in Nat /\ \A i \in 1..Len(ss) : ss[i] \in Seq(S)
  OBVIOUS
<1>2. CASE Len(ss) = 0
  <2>1. ss = <<>>
    BY <1>2
  <2>2. FlattenSeq(ss) = <<>>
    BY <2>1 DEF FlattenSeq
  <2>3. Distinct(<<>>) /\ ToSet(<<>>) = {} /\ <<>> \in Seq(S)
    BY DEF Distinct, ToSet
  <2>4. DOMAIN ss = {}
    BY <2>1
  <2> QED
    BY <2>2, <2>3, <2>4
<1>3. CASE Len(ss) # 0
  <2> DEFINE flat == CHOOSE f : FlatUpTo(ss, f, Len(ss))
  <2>1. FlatUpTo(ss, flat, Len(ss))
    BY <1>1, FlatExists
  <2>2. FlattenSeq(ss) = flat[Len(ss)]
    BY <1>3 DEF FlattenSeq, FlatUpTo
  <2> HIDE DEF flat
  <2>3. \A i \in 1..Len(ss) : flat[i] = IF i = 1 THEN ss[i] ELSE flat[i - 1] \o ss[i]
    BY <2>1 DEF FlatUpTo
  <2> DEFINE Fine(n) == /\ flat[n] \in Seq(S) /\ Distinct(flat[n])
                        /\ \A m : m \in ToSet(flat[n]) <=> \E i \in 1..n : m \in ToSet(ss[i])
             Bad == {n \in 1..Len(ss) : ~Fine(n)}
  <2>4. Bad = {}
    <3> SUFFICES ASSUME Bad # {} PROVE FALSE
      OBVIOUS
    <3>1. Bad \subseteq Nat
      BY <1>1
    <3>2. PICK n \in Bad : \A i \in Bad : n <= i
      <4> HIDE DEF Bad
      <4> QED
        BY <3>1, LeastNumber
    <3>3. n \in 1..Len(ss) /\ n \in DOMAIN ss /\ ss[n] \in Seq(S) /\ Distinct(ss[n])
      BY <1>1
    <3>4. CASE n = 1
      <4>1. flat[1] = ss[1]
        BY <2>3, <3>3, <3>4
      <4>2. \A i \in 1..1 : i = 1
        OBVIOUS
      <4>3. Fine(1)
        BY <3>3, <3>4, <4>1, <4>2
      <4> QED
        BY <3>2, <3>4, <4>3
    <3>5. CASE n # 1
      <4>1. n - 1 \in 1..Len(ss) /\ ~(n <= n - 1) /\ flat[n] = flat[n - 1] \o ss[n]
        <5>1. n \in 1..Len(ss) /\ Len(ss) \in Nat
          BY <1>1, <3>3
        <5>2. n - 1 \in 1..Len(ss) /\ ~(n <= n - 1)
          BY <3>5, <5>1
        <5>3. flat[n] = flat[n - 1] \o ss[n]
          BY <2>3, <3>5, <5>1
        <5> QED
          BY <5>2, <5>3
      <4>2. Fine(n - 1)
        BY <3>2, <4>1
      <4>3. PICK t, u : t = flat[n - 1] /\ u = flat[n]
        OBVIOUS
      <4>4. t \in Seq(S) /\ Distinct(t) /\ \A m : m \in ToSet(t) <=> \E i \in 1..(n - 1) : m \in ToSet(ss[i])
        BY <4>2, <4>3
      <4>5. ToSet(t) \cap ToSet(ss[n]) = {}
        <5> SUFFICES ASSUME NEW m \in ToSet(t), m \in ToSet(ss[n]) PROVE FALSE
          OBVIOUS
        <5>1. PICK i \in 1..(n - 1) : m \in ToSet(ss[i])
          BY <4>4
        <5>2. i \in DOMAIN ss /\ i # n
          BY <1>1, <3>3, <5>1
        <5> QED
          BY <3>3, <5>1, <5>2
      <4>6. u = t \o ss[n]
        BY <4>1, <4>3
      <4>7. /\ u \in Seq(S) /\ ToSet(u) = ToSet(t) \cup ToSet(ss[n]) /\ Distinct(u)
        <5>1. PICK v : v = ss[n]
          OBVIOUS
        <5>2. t \in Seq(S) /\ v \in Seq(S) /\ u = t \o v
          BY <3>3, <4>4, <4>6, <5>1
        <5>3. u \in Seq(S) /\ Joined(t, v, u)
          BY ONLY <5>2, ConcatIs
        <5>4. ToSet(u) = ToSet(t) \cup ToSet(v)
          BY <5>3 DEF Joined
        <5> QED
          BY <3>3, <4>4, <4>5, <5>1, <5>3, <5>4 DEF Joined
      <4>8. \A i : i \in 1..n <=> i \in 1..(n - 1) \/ i = n
        BY <1>1, <3>3
      <4>9. \A m : m \in ToSet(u) <=> \E i \in 1..n : m \in ToSet(ss[i])
        BY <4>4, <4>7, <4>8
      <4>10. Fine(n)
        BY <4>3, <4>7, <4>9
      <4> QED
        BY <3>2, <4>10
    <3> QED
      BY <3>4, <3>5
  <2>5. Len(ss) \in 1..Len(ss)
    BY <1>1, <1>3
  <2>6. Fine(Len(ss))
    BY <2>4, <2>5
  <2> QED
    BY <1>1, <2>2, <2>6
<1> QED
  BY <1>2, <1>3

\* A chain is the chat's pages, and on it are its messages, once each.
LEMMA OnChainIs ==
  ASSUME NEW s \in Stores, NEW X, Tidy(s.page, s.free, s.tips, X), NEW K, Holds(s.page, K), NEW c \in Chats,
         PagesOf(s.page, c) \cap X = {}
  PROVE  /\ Chain(s, c) \in Seq(PagesOf(s.page, c)) /\ Distinct(Chain(s, c)) /\ ToSet(Chain(s, c)) = PagesOf(s.page, c)
         /\ OnChain(s, c) \in Seq(Messages) /\ Distinct(OnChain(s, c))
         /\ \A m \in Messages : m \in ToSet(OnChain(s, c)) <=> m \in K[c]
<1>1. PICK a, S, ch : a = s.page /\ S = PagesOf(a, c) /\ ch = Chain(s, c)
  OBVIOUS
<1>2. a \in Seq(Pages)
  BY <1>1 DEF Stores
<1>3. S \subseteq DOMAIN a /\ \A p \in DOMAIN a : a[p].msgs \in Seq(Messages)
  BY <1>1, <1>2, PagesAre
<1>4. IsList(a, s.tips[c].head, S)
  <2>1. S \ X = S
    BY <1>1
  <2>2. IsChain(a, s.tips[c], PagesOf(a, c) \ X)
    BY <1>1 DEF Tidy
  <2> QED
    BY <1>1, <2>1, <2>2 DEF IsChain
<1>5. ch \in Seq(S) /\ Distinct(ch) /\ ToSet(ch) = S
  <2>1. ch = PathFrom(a, s.tips[c].head)
    BY <1>1 DEF Chain
  <2> QED
    BY <1>2, <1>3, <1>4, <2>1, WalkIs
<1>6. DOMAIN ch = 1..Len(ch) /\ Len(ch) \in Nat /\ \A i \in DOMAIN ch : ch[i] \in S /\ ch[i] \in DOMAIN a
  BY <1>3, <1>5
<1>7. PICK ss : ss = [i \in DOMAIN ch |-> a[ch[i]].msgs]
  OBVIOUS
<1>8. DOMAIN ss = DOMAIN ch /\ \A i \in DOMAIN ch : ss[i] = a[ch[i]].msgs
  BY <1>7
<1>9. ss \in Seq(Seq(Messages))
  <2>1. \A i \in 1..Len(ch) : ss[i] \in Seq(Messages)
    BY <1>3, <1>6, <1>8
  <2>2. ss \in [1..Len(ch) -> Seq(Messages)]
    BY <1>6, <1>7, <2>1
  <2> QED
    BY <1>6, <2>2
<1>10. /\ \A p \in DOMAIN a : Distinct(a[p].msgs)
       /\ \A p, q \in DOMAIN a : p = q \/ ToSet(a[p].msgs) \cap ToSet(a[q].msgs) = {}
       /\ \A m \in Messages : m \in K[c] <=> OnPage(a, c, m)
  BY <1>1 DEF Holds
<1>11. \A i \in DOMAIN ss : Distinct(ss[i])
  BY <1>6, <1>8, <1>10
<1>12. \A i, j \in DOMAIN ss : i = j \/ ToSet(ss[i]) \cap ToSet(ss[j]) = {}
  <2> SUFFICES ASSUME NEW i \in DOMAIN ss, NEW j \in DOMAIN ss, i # j PROVE ToSet(ss[i]) \cap ToSet(ss[j]) = {}
    OBVIOUS
  <2>1. ch[i] # ch[j] /\ ch[i] \in DOMAIN a /\ ch[j] \in DOMAIN a
    BY <1>5, <1>6, <1>8 DEF Distinct
  <2> QED
    BY <1>8, <1>10, <2>1
<1>13. PICK ms : ms = FlattenSeq(ss)
  OBVIOUS
<1>14. /\ ms \in Seq(Messages) /\ Distinct(ms)
       /\ \A m : m \in ToSet(ms) <=> \E i \in DOMAIN ss : m \in ToSet(ss[i])
  BY <1>9, <1>11, <1>12, <1>13, FlattenIs
<1>15. OnChain(s, c) = ms
  BY <1>1, <1>7, <1>13 DEF OnChain
<1>16. \A m \in Messages : m \in ToSet(ms) <=> m \in K[c]
  <2> SUFFICES ASSUME NEW m \in Messages PROVE m \in ToSet(ms) <=> OnPage(a, c, m)
    BY <1>10
  <2>1. ASSUME NEW p \in S PROVE \E i \in DOMAIN ch : ch[i] = p
    BY <1>5 DEF ToSet
  <2>2. OnPage(a, c, m) <=> \E p \in S : m \in ToSet(a[p].msgs)
    BY <1>1 DEF OnPage
  <2> QED
    BY <1>6, <1>8, <1>14, <2>1, <2>2
<1> QED
  BY <1>1, <1>5, <1>14, <1>15, <1>16

(* A chain is freed.                                                        *)

LEMMA FreePageIs ==
  ASSUME NEW s \in Stores, NEW p \in DOMAIN s.page, NEW u, u = FreePage(s, p)
  PROVE  /\ u \in Stores /\ u.tips = s.tips /\ u.free = p
         /\ Len(u.page) = Len(s.page) /\ DOMAIN u.page = DOMAIN s.page
         /\ u.page[p] = [type |-> "free", chat |-> None, next |-> s.free, msgs |-> <<>>]
         /\ \A q \in DOMAIN s.page : q # p => u.page[q] = s.page[q]
<1> DEFINE new == [type |-> "free", chat |-> None, next |-> s.free, msgs |-> <<>>]
<1>1. s.page \in Seq(Pages) /\ s.free \in Nat /\ s.tips \in [Chats -> Tips] /\ p \in Nat
  BY DEF Stores
<1>2. [Blank("free") EXCEPT !.next = s.free] = new /\ new \in Pages
  <2>1. Blank("free") \in Pages
    BY BlankIs
  <2>2. PICK b \in Pages : b = Blank("free")
    BY <2>1
  <2>3. [b EXCEPT !.next = s.free] = [type |-> b.type, chat |-> b.chat, next |-> s.free, msgs |-> b.msgs]
        /\ [b EXCEPT !.next = s.free] \in Pages
    BY <1>1, SetNext
  <2>4. b.type = "free" /\ b.chat = None /\ b.msgs = <<>>
    BY <2>2 DEF Blank
  <2> QED
    BY <2>2, <2>3, <2>4
<1>3. PICK pages : pages = [s.page EXCEPT ![p] = new]
  OBVIOUS
<1>4. /\ pages \in Seq(Pages) /\ Len(pages) = Len(s.page) /\ DOMAIN pages = DOMAIN s.page
      /\ pages[p] = new /\ \A q \in DOMAIN s.page : q # p => pages[q] = s.page[q]
  <2> HIDE DEF new
  <2> QED
    BY <1>1, <1>2, <1>3, ExceptIs
<1>5. u = [[s EXCEPT !.page = pages] EXCEPT !.free = p]
  <2>1. u = [[s EXCEPT !.page[p] = new] EXCEPT !.free = p]
    BY <1>2 DEF FreePage
  <2>2. [s EXCEPT !.page[p] = new] = [s EXCEPT !.page = pages]
    BY <1>3 DEF Stores
  <2> QED
    BY <2>1, <2>2
<1>6. u \in Stores /\ u.tips = s.tips /\ u.free = p /\ u.page = pages
  <2>1. [s EXCEPT !.page = pages] = [page |-> pages, free |-> s.free, tips |-> s.tips]
    BY DEF Stores
  <2>2. u = [page |-> pages, free |-> p, tips |-> s.tips]
    BY <1>5, <2>1
  <2> QED
    BY <1>1, <1>4, <2>2 DEF Stores
<1> QED
  BY <1>4, <1>6

\* Of the store s the pages D were freed.
Freed(s, D, u) ==
    /\ u \in Stores /\ u.tips = s.tips /\ Len(u.page) = Len(s.page)
    /\ \A q \in D : u.page[q].type = "free" /\ u.page[q].msgs = <<>>
    /\ \A q \in DOMAIN s.page : q \notin D => u.page[q] = s.page[q]
    /\ IsList(u.page, u.free, FreePages(s.page) \cup D)

LEMMA FreeOne ==
  ASSUME NEW s \in Stores, NEW D, D \subseteq DOMAIN s.page, NEW t, Freed(s, D, t),
         NEW p \in DOMAIN s.page, p \notin D, p \notin FreePages(s.page), NEW u, u = FreePage(t, p)
  PROVE  Freed(s, D \cup {p}, u)
<1>1. /\ t \in Stores /\ t.tips = s.tips /\ Len(t.page) = Len(s.page)
      /\ \A q \in D : t.page[q].type = "free" /\ t.page[q].msgs = <<>>
      /\ \A q \in DOMAIN s.page : q \notin D => t.page[q] = s.page[q]
      /\ IsList(t.page, t.free, FreePages(s.page) \cup D)
  BY DEF Freed
<1>2. s.page \in Seq(Pages) /\ t.page \in Seq(Pages)
  BY <1>1 DEF Stores
<1>3. DOMAIN t.page = DOMAIN s.page /\ DOMAIN s.page \subseteq Nat \ {0} /\ FreePages(s.page) \subseteq DOMAIN s.page
  BY <1>1, <1>2, PagesAre
<1>4. PICK f, n : f = t.free /\ n = [type |-> "free", chat |-> None, next |-> f, msgs |-> <<>>]
  OBVIOUS
<1>5. /\ u \in Stores /\ u.tips = t.tips /\ u.free = p
      /\ Len(u.page) = Len(t.page)
      /\ u.page[p] = n /\ \A q \in DOMAIN t.page : q # p => u.page[q] = t.page[q]
  BY <1>1, <1>3, <1>4, FreePageIs
<1>6. u.page[p].type = "free" /\ u.page[p].msgs = <<>> /\ u.page[p].next = f
  BY <1>4, <1>5
<1>7. PICK S, a, b : S = FreePages(s.page) \cup D /\ a = t.page /\ b = u.page
  OBVIOUS
<1>8. S \subseteq Nat \ {0} /\ p \in Nat \ {0} /\ p \notin S /\ IsList(a, f, S)
  BY <1>1, <1>3, <1>4, <1>7
<1>9. b[p].next = f /\ \A q \in S : b[q].next = a[q].next
  BY <1>3, <1>5, <1>6, <1>7
<1>10. IsList(b, p, S \cup {p})
  BY ONLY <1>8, <1>9, ListPush
<1>11. S \cup {p} = FreePages(s.page) \cup (D \cup {p})
  BY <1>7
<1>12. \A q \in D \cup {p} : u.page[q].type = "free" /\ u.page[q].msgs = <<>>
  BY <1>1, <1>3, <1>5, <1>6
<1>13. \A q \in DOMAIN s.page : q \notin D \cup {p} => u.page[q] = s.page[q]
  BY <1>1, <1>3, <1>5
<1>14. IsList(u.page, u.free, FreePages(s.page) \cup (D \cup {p}))
  BY <1>5, <1>7, <1>10, <1>11
<1> QED
  BY <1>1, <1>5, <1>12, <1>13, <1>14 DEF Freed

\* The function that FreeChain defines, up to k.
FreedUpTo(s, ch, freed, k) == freed = [n \in 0..k |-> IF n = 0 THEN s ELSE FreePage(freed[n - 1], ch[n])]

LEMMA FreedExists ==
  ASSUME NEW s, NEW ch, NEW k \in Nat
  PROVE  \E freed : FreedUpTo(s, ch, freed, k)
<1> DEFINE Without == {n \in Nat : ~ \E freed : FreedUpTo(s, ch, freed, n)}
<1> SUFFICES ASSUME Without # {} PROVE FALSE
  OBVIOUS
<1>1. PICK n \in Without : \A i \in Without : n <= i
  BY LeastNumber
<1>2. n # 0
  <2>1. FreedUpTo(s, ch, [i \in {0} |-> s], 0)
    <3>1. 0..0 = {0}
      OBVIOUS
    <3>2. [i \in {0} |-> s] = [i \in {0} |-> IF i = 0 THEN s ELSE FreePage([j \in {0} |-> s][i - 1], ch[i])]
      OBVIOUS
    <3> QED
      BY <3>1, <3>2 DEF FreedUpTo
  <2> QED
    BY <2>1
<1>3. PICK freed : FreedUpTo(s, ch, freed, n - 1)
  BY <1>1, <1>2
<1> DEFINE more == [i \in 0..n |-> IF i < n THEN freed[i] ELSE FreePage(freed[i - 1], ch[i])]
<1>4. FreedUpTo(s, ch, more, n)
  <2>1. \A i \in 0..n : (i < n => i \in 0..(n - 1)) /\ (i # 0 => i - 1 \in 0..n /\ i - 1 < n)
    BY <1>1
  <2>2. \A i \in 0..(n - 1) : freed[i] = IF i = 0 THEN s ELSE FreePage(freed[i - 1], ch[i])
    BY <1>3 DEF FreedUpTo
  <2>3. \A i \in 0..n : more[i] = IF i = 0 THEN s ELSE FreePage(more[i - 1], ch[i])
    BY <1>1, <1>2, <2>1, <2>2
  <2> QED
    BY <2>3 DEF FreedUpTo
<1> QED
  BY <1>1, <1>4

LEMMA FreeChainIs ==
  ASSUME NEW s \in Stores, NEW c, NEW S, S \subseteq DOMAIN s.page, S \cap FreePages(s.page) = {},
         IsList(s.page, s.free, FreePages(s.page)),
         Chain(s, c) \in Seq(S), Distinct(Chain(s, c)), ToSet(Chain(s, c)) = S
  PROVE  Freed(s, S, FreeChain(s, c))
<1>1. PICK ch : ch = Chain(s, c)
  OBVIOUS
<1>2. DOMAIN ch = 1..Len(ch) /\ Len(ch) \in Nat /\ \A i \in 1..Len(ch) : ch[i] \in S
  BY <1>1
<1> DEFINE freed == CHOOSE f : FreedUpTo(s, ch, f, Len(ch))
<1>3. FreedUpTo(s, ch, freed, Len(ch))
  BY <1>2, FreedExists
<1>4. FreeChain(s, c) = freed[Len(ch)]
  BY <1>1 DEF FreeChain, FreedUpTo
<1> HIDE DEF freed
<1>5. \A n \in 0..Len(ch) : freed[n] = IF n = 0 THEN s ELSE FreePage(freed[n - 1], ch[n])
  BY <1>3 DEF FreedUpTo
<1> DEFINE D(n) == {ch[i] : i \in 1..n}
           Bad == {n \in 0..Len(ch) : ~Freed(s, D(n), freed[n])}
<1>6. Bad = {}
  <2> SUFFICES ASSUME Bad # {} PROVE FALSE
    OBVIOUS
  <2>1. Bad \subseteq Nat
    BY <1>2
  <2>2. PICK n \in Bad : \A i \in Bad : n <= i
    <3> HIDE DEF Bad
    <3> QED
      BY <2>1, LeastNumber
  <2>3. CASE n = 0
    <3>1. D(0) = {}
      OBVIOUS
    <3>2. freed[0] = s
      BY <1>2, <1>5
    <3>3. FreePages(s.page) \cup {} = FreePages(s.page)
      OBVIOUS
    <3>4. Freed(s, {}, s)
      BY <3>3 DEF Freed
    <3>5. Freed(s, D(0), freed[0])
      BY <3>1, <3>2, <3>4
    <3> QED
      BY <2>2, <2>3, <3>5
  <2>4. CASE n # 0
    <3>1. n \in 1..Len(ch) /\ n - 1 \in 0..Len(ch) /\ ~(n <= n - 1)
      BY <1>2, <2>2, <2>4
    <3>2. freed[n] = FreePage(freed[n - 1], ch[n]) /\ Freed(s, D(n - 1), freed[n - 1])
      BY <1>5, <2>2, <2>4, <3>1
    <3>3. ch[n] \in S /\ ch[n] \in DOMAIN s.page /\ ch[n] \notin FreePages(s.page)
      BY <1>2, <3>1
    <3>4. ch[n] \notin D(n - 1)
      <4>1. \A i \in 1..(n - 1) : i \in DOMAIN ch /\ n \in DOMAIN ch /\ i # n
        BY <1>2, <3>1
      <4>2. \A i \in 1..(n - 1) : ch[i] # ch[n]
        BY <1>1, <4>1 DEF Distinct
      <4> QED
        BY <4>2
    <3>5. D(n - 1) \subseteq DOMAIN s.page
      <4>1. \A i \in 1..(n - 1) : i \in 1..Len(ch)
        BY <1>2, <3>1
      <4> QED
        BY <1>2, <4>1
    <3>6. D(n) = D(n - 1) \cup {ch[n]}
      <4>1. \A i : i \in 1..n <=> i \in 1..(n - 1) \/ i = n
        BY <1>2, <3>1
      <4> QED
        BY <4>1
    <3>7. PICK E, t, p : E = D(n - 1) /\ t = freed[n - 1] /\ p = ch[n]
      OBVIOUS
    <3>8. Freed(s, E \cup {p}, FreePage(t, p))
      <4>1. /\ s \in Stores /\ E \subseteq DOMAIN s.page /\ Freed(s, E, t)
            /\ p \in DOMAIN s.page /\ p \notin E /\ p \notin FreePages(s.page)
        BY <3>2, <3>3, <3>4, <3>5, <3>7
      <4> QED
        BY ONLY <4>1, FreeOne
    <3>9. Freed(s, D(n), freed[n])
      BY <3>2, <3>6, <3>7, <3>8
    <3> QED
      BY <2>2, <3>9
  <2> QED
    BY <2>3, <2>4
<1>7. Freed(s, D(Len(ch)), freed[Len(ch)])
  <2>1. Len(ch) \in 0..Len(ch)
    BY <1>2
  <2> QED
    BY <1>6, <2>1
<1>8. D(Len(ch)) = S
  <2>1. ToSet(ch) = {ch[i] : i \in DOMAIN ch}
    BY DEF ToSet
  <2> QED
    BY <1>1, <1>2, <2>1
<1> QED
  BY <1>4, <1>7, <1>8

\* The chat c has no chain, and the others have theirs.
Unchained(ts, c, us) == ts[c].head = 0 /\ ts[c].tail = 0 /\ \A d \in Chats : d # c => ts[d] = us[d]
\* The chat c holds the messages M instead.
HoldsNow(L, c, M, K) == L[c] = M /\ \A d \in Chats : d # c => L[d] = K[d]

\* After that the chat has no pages, and the others are as they were.
LEMMA FreeTidy ==
  ASSUME NEW s \in Stores, Tidy(s.page, s.free, s.tips, {}), NEW K, Holds(s.page, K), NEW c \in Chats,
         NEW u, u = FreeChain(s, c), NEW ts, Unchained(ts, c, s.tips), NEW L, HoldsNow(L, c, {}, K)
  PROVE  /\ u \in Stores /\ u.tips = s.tips /\ Len(u.page) = Len(s.page)
         /\ Tidy(u.page, u.free, ts, {}) /\ Holds(u.page, L)
<1>0. /\ ts[c].head = 0 /\ ts[c].tail = 0 /\ \A d \in Chats : d # c => ts[d] = s.tips[d]
      /\ L[c] = {} /\ \A d \in Chats : d # c => L[d] = K[d]
  BY DEF Unchained, HoldsNow
<1>1. PICK a, S, F : a = s.page /\ S = PagesOf(a, c) /\ F = FreePages(a)
  OBVIOUS
<1>2. a \in Seq(Pages)
  BY <1>1 DEF Stores
<1>3. /\ S \subseteq DOMAIN a /\ S \cap F = {} /\ F \subseteq DOMAIN a
      /\ \A d : PagesOf(a, d) \subseteq DOMAIN a /\ PagesOf(a, d) \cap F = {}
  BY <1>1, <1>2, PagesAre
<1>4. /\ \A q \in DOMAIN a : IF a[q].type = "free" THEN a[q].msgs = <<>> ELSE a[q].chat \in Chats
      /\ IsList(a, s.free, F)
      /\ \A d \in Chats : IsChain(a, s.tips[d], PagesOf(a, d))
  BY <1>1 DEF Tidy
<1>5. Chain(s, c) \in Seq(S) /\ Distinct(Chain(s, c)) /\ ToSet(Chain(s, c)) = S
  <2>1. PagesOf(s.page, c) \cap {} = {}
    OBVIOUS
  <2> QED
    BY <1>1, <2>1, OnChainIs
<1>6. Freed(s, S, u)
  BY <1>1, <1>3, <1>4, <1>5, FreeChainIs
<1>7. PICK b : b = u.page
  OBVIOUS
<1>8. /\ u \in Stores /\ u.tips = s.tips /\ Len(b) = Len(a)
      /\ \A q \in S : b[q].type = "free" /\ b[q].msgs = <<>>
      /\ \A q \in DOMAIN a : q \notin S => b[q] = a[q]
      /\ IsList(b, u.free, F \cup S)
  BY <1>1, <1>6, <1>7 DEF Freed
<1>9. b \in Seq(Pages) /\ DOMAIN b = DOMAIN a
  <2>1. b \in Seq(Pages)
    BY <1>7, <1>8 DEF Stores
  <2> QED
    BY <1>2, <1>8, <2>1
<1>10. FreePages(b) = F \cup S
  <2>1. \A q : q \in FreePages(b) <=> q \in F \/ q \in S
    BY <1>1, <1>3, <1>8, <1>9 DEF FreePages
  <2> QED
    BY <2>1
<1>11. PagesOf(b, c) = {}
  <2>1. \A q : q \notin PagesOf(b, c)
    BY <1>1, <1>8, <1>9 DEF PagesOf
  <2> QED
    BY <2>1
<1>12. \A d \in Chats : d # c => PagesOf(b, d) = PagesOf(a, d) /\ PagesOf(a, d) \cap S = {}
  <2> SUFFICES ASSUME NEW d \in Chats, d # c PROVE PagesOf(b, d) = PagesOf(a, d) /\ PagesOf(a, d) \cap S = {}
    OBVIOUS
  <2>1. PagesOf(a, d) \cap S = {}
    BY <1>1 DEF PagesOf
  <2>2. \A q : q \in PagesOf(b, d) <=> q \in PagesOf(a, d)
    BY <1>8, <1>9, <2>1 DEF PagesOf
  <2> QED
    BY <2>1, <2>2
<1>13. \A d \in Chats : IsChain(b, ts[d], PagesOf(b, d) \ {})
  <2> SUFFICES ASSUME NEW d \in Chats PROVE IsChain(b, ts[d], PagesOf(b, d))
    OBVIOUS
  <2>1. CASE d = c
    <3>1. IsList(b, 0, {})
      <4>1. PICK r : r = [x \in {} |-> 0]
        OBVIOUS
      <4>2. r \in [{} -> Nat]
        BY <4>1
      <4> QED
        BY <4>2 DEF IsList
    <3> QED
      BY <1>0, <1>11, <2>1, <3>1 DEF IsChain
  <2>2. CASE d # c
    <3>1. \A q \in PagesOf(a, d) : b[q].next = a[q].next
      BY <1>3, <1>8, <1>12, <2>2
    <3>2. IsChain(a, s.tips[d], PagesOf(a, d)) /\ ts[d].head = s.tips[d].head /\ ts[d].tail = s.tips[d].tail
      BY <1>0, <1>4, <2>2
    <3>3. IsChain(b, ts[d], PagesOf(a, d))
      BY <3>1, <3>2, ChainStays
    <3> QED
      BY <1>12, <2>2, <3>3
  <2> QED
    BY <2>1, <2>2
<1>14. \A q \in DOMAIN b : IF b[q].type = "free" THEN b[q].msgs = <<>> ELSE b[q].chat \in Chats
  BY <1>4, <1>8, <1>9
<1>15. Tidy(b, u.free, ts, {})
  BY <1>8, <1>10, <1>13, <1>14 DEF Tidy
<1>16. Holds(b, L)
  <2>1. /\ \A q \in DOMAIN a : Distinct(a[q].msgs)
        /\ \A q, r \in DOMAIN a : q = r \/ ToSet(a[q].msgs) \cap ToSet(a[r].msgs) = {}
        /\ \A d \in Chats : \A m \in Messages : m \in K[d] <=> OnPage(a, d, m)
    BY <1>1 DEF Holds
  <2>2. Distinct(<<>>) /\ ToSet(<<>>) = {}
    BY DEF Distinct, ToSet
  <2>3. \A q \in DOMAIN b : b[q].msgs = <<>> \/ b[q].msgs = a[q].msgs
    BY <1>8, <1>9
  <2>4. \A q \in DOMAIN b : Distinct(b[q].msgs)
    BY <1>9, <2>1, <2>2, <2>3
  <2>5. \A q, r \in DOMAIN b : q = r \/ ToSet(b[q].msgs) \cap ToSet(b[r].msgs) = {}
    BY <1>9, <2>1, <2>2, <2>3
  <2>6. \A d \in Chats : \A m \in Messages : m \in L[d] <=> OnPage(b, d, m)
    <3> SUFFICES ASSUME NEW d \in Chats, NEW m \in Messages PROVE m \in L[d] <=> OnPage(b, d, m)
      OBVIOUS
    <3>1. CASE d = c
      BY <1>0, <1>11, <3>1 DEF OnPage
    <3>2. CASE d # c
      <4>1. \A q \in PagesOf(a, d) : b[q] = a[q]
        BY <1>3, <1>8, <1>12, <3>2
      <4>2. OnPage(b, d, m) <=> OnPage(a, d, m)
        BY <1>12, <3>2, <4>1 DEF OnPage
      <4> QED
        BY <1>0, <2>1, <3>2, <4>2
    <3> QED
      BY <3>1, <3>2
  <2> QED
    BY <2>4, <2>5, <2>6 DEF Holds
<1> QED
  BY <1>7, <1>8, <1>9, <1>11, <1>15, <1>16, <1>1

(* The kept messages are written on a new chain.                            *)

LEMMA ReplaceIs ==
  ASSUME NEW a \in Seq(Pages), NEW p, NEW n \in Pages
  PROVE  /\ [a EXCEPT ![p] = n] \in Seq(Pages)
         /\ Len([a EXCEPT ![p] = n]) = Len(a)
         /\ \A i \in DOMAIN a : [a EXCEPT ![p] = n][i] = IF i = p THEN n ELSE a[i]
<1>1. PICK b : b = [a EXCEPT ![p] = n]
  OBVIOUS
<1>2. b \in Seq(Pages) /\ Len(b) = Len(a) /\ DOMAIN b = DOMAIN a /\ \A i \in DOMAIN a : b[i] = IF i = p THEN n ELSE a[i]
  <2>1. DOMAIN a = 1..Len(a) /\ Len(a) \in Nat /\ \A i \in 1..Len(a) : a[i] \in Pages
    OBVIOUS
  <2>2. b = [i \in 1..Len(a) |-> IF i = p THEN n ELSE a[i]]
    BY <1>1, <2>1
  <2>3. b \in [1..Len(a) -> Pages]
    BY <2>1, <2>2
  <2> QED
    BY <2>1, <2>2, <2>3
<1> QED
  BY <1>1, <1>2

\* What no chat holds is on no page.
LEMMA AbsentIs ==
  ASSUME NEW a \in Seq(Pages), NEW f, NEW ts, NEW X, Tidy(a, f, ts, X), NEW K, Holds(a, K),
         NEW m \in Messages, \A d \in Chats : m \notin K[d]
  PROVE  \A p \in DOMAIN a : m \notin ToSet(a[p].msgs)
<1> SUFFICES ASSUME NEW p \in DOMAIN a, m \in ToSet(a[p].msgs) PROVE FALSE
  OBVIOUS
<1>1. a[p].type \in {"chat", "free"}
  BY PagesAre
<1>2. CASE a[p].type = "free"
  <2>1. a[p].msgs = <<>>
    BY <1>2 DEF Tidy
  <2> QED
    BY <2>1 DEF ToSet
<1>3. CASE a[p].type = "chat"
  <2>1. a[p].chat \in Chats
    BY <1>3 DEF Tidy
  <2>2. p \in PagesOf(a, a[p].chat)
    BY <1>3 DEF PagesOf
  <2>3. m \in K[a[p].chat]
    BY <2>1, <2>2 DEF Holds, OnPage
  <2> QED
    BY <2>1, <2>3
<1> QED
  BY <1>1, <1>2, <1>3

\* Rewrite's Put.
Put(t, c, m) ==
    IF ~IsFull(t.page[t.tips[c].tail])
    THEN [t EXCEPT !.page[t.tips[c].tail].msgs = Append(@, m)]
    ELSE LET p == NewPage(t)
         IN  [AllocFor(t, c) EXCEPT !.page[t.tips[c].tail].next = p,
                                    !.page[p].msgs = <<m>>, !.tips[c].tail = p]

\* A chat's pages while they are written: they hold L.
Writing(s, c, L, k, t) ==
    /\ t \in Stores /\ Len(s.page) <= Len(t.page)
    /\ Tidy(t.page, t.free, t.tips, {}) /\ Holds(t.page, L)
    /\ t.tips[c].tail # 0 /\ t.tips[c].count = k
    /\ \A d \in Chats : d # c => t.tips[d] = s.tips[d]

LEMMA TailIs ==
  ASSUME NEW a, NEW f, NEW ts, NEW X, Tidy(a, f, ts, X), NEW c \in Chats, ts[c].tail # 0
  PROVE  ts[c].tail \in PagesOf(a, c) \ X /\ ts[c].head \in PagesOf(a, c) \ X /\ a[ts[c].tail].next = 0
<1>1. IsChain(a, ts[c], PagesOf(a, c) \ X)
  BY DEF Tidy
<1> QED
  BY <1>1 DEF IsChain, IsList

\* A message on the last page.
LEMMA PutHere ==
  ASSUME NEW s, NEW c \in Chats, NEW L, NEW k, NEW t, Writing(s, c, L, k, t), NEW m \in Messages, \A d \in Chats : m \notin L[d],
         NEW M, M[c] = L[c] \cup {m}, \A d \in Chats : d # c => M[d] = L[d],
         ~IsFull(t.page[t.tips[c].tail]), NEW u, u = Put(t, c, m)
  PROVE  Writing(s, c, M, k, u)
<1>0. u = [t EXCEPT !.page[t.tips[c].tail].msgs = Append(@, m)]
  BY DEF Put
<1>1. PICK a, p, ts, f : a = t.page /\ ts = t.tips /\ f = t.free /\ p = ts[c].tail
  OBVIOUS
<1>2. /\ t \in Stores /\ Len(s.page) <= Len(a)
      /\ Tidy(a, f, ts, {}) /\ Holds(a, L)
      /\ p # 0 /\ ts[c].count = k
      /\ \A d \in Chats : d # c => ts[d] = s.tips[d]
  BY <1>1 DEF Writing
<1>3. a \in Seq(Pages) /\ f \in Nat /\ ts \in [Chats -> Tips]
  BY <1>1, <1>2 DEF Stores
<1>4. p \in PagesOf(a, c) /\ p \in DOMAIN a
  <2>1. p \in PagesOf(a, c) \ {}
    BY <1>1, <1>2, TailIs
  <2> QED
    BY <1>3, <2>1, PagesAre
<1>5. PICK ms : ms = Append(a[p].msgs, m)
  OBVIOUS
<1>6. a[p] \in Pages /\ ms \in Seq(Messages)
  <2>1. a[p] \in Pages /\ a[p].msgs \in Seq(Messages)
    BY <1>3, <1>4, PagesAre
  <2> QED
    BY <1>5, <2>1
<1>7. PICK n : n = [a[p] EXCEPT !.msgs = ms]
  OBVIOUS
<1>8. n \in Pages /\ n.type = a[p].type /\ n.chat = a[p].chat /\ n.next = a[p].next /\ n.msgs = ms
  <2>1. n = [type |-> a[p].type, chat |-> a[p].chat, next |-> a[p].next, msgs |-> ms] /\ n \in Pages
    BY <1>6, <1>7, SetMsgs
  <2> QED
    BY <2>1
<1>9. PICK b : b = [a EXCEPT ![p] = n]
  OBVIOUS
<1>10. b \in Seq(Pages) /\ Len(b) = Len(a) /\ DOMAIN b = DOMAIN a /\ \A i \in DOMAIN a : b[i] = IF i = p THEN n ELSE a[i]
  <2>1. a \in Seq(Pages) /\ n \in Pages
    BY <1>3, <1>8
  <2> QED
    BY ONLY <2>1, <1>9, ReplaceIs
<1>11. u = [t EXCEPT !.page = b]
  <2>1. u = [t EXCEPT !.page[p].msgs = Append(@, m)]
    BY <1>0, <1>1
  <2>2. u = [t EXCEPT !.page[p] = [a[p] EXCEPT !.msgs = ms]]
    BY <1>1, <1>2, <1>5, <2>1 DEF Stores
  <2> QED
    BY <1>1, <1>2, <1>7, <1>9, <2>2 DEF Stores
<1>12. u \in Stores /\ u.page = b /\ u.tips = ts /\ u.free = f
  <2>1. u = [page |-> b, free |-> f, tips |-> ts]
    BY <1>1, <1>2, <1>11 DEF Stores
  <2>2. u.page = b /\ u.tips = ts /\ u.free = f
    BY ONLY <2>1
  <2>3. u \in Stores
    BY ONLY <1>3, <1>10, <2>1 DEF Stores
  <2> QED
    BY <2>2, <2>3
<1>13. \A q \in DOMAIN a : m \notin ToSet(a[q].msgs)
  BY <1>2, <1>3, AbsentIs
<1>14. \A q \in DOMAIN a : b[q].type = a[q].type /\ b[q].chat = a[q].chat /\ b[q].next = a[q].next
  BY <1>8, <1>10
<1>15. \A q \in DOMAIN a : b[q].msgs = IF q = p THEN Append(a[q].msgs, m) ELSE a[q].msgs
  BY <1>5, <1>8, <1>10
<1>16. Tidy(b, f, ts, {}) /\ Holds(b, M)
  <2>1. /\ a \in Seq(Pages) /\ Tidy(a, f, ts, {}) /\ Holds(a, L) /\ c \in Chats /\ p \in PagesOf(a, c)
        /\ m \in Messages /\ b \in Seq(Pages) /\ Len(b) = Len(a)
        /\ M[c] = L[c] \cup {m} /\ \A d \in Chats : d # c => M[d] = L[d]
    BY <1>2, <1>3, <1>4, <1>10
  <2> QED
    BY ONLY <2>1, <1>13, <1>14, <1>15, AddTidy
<1> QED
  BY <1>1, <1>2, <1>10, <1>12, <1>16 DEF Writing

\* A message on a new page behind the last one.
LEMMA PutThere ==
  ASSUME NEW s, s.page \in Seq(Pages), NEW c \in Chats, NEW L, NEW k, NEW t, Writing(s, c, L, k, t),
         NEW m \in Messages, \A d \in Chats : m \notin L[d],
         NEW M, M[c] = L[c] \cup {m}, \A d \in Chats : d # c => M[d] = L[d],
         NEW p, p = NewPage(t), NEW v, v = AllocFor(t, c),
         NEW u, u = [v EXCEPT !.page[t.tips[c].tail].next = p, !.page[p].msgs = <<m>>, !.tips[c].tail = p]
  PROVE  Writing(s, c, M, k, u)
<1>1. PICK ts, tail : ts = t.tips /\ tail = ts[c].tail
  OBVIOUS
<1>2. /\ t \in Stores /\ Len(s.page) <= Len(t.page)
      /\ Tidy(t.page, t.free, ts, {}) /\ Holds(t.page, L)
      /\ tail # 0 /\ ts[c].count = k /\ ts \in [Chats -> Tips]
      /\ \A d \in Chats : d # c => ts[d] = s.tips[d]
  BY <1>1 DEF Writing, Stores
<1>3. PICK a, f : a = v.page /\ f = v.free
  OBVIOUS
<1>4. /\ v \in Stores /\ v.tips = ts /\ Len(t.page) <= Len(a)
      /\ Tidy(a, f, ts, {p}) /\ Holds(a, L)
      /\ p \in PagesOf(a, c) /\ a[p].msgs = <<>>
  <2>1. t \in Stores /\ c \in Chats /\ Tidy(t.page, t.free, ts, {}) /\ Holds(t.page, L)
        /\ v = AllocFor(t, c) /\ p = NewPage(t)
    BY <1>2
  <2>2. /\ t.free = 0 \/ t.free \in DOMAIN t.page
        /\ v \in Stores /\ v.tips = t.tips /\ Len(t.page) <= Len(v.page)
        /\ Tidy(v.page, v.free, ts, {p}) /\ Holds(v.page, L)
        /\ p \in PagesOf(v.page, c) /\ v.page[p].msgs = <<>>
    <3>1. v \in Stores
      BY ONLY <2>1, AllocTidy
    <3>2. v.tips = t.tips
      BY ONLY <2>1, AllocTidy
    <3>3. Tidy(v.page, v.free, ts, {p})
      BY ONLY <2>1, AllocTidy
    <3>4. Holds(v.page, L)
      BY ONLY <2>1, AllocTidy
    <3>5. p \in PagesOf(v.page, c)
      BY ONLY <2>1, AllocTidy
    <3>6. v.page[p].msgs = <<>>
      BY ONLY <2>1, AllocTidy
    <3>7. Len(t.page) <= Len(v.page)
      BY ONLY <2>1, AllocTidy
    <3>8. t.free = 0 \/ t.free \in DOMAIN t.page
      BY ONLY <2>1, AllocTidy
    <3> QED
      BY <3>1, <3>2, <3>3, <3>4, <3>5, <3>6, <3>7, <3>8
  <2> QED
    BY <1>1, <1>3, <2>2
<1>5. a \in Seq(Pages) /\ f \in Nat /\ t.page \in Seq(Pages)
  BY <1>2, <1>3, <1>4 DEF Stores
<1>6. /\ DOMAIN a = 1..Len(a) /\ Len(a) \in Nat /\ DOMAIN a \subseteq Nat \ {0} /\ \A q \in DOMAIN a : a[q] \in Pages
      /\ PagesOf(a, c) \subseteq DOMAIN a
  BY <1>5, PagesAre
<1>7. /\ tail \in PagesOf(a, c) \ {p} /\ ts[c].head \in PagesOf(a, c) \ {p}
  BY <1>1, <1>2, <1>4, TailIs
<1>8. p \in DOMAIN a /\ tail \in DOMAIN a /\ tail # p /\ p \in Nat /\ ts[c].head # 0
  BY <1>4, <1>6, <1>7
\* The link.
<1>9. PICK a2 : a2 = [a EXCEPT ![tail].next = p]
  OBVIOUS
<1>10. /\ a2 \in Seq(Pages) /\ Len(a2) = Len(a) /\ DOMAIN a2 = DOMAIN a
       /\ \A q \in DOMAIN a : a2[q] = IF q = tail THEN [type |-> a[q].type, chat |-> a[q].chat, next |-> p, msgs |-> a[q].msgs]
                                      ELSE a[q]
  BY <1>5, <1>8, <1>9, NextIs
<1>11. Alike(a, a2) /\ \A q \in DOMAIN a : a2[q].next = IF q = tail THEN p ELSE a[q].next
  BY <1>10 DEF Alike
<1>12. PICK x : x = [ts[c] EXCEPT !.tail = p]
  OBVIOUS
<1>13. x \in Tips /\ x.head = ts[c].head /\ x.tail = p /\ x.count = k
  <2>1. ts[c] \in Tips
    BY <1>2
  <2>2. x = [head |-> ts[c].head, tail |-> p, count |-> ts[c].count]
    BY <1>12, <2>1 DEF Tips
  <2> QED
    BY <1>2, <1>8, <2>1, <2>2 DEF Tips
<1>14. PICK us : us = [ts EXCEPT ![c] = x]
  OBVIOUS
<1>15. us \in [Chats -> Tips] /\ us[c] = x /\ \A d \in Chats : d # c => us[d] = ts[d]
  BY <1>2, <1>13, <1>14
<1>16. Tidy(a2, f, us, {})
  <2>1. /\ Tidy(a, f, ts, {p}) /\ p \in PagesOf(a, c) /\ a \in Seq(Pages) /\ a2 \in Seq(Pages) /\ Alike(a, a2)
    BY <1>4, <1>5, <1>10, <1>11
  <2>2. c \in Chats /\ LinkedTo(a, ts[c].tail, p, a2)
    BY <1>1, <1>11 DEF LinkedTo
  <2>3. Moved(ts, c, p, us)
    BY <1>8, <1>13, <1>15 DEF Moved
  <2> QED
    BY ONLY <2>1, <2>2, <2>3, LinkTidy
<1>17. Holds(a2, L) /\ \A d : PagesOf(a2, d) = PagesOf(a, d)
  BY <1>4, <1>5, <1>10, <1>11, AlikeIs
\* The message.
<1>18. PICK n : n = [a2[p] EXCEPT !.msgs = <<m>>]
  OBVIOUS
<1>19. a2[p] = a[p] /\ a2[p] \in Pages /\ a2[p].msgs = <<>>
  BY <1>4, <1>6, <1>8, <1>10
<1>20. n \in Pages /\ n.type = a2[p].type /\ n.chat = a2[p].chat /\ n.next = a2[p].next /\ n.msgs = <<m>>
  <2>1. <<m>> \in Seq(Messages)
    OBVIOUS
  <2>2. n = [type |-> a2[p].type, chat |-> a2[p].chat, next |-> a2[p].next, msgs |-> <<m>>] /\ n \in Pages
    BY <1>18, <1>19, <2>1, SetMsgs
  <2> QED
    BY <2>2
<1>21. PICK b : b = [a2 EXCEPT ![p] = n]
  OBVIOUS
<1>22. b \in Seq(Pages) /\ Len(b) = Len(a2) /\ DOMAIN b = DOMAIN a2 /\ \A i \in DOMAIN a2 : b[i] = IF i = p THEN n ELSE a2[i]
  <2>1. a2 \in Seq(Pages) /\ n \in Pages
    BY <1>10, <1>20
  <2> QED
    BY ONLY <2>1, <1>21, ReplaceIs
<1>23. \A q \in DOMAIN a2 : m \notin ToSet(a2[q].msgs)
  BY <1>10, <1>16, <1>17, AbsentIs
<1>24. \A q \in DOMAIN a2 : b[q].type = a2[q].type /\ b[q].chat = a2[q].chat /\ b[q].next = a2[q].next
  BY <1>20, <1>22
<1>25. \A q \in DOMAIN a2 : b[q].msgs = IF q = p THEN Append(a2[q].msgs, m) ELSE a2[q].msgs
  <2>1. Append(<<>>, m) = <<m>>
    OBVIOUS
  <2> QED
    BY <1>19, <1>20, <1>22, <2>1
<1>26. p \in PagesOf(a2, c) /\ Len(b) = Len(a2)
  BY <1>4, <1>17, <1>22
<1>27. Tidy(b, f, us, {}) /\ Holds(b, M)
  <2>1. /\ a2 \in Seq(Pages) /\ Tidy(a2, f, us, {}) /\ Holds(a2, L) /\ c \in Chats /\ p \in PagesOf(a2, c)
        /\ m \in Messages /\ b \in Seq(Pages) /\ Len(b) = Len(a2)
        /\ M[c] = L[c] \cup {m} /\ \A d \in Chats : d # c => M[d] = L[d]
    BY <1>10, <1>16, <1>17, <1>22, <1>26
  <2> QED
    BY ONLY <2>1, <1>23, <1>24, <1>25, AddTidy
\* The store.
<1>28. u = [page |-> b, free |-> f, tips |-> us]
  <2>1. v = [page |-> a, free |-> f, tips |-> ts]
    BY <1>3, <1>4 DEF Stores
  <2>2. u = [v EXCEPT !.page[tail].next = p, !.page[p].msgs = <<m>>, !.tips[c].tail = p]
    BY <1>1
  <2>3. u = [[[v EXCEPT !.page[tail].next = p] EXCEPT !.page[p].msgs = <<m>>] EXCEPT !.tips[c].tail = p]
    BY <2>2
  <2>4. [v EXCEPT !.page[tail].next = p] = [page |-> a2, free |-> f, tips |-> ts]
    BY <1>9, <2>1
  <2>5. [[page |-> a2, free |-> f, tips |-> ts] EXCEPT !.page[p].msgs = <<m>>] = [page |-> b, free |-> f, tips |-> ts]
    BY <1>18, <1>21
  <2>6. [[page |-> b, free |-> f, tips |-> ts] EXCEPT !.tips[c].tail = p] = [page |-> b, free |-> f, tips |-> us]
    BY <1>12, <1>14
  <2> QED
    BY <2>3, <2>4, <2>5, <2>6
<1>29. u \in Stores /\ u.page = b /\ u.tips = us /\ u.free = f
  <2>1. u.page = b /\ u.tips = us /\ u.free = f
    BY ONLY <1>28
  <2>2. u \in Stores
    BY ONLY <1>5, <1>15, <1>22, <1>28 DEF Stores
  <2> QED
    BY <2>1, <2>2
<1>30. Len(s.page) <= Len(u.page)
  <2>1. Len(s.page) \in Nat /\ Len(t.page) \in Nat /\ Len(a) \in Nat
    BY <1>5
  <2>2. Len(u.page) = Len(a)
    BY <1>10, <1>22, <1>29
  <2> QED
    BY <1>2, <1>4, <2>1, <2>2
<1> QED
  <2>0. p # 0
    BY <1>6, <1>8
  <2>1. Tidy(u.page, u.free, u.tips, {}) /\ Holds(u.page, M)
    BY <1>27, <1>29
  <2>2. u.tips[c].tail # 0 /\ u.tips[c].count = k
    BY <1>13, <1>15, <1>29, <2>0
  <2>3. \A d \in Chats : d # c => u.tips[d] = s.tips[d]
    BY <1>2, <1>15, <1>29
  <2> QED
    BY ONLY <1>29, <1>30, <2>1, <2>2, <2>3 DEF Writing

LEMMA PutIs ==
  ASSUME NEW s, s.page \in Seq(Pages), NEW c \in Chats, NEW L, NEW k, NEW t, Writing(s, c, L, k, t),
         NEW m \in Messages, \A d \in Chats : m \notin L[d],
         NEW M, M[c] = L[c] \cup {m}, \A d \in Chats : d # c => M[d] = L[d]
  PROVE  Writing(s, c, M, k, Put(t, c, m))
<1>1. CASE ~IsFull(t.page[t.tips[c].tail])
  BY <1>1, PutHere
<1>2. CASE IsFull(t.page[t.tips[c].tail])
  BY <1>2, PutThere DEF Put
<1> QED
  BY <1>1, <1>2

\* The function that Rewrite defines, up to k.
WrittenUpTo(start, c, msgs, written, k) ==
    written = [n \in 0..k |-> IF n = 0 THEN start ELSE Put(written[n - 1], c, msgs[n])]

LEMMA WrittenExists ==
  ASSUME NEW start, NEW c, NEW msgs, NEW k \in Nat
  PROVE  \E written : WrittenUpTo(start, c, msgs, written, k)
<1> DEFINE Without == {n \in Nat : ~ \E written : WrittenUpTo(start, c, msgs, written, n)}
<1> SUFFICES ASSUME Without # {} PROVE FALSE
  OBVIOUS
<1>1. PICK n \in Without : \A i \in Without : n <= i
  BY LeastNumber
<1>2. n # 0
  <2>1. WrittenUpTo(start, c, msgs, [i \in {0} |-> start], 0)
    <3>1. 0..0 = {0}
      OBVIOUS
    <3>2. [i \in {0} |-> start] =
             [i \in {0} |-> IF i = 0 THEN start ELSE Put([j \in {0} |-> start][i - 1], c, msgs[i])]
      OBVIOUS
    <3> QED
      BY <3>1, <3>2 DEF WrittenUpTo
  <2> QED
    BY <2>1
<1>3. PICK written : WrittenUpTo(start, c, msgs, written, n - 1)
  BY <1>1, <1>2
<1> DEFINE more == [i \in 0..n |-> IF i < n THEN written[i] ELSE Put(written[i - 1], c, msgs[i])]
<1>4. WrittenUpTo(start, c, msgs, more, n)
  <2>1. \A i \in 0..n : (i < n => i \in 0..(n - 1)) /\ (i # 0 => i - 1 \in 0..n /\ i - 1 < n)
    BY <1>1
  <2>2. \A i \in 0..(n - 1) : written[i] = IF i = 0 THEN start ELSE Put(written[i - 1], c, msgs[i])
    BY <1>3 DEF WrittenUpTo
  <2>3. \A i \in 0..n : more[i] = IF i = 0 THEN start ELSE Put(more[i - 1], c, msgs[i])
    BY <1>1, <1>2, <2>1, <2>2
  <2> QED
    BY <2>3 DEF WrittenUpTo
<1> QED
  BY <1>1, <1>4

\* Rewrite's first page.
Started(s, c, k) ==
    [AllocFor(s, c) EXCEPT !.tips[c] = [head |-> NewPage(s), tail |-> NewPage(s), count |-> k]]

LEMMA StartIs ==
  ASSUME NEW s \in Stores, NEW c \in Chats, NEW ts, ts[c].head = 0, ts[c].tail = 0,
         \A d \in Chats : d # c => ts[d] = s.tips[d],
         Tidy(s.page, s.free, ts, {}), NEW K, Holds(s.page, K), NEW k \in Nat
  PROVE  Writing(s, c, K, k, Started(s, c, k))
<1>1. PICK v, p, u : v = AllocFor(s, c) /\ p = NewPage(s) /\ u = Started(s, c, k)
  OBVIOUS
<1>2. v \in Stores
  BY <1>1, AllocTidy
<1>3. v.tips = s.tips
  BY <1>1, AllocTidy
<1>4. Len(s.page) <= Len(v.page)
  BY <1>1, AllocTidy
<1>5. Tidy(v.page, v.free, ts, {p})
  BY <1>1, AllocTidy
<1>6. Holds(v.page, K)
  BY <1>1, AllocTidy
<1>7. p \in PagesOf(v.page, c)
  BY <1>1, AllocTidy
<1>8. PICK a, f : a = v.page /\ f = v.free
  OBVIOUS
<1>9. a \in Seq(Pages) /\ f \in Nat /\ s.tips \in [Chats -> Tips]
  BY <1>2, <1>8 DEF Stores
<1>10. p \in Nat \ {0} /\ DOMAIN a \subseteq Nat \ {0}
  BY <1>7, <1>8, <1>9, PagesAre
<1>11. PICK x : x = [head |-> p, tail |-> p, count |-> k]
  OBVIOUS
<1>12. x \in Tips /\ x.head = p /\ x.tail = p /\ x.count = k
  BY <1>10, <1>11 DEF Tips
<1>13. PICK us : us = [s.tips EXCEPT ![c] = x]
  OBVIOUS
<1>14. us \in [Chats -> Tips] /\ us[c] = x /\ \A d \in Chats : d # c => us[d] = s.tips[d]
  BY <1>9, <1>12, <1>13
<1>15. Moved(ts, c, p, us)
  BY <1>12, <1>14 DEF Moved
<1>16. LinkedTo(a, ts[c].tail, p, a) /\ Alike(a, a)
  BY <1>10 DEF LinkedTo, Alike
<1>17. Tidy(a, f, us, {})
  <2>1. a \in Seq(Pages) /\ Tidy(a, f, ts, {p}) /\ c \in Chats /\ p \in PagesOf(a, c)
    BY <1>5, <1>7, <1>8, <1>9
  <2> QED
    BY ONLY <2>1, <1>15, <1>16, LinkTidy
<1>18. u = [page |-> a, free |-> f, tips |-> us]
  <2>1. v = [page |-> a, free |-> f, tips |-> s.tips]
    BY <1>2, <1>3, <1>8 DEF Stores
  <2>2. u = [v EXCEPT !.tips[c] = x]
    BY <1>1, <1>11 DEF Started
  <2>3. u = [v EXCEPT !.tips = us]
    BY ONLY <2>1, <2>2, <1>13
  <2> QED
    BY ONLY <2>1, <2>3
<1>19. u \in Stores
  BY ONLY <1>9, <1>14, <1>18 DEF Stores
<1>20. u.page = a /\ u.tips = us /\ u.free = f
  BY ONLY <1>18
<1>21. Writing(s, c, K, k, u)
  <2>1. Tidy(u.page, u.free, u.tips, {}) /\ Holds(u.page, K) /\ Len(s.page) <= Len(u.page)
    BY <1>4, <1>6, <1>8, <1>17, <1>20
  <2>2. u.tips[c].tail # 0 /\ u.tips[c].count = k
    BY <1>10, <1>12, <1>14, <1>20
  <2>3. \A d \in Chats : d # c => u.tips[d] = s.tips[d]
    BY <1>14, <1>20
  <2> QED
    BY ONLY <1>19, <2>1, <2>2, <2>3 DEF Writing
<1> QED
  BY <1>1, <1>21

\* No chat holds one of these messages.
Apart(K, msgs) == \A d \in Chats : K[d] \cap ToSet(msgs) = {}

\* The chat c counts k messages, and the others have their tips.
Counts(us, c, k, ts) == us[c].count = k /\ \A d \in Chats : d # c => us[d] = ts[d]

\* Rewrite leaves the chat with these messages, and the others as they were.
LEMMA RewriteTidy ==
  ASSUME NEW s \in Stores, NEW c \in Chats, NEW ts, Unchained(ts, c, s.tips),
         Tidy(s.page, s.free, ts, {}), NEW K, Holds(s.page, K), K[c] = {},
         NEW msgs \in Seq(Messages), Distinct(msgs), Apart(K, msgs), NEW L, HoldsNow(L, c, ToSet(msgs), K),
         NEW u, u = Rewrite(s, c, msgs)
  PROVE  /\ u \in Stores /\ Len(s.page) <= Len(u.page)
         /\ Tidy(u.page, u.free, u.tips, {}) /\ Holds(u.page, L)
         /\ Counts(u.tips, c, Len(msgs), s.tips)
<1>0. /\ ts[c].head = 0 /\ ts[c].tail = 0 /\ \A d \in Chats : d # c => ts[d] = s.tips[d]
      /\ \A d \in Chats : K[d] \cap ToSet(msgs) = {}
      /\ L[c] = ToSet(msgs) /\ \A d \in Chats : d # c => L[d] = K[d]
  BY DEF Unchained, Apart, HoldsNow
<1>1. /\ s.page \in Seq(Pages) /\ s.free \in Nat /\ s.tips \in [Chats -> Tips] /\ Len(s.page) \in Nat
      /\ DOMAIN msgs = 1..Len(msgs) /\ Len(msgs) \in Nat /\ \A i \in 1..Len(msgs) : msgs[i] \in Messages
  BY DEF Stores
<1>2. CASE msgs = <<>>
  <2>1. u = [s EXCEPT !.tips[c] = NoTip]
    BY <1>2 DEF Rewrite
  <2>2. PICK us : us = [s.tips EXCEPT ![c] = NoTip]
    OBVIOUS
  <2>3. NoTip \in Tips /\ NoTip.head = 0 /\ NoTip.tail = 0 /\ NoTip.count = 0
    BY DEF NoTip, Tips
  <2>4. us \in [Chats -> Tips] /\ us[c] = NoTip /\ \A d \in Chats : d # c => us[d] = s.tips[d]
    BY <1>1, <2>2, <2>3
  <2>5. u = [page |-> s.page, free |-> s.free, tips |-> us]
    BY <2>1, <2>2 DEF Stores
  <2>6. u \in Stores
    BY ONLY <1>1, <2>4, <2>5 DEF Stores
  <2>7. u.page = s.page /\ u.free = s.free /\ u.tips = us
    BY ONLY <2>5
  <2>8. Tidy(s.page, s.free, us, {})
    <3>1. \A d \in Chats : IsChain(s.page, us[d], PagesOf(s.page, d) \ {})
      <4> SUFFICES ASSUME NEW d \in Chats PROVE IsChain(s.page, us[d], PagesOf(s.page, d) \ {})
        OBVIOUS
      <4>1. us[d].head = ts[d].head /\ us[d].tail = ts[d].tail
        BY <1>0, <2>3, <2>4
      <4>2. IsChain(s.page, ts[d], PagesOf(s.page, d) \ {})
        BY DEF Tidy
      <4> QED
        BY <4>1, <4>2 DEF IsChain
    <3> QED
      BY <3>1 DEF Tidy
  <2>9. Holds(s.page, L)
    <3>1. ToSet(msgs) = {}
      BY <1>2 DEF ToSet
    <3>2. \A d \in Chats : L[d] = K[d]
      BY <1>0, <3>1
    <3> QED
      BY <3>2 DEF Holds
  <2> QED
    BY <1>1, <1>2, <2>3, <2>4, <2>6, <2>7, <2>8, <2>9 DEF Counts
<1>3. CASE msgs # <<>>
  <2> DEFINE k == Len(msgs)
             start == Started(s, c, k)
             written == CHOOSE w : WrittenUpTo(start, c, msgs, w, k)
  <2>1. WrittenUpTo(start, c, msgs, written, k)
    BY <1>1, WrittenExists
  <2>2. u = written[k]
    BY <1>3 DEF Rewrite, WrittenUpTo, Put, Started
  <2> HIDE DEF written
  <2>3. \A n \in 0..k : written[n] = IF n = 0 THEN start ELSE Put(written[n - 1], c, msgs[n])
    BY <2>1 DEF WrittenUpTo
  <2>4. Writing(s, c, K, k, start)
    BY <1>0, <1>1, StartIs
  <2> HIDE DEF start
  <2> DEFINE L0(n) == [d \in Chats |-> IF d = c THEN {msgs[i] : i \in 1..n} ELSE K[d]]
             Bad == {n \in 0..k : ~Writing(s, c, L0(n), k, written[n])}
  <2>5. Bad = {}
    <3> SUFFICES ASSUME Bad # {} PROVE FALSE
      OBVIOUS
    <3>1. Bad \subseteq Nat
      BY <1>1
    <3>2. PICK n \in Bad : \A i \in Bad : n <= i
      <4> HIDE DEF Bad
      <4> QED
        BY <3>1, LeastNumber
    <3>3. CASE n = 0
      <4>1. \A d \in Chats : L0(0)[d] = K[d]
        <5>1. {msgs[i] : i \in 1..0} = {}
          OBVIOUS
        <5> QED
          BY <5>1
      <4>2. PICK M : M = L0(0)
        OBVIOUS
      <4>3. Holds(s.page, M)
        BY <4>1, <4>2 DEF Holds
      <4>4. Writing(s, c, M, k, start)
        <5>1. \A a : Holds(a, K) => Holds(a, M)
          BY <4>1, <4>2 DEF Holds
        <5> QED
          BY <2>4, <5>1 DEF Writing
      <4>5. written[0] = start
        BY <1>1, <2>3
      <4> QED
        BY <3>2, <3>3, <4>2, <4>4, <4>5
    <3>4. CASE n # 0
      <4>1. n \in 1..k /\ n - 1 \in 0..k /\ ~(n <= n - 1)
        BY <1>1, <3>2, <3>4
      <4>2. written[n] = Put(written[n - 1], c, msgs[n]) /\ Writing(s, c, L0(n - 1), k, written[n - 1])
        BY <2>3, <3>2, <3>4, <4>1
      <4>3. PICK A, B, m, t : A = L0(n - 1) /\ B = L0(n) /\ m = msgs[n] /\ t = written[n - 1]
        OBVIOUS
      <4>4. m \in Messages
        BY <1>1, <4>1, <4>3
      <4>5. B[c] = A[c] \cup {m} /\ \A d \in Chats : d # c => B[d] = A[d]
        <5>1. \A i : i \in 1..n <=> i \in 1..(n - 1) \/ i = n
          BY <1>1, <4>1
        <5>2. B[c] = {msgs[i] : i \in 1..n} /\ A[c] = {msgs[i] : i \in 1..(n - 1)}
          BY <4>3
        <5>3. B[c] = A[c] \cup {m}
          BY <4>3, <5>1, <5>2
        <5>4. \A d \in Chats : d # c => B[d] = A[d]
          BY <4>3
        <5> QED
          BY <5>3, <5>4
      <4>6. \A d \in Chats : m \notin A[d]
        <5>1. m \in ToSet(msgs)
          BY <1>1, <4>1, <4>3 DEF ToSet
        <5>2. \A d \in Chats : d # c => m \notin A[d]
          BY <1>0, <4>3, <5>1
        <5>3. \A i \in 1..(n - 1) : i \in DOMAIN msgs /\ n \in DOMAIN msgs /\ i # n
          BY <1>1, <4>1
        <5>4. \A i \in 1..(n - 1) : msgs[i] # m
          BY <4>3, <5>3 DEF Distinct
        <5>5. m \notin A[c]
          BY <4>3, <5>4
        <5> QED
          BY <5>2, <5>5
      <4>7. Writing(s, c, B, k, Put(t, c, m))
        <5>1. s.page \in Seq(Pages) /\ c \in Chats /\ Writing(s, c, A, k, t)
          BY <1>1, <4>2, <4>3
        <5> QED
          BY ONLY <5>1, <4>4, <4>5, <4>6, PutIs
      <4> QED
        BY <3>2, <4>2, <4>3, <4>7
    <3> QED
      BY <3>3, <3>4
  <2>6. Writing(s, c, L0(k), k, u)
    <3>1. k \in 0..k
      BY <1>1
    <3> QED
      BY <2>2, <2>5, <3>1
  <2>7. \A d \in Chats : L0(k)[d] = L[d]
    <3>1. ToSet(msgs) = {msgs[i] : i \in 1..k}
      BY <1>1 DEF ToSet
    <3> QED
      BY <1>0, <3>1
  <2>8. PICK M : M = L0(k)
    OBVIOUS
  <2>9. Writing(s, c, M, k, u) /\ \A d \in Chats : M[d] = L[d]
    BY <2>6, <2>7, <2>8
  <2>10. Holds(u.page, L)
    BY <2>9 DEF Writing, Holds
  <2> QED
    BY <2>9, <2>10 DEF Writing, Counts
<1> QED
  BY <1>2, <1>3

(* What open finds in a heap without faults.                                *)

\* Any chain the heap had, its pages in the order of their numbers are one too.
LEMMA RelinkedTidy ==
  ASSUME NEW a \in Seq(Pages), NEW f, NEW ts, Tidy(a, f, ts, {}), NEW K, Holds(a, K),
         NEW b, b = Relinked(a), NEW us, us = [c \in Chats |-> TipOf(a, c)]
  PROVE  Tidy(b, f, us, {}) /\ Holds(b, K)
<1>1. /\ DOMAIN a = 1..Len(a) /\ Len(a) \in Nat /\ DOMAIN a \subseteq Nat \ {0}
      /\ FreePages(a) \subseteq DOMAIN a
      /\ \A c : PagesOf(a, c) \subseteq DOMAIN a /\ PagesOf(a, c) \subseteq Nat \ {0}
  BY PagesAre
<1>2. /\ b \in Seq(Pages) /\ Len(b) = Len(a)
      /\ \A p \in DOMAIN a :
            /\ b[p].type = a[p].type /\ b[p].chat = a[p].chat /\ b[p].msgs = a[p].msgs
            /\ a[p].type # "chat" => b[p] = a[p]
  BY RelinkedIs
<1>3. Alike(a, b)
  BY <1>2 DEF Alike
<1>4. DOMAIN b = DOMAIN a /\ FreePages(b) = FreePages(a) /\ \A c : PagesOf(b, c) = PagesOf(a, c)
  BY <1>2, <1>3, AlikeIs
<1>5. Holds(b, K)
  BY <1>2, <1>3, AlikeIs
<1>6. IsList(b, f, FreePages(b))
  <2>1. \A p \in FreePages(a) : b[p].next = a[p].next
    BY <1>2 DEF FreePages
  <2>2. IsList(a, f, FreePages(a))
    BY DEF Tidy
  <2> QED
    BY <1>4, <2>1, <2>2, ListStays
<1>7. \A p \in DOMAIN b : IF b[p].type = "free" THEN b[p].msgs = <<>> ELSE b[p].chat \in Chats
  BY <1>2, <1>4 DEF Tidy
<1>8. ASSUME NEW c \in Chats PROVE IsChain(b, us[c], PagesOf(b, c) \ {})
  <2>1. PICK S : S = PagesOf(a, c)
    OBVIOUS
  <2>2. S \subseteq DOMAIN a /\ S \subseteq Nat \ {0} /\ S \subseteq 0..Len(a) /\ PagesOf(b, c) \ {} = S
    BY <1>1, <1>4, <2>1
  <2>3. \A p \in S : b[p].next = IF {q \in S : q > p} = {} THEN 0 ELSE Min({q \in S : q > p})
    <3> SUFFICES ASSUME NEW p \in S
                 PROVE  b[p].next = IF {q \in S : q > p} = {} THEN 0 ELSE Min({q \in S : q > p})
      OBVIOUS
    <3>1. a[p].type = "chat" /\ a[p].chat = c /\ p \in DOMAIN a
      BY <2>1 DEF PagesOf
    <3>2. PICK later : later = {q \in S : q > p}
      OBVIOUS
    <3>3. PICK n : n = IF later = {} THEN 0 ELSE Min(later)
      OBVIOUS
    <3>4. b[p] = [a[p] EXCEPT !.next = n]
      BY <2>1, <3>1, <3>2, <3>3 DEF Relinked
    <3>5. b[p].next = n
      <4>1. a[p] \in Pages
        BY <3>1
      <4> QED
        BY <3>4, <4>1 DEF Pages
    <3> QED
      BY <3>2, <3>3, <3>5
  <2>4. us[c] = TipOf(a, c)
    OBVIOUS
  <2>5. CASE S = {}
    <3>1. us[c].head = 0 /\ us[c].tail = 0
      BY <2>1, <2>4, <2>5 DEF TipOf, NoTip
    <3>2. IsList(b, 0, {})
      <4>1. PICK r : r = [x \in {} |-> 0]
        OBVIOUS
      <4>2. r \in [{} -> Nat]
        BY <4>1
      <4> QED
        BY <4>2 DEF IsList
    <3> QED
      BY <2>2, <2>5, <3>1, <3>2 DEF IsChain
  <2>6. CASE S # {}
    <3>1. us[c].head = Min(S) /\ us[c].tail = Max(S)
      BY <2>1, <2>4, <2>6 DEF TipOf
    <3>2. Min(S) \in S /\ \A y \in S : Min(S) <= y
      BY <2>2, <2>6, MinIs
    <3>3. Max(S) \in S /\ \A y \in S : Max(S) >= y
      BY <1>1, <2>2, <2>6, MaxIs
    <3>4. ASSUME NEW p \in S, b[p].next # 0
          PROVE  b[p].next \in S /\ p < b[p].next /\ \A q \in S : q > p => b[p].next <= q
      <4>1. PICK later : later = {q \in S : q > p}
        OBVIOUS
      <4>2. later # {} /\ b[p].next = Min(later)
        BY <2>3, <3>4, <4>1
      <4>3. later \subseteq Nat
        BY <2>2, <4>1
      <4>4. Min(later) \in later /\ \A y \in later : Min(later) <= y
        BY <4>2, <4>3, MinIs
      <4> QED
        BY <4>1, <4>2, <4>4
    <3>5. \A p \in S : b[p].next \in S \cup {0}
      BY <3>4
    <3>6. b[Max(S)].next = 0
      <4>1. Max(S) \in Nat /\ \A q \in S : q \in Nat /\ ~ (q > Max(S))
        BY <2>2, <3>3
      <4>2. {q \in S : q > Max(S)} = {}
        BY <4>1
      <4> QED
        BY <2>3, <3>3, <4>2
    <3>7. ASSUME NEW q \in S, q # Min(S) PROVE \E p \in S : b[p].next = q
      <4> DEFINE before == {x \in S : x < q}
      <4>1. Min(S) \in before
        BY <2>2, <3>2, <3>7
      <4>2. before \subseteq 0..Len(a) /\ before \subseteq S
        BY <2>2
      <4>3. PICK p \in before : \A y \in before : p >= y
        <5> HIDE DEF before
        <5> QED
          BY <1>1, <4>1, <4>2, MaxIs
      <4>4. p \in S /\ p < q /\ p \in Nat /\ q \in Nat
        BY <2>2, <4>3
      <4>5. b[p].next # 0
        <5>1. q \in {x \in S : x > p}
          BY <4>4
        <5>2. PICK later : later = {x \in S : x > p}
          OBVIOUS
        <5>3. later # {} /\ later \subseteq Nat \ {0}
          BY <2>2, <5>1, <5>2
        <5>4. Min(later) \in later
          BY <5>3, MinIs
        <5>5. b[p].next = Min(later)
          BY <2>3, <4>4, <5>2, <5>3
        <5> QED
          BY <5>3, <5>4, <5>5
      <4>6. PICK n : n = b[p].next
        OBVIOUS
      <4>7. n \in S /\ p < n /\ n <= q /\ n \in Nat
        BY <2>2, <3>4, <4>4, <4>5, <4>6
      <4>8. ~ (n < q)
        <5>1. n < q => n \in before
          BY <4>7
        <5>2. n \in before => n <= p
          BY <4>3, <4>4, <4>7
        <5> QED
          BY <4>4, <4>7, <5>1, <5>2
      <4>9. n = q
        BY <4>4, <4>7, <4>8
      <4> QED
        BY <4>4, <4>6, <4>9
    <3>8. PICK r : r = [p \in S |-> p]
      OBVIOUS
    <3>9. r \in [S -> Nat] /\ \A p \in S : b[p].next # 0 => r[p] < r[b[p].next]
      <4>1. r \in [S -> Nat] /\ \A p \in S : r[p] = p
        BY <2>2, <3>8
      <4> QED
        BY <3>4, <4>1
    <3>10. IsList(b, Min(S), S)
      BY <2>6, <3>2, <3>5, <3>7, <3>9 DEF IsList
    <3> QED
      BY <2>2, <2>6, <3>1, <3>3, <3>6, <3>10 DEF IsChain
  <2> QED
    BY <2>5, <2>6
<1> QED
  BY <1>5, <1>6, <1>7, <1>8 DEF Tidy

\* Every slot of a chat's pages holds one of its messages.
LEMMA CountIs ==
  ASSUME NEW a \in Seq(Pages), NEW K, Holds(a, K), NEW c \in Chats, K[c] \subseteq Messages
  PROVE  TipOf(a, c).count = Cardinality(K[c])
<1> DEFINE S == PagesOf(a, c)
           slots == UNION {{p} \X DOMAIN a[p].msgs : p \in S}
           g == [x \in slots |-> a[x[1]].msgs[x[2]]]
<1>1. /\ S \subseteq DOMAIN a /\ \A p \in DOMAIN a : a[p].msgs \in Seq(Messages)
  BY PagesAre
<1>2. /\ \A p \in DOMAIN a : Distinct(a[p].msgs)
      /\ \A p, q \in DOMAIN a : p = q \/ ToSet(a[p].msgs) \cap ToSet(a[q].msgs) = {}
      /\ \A m \in Messages : m \in K[c] <=> \E p \in S : m \in ToSet(a[p].msgs)
  BY DEF Holds, OnPage
<1> HIDE DEF S
<1>3. \A p, i : <<p, i>> \in slots <=> p \in S /\ i \in DOMAIN a[p].msgs
  OBVIOUS
<1>4. \A x \in slots : \E p \in S : \E i \in DOMAIN a[p].msgs : x = <<p, i>>
  OBVIOUS
<1> HIDE DEF slots
<1>5. \A p \in S : \A i \in DOMAIN a[p].msgs : g[<<p, i>>] = a[p].msgs[i]
  BY <1>3
<1>6. \A x \in slots : g[x] \in K[c]
  <2> SUFFICES ASSUME NEW p \in S, NEW i \in DOMAIN a[p].msgs PROVE a[p].msgs[i] \in K[c]
    BY <1>4, <1>5
  <2>1. a[p].msgs[i] \in ToSet(a[p].msgs) /\ a[p].msgs[i] \in Messages
    BY <1>1 DEF ToSet
  <2> QED
    BY <1>2, <2>1
<1>7. \A m \in K[c] : \E x \in slots : g[x] = m
  <2> SUFFICES ASSUME NEW m \in K[c] PROVE \E x \in slots : g[x] = m
    OBVIOUS
  <2>1. PICK p \in S : m \in ToSet(a[p].msgs)
    BY <1>2
  <2>2. PICK i \in DOMAIN a[p].msgs : a[p].msgs[i] = m
    BY <2>1 DEF ToSet
  <2> QED
    BY <1>3, <1>5, <2>2
<1>8. \A x, y \in slots : g[x] = g[y] => x = y
  <2> SUFFICES ASSUME NEW p \in S, NEW i \in DOMAIN a[p].msgs, NEW q \in S, NEW j \in DOMAIN a[q].msgs,
                      a[p].msgs[i] = a[q].msgs[j]
               PROVE  p = q /\ i = j
    BY <1>4, <1>5
  <2>1. a[p].msgs[i] \in ToSet(a[p].msgs) /\ a[q].msgs[j] \in ToSet(a[q].msgs)
    BY DEF ToSet
  <2>2. p = q
    BY <1>1, <1>2, <2>1
  <2> QED
    BY <1>1, <1>2, <2>2 DEF Distinct
<1>9. g \in Bijection(slots, K[c])
  <2>1. g \in [slots -> K[c]]
    BY <1>6
  <2> HIDE DEF g
  <2> QED
    BY <1>7, <1>8, <2>1 DEF Bijection, Injection, Surjection, IsInjective
<1>10. IsFiniteSet(slots)
  BY <1>1, SlotsFinite DEF slots
<1>11. Cardinality(slots) = Cardinality(K[c])
  BY <1>9, <1>10, FS_Bijection DEF ExistsBijection
<1>12. CASE S # {}
  BY <1>11, <1>12 DEF TipOf, S, slots
<1>13. CASE S = {}
  <2>1. TipOf(a, c).count = 0
    BY <1>13 DEF TipOf, S, NoTip
  <2>2. K[c] = {}
    BY <1>2, <1>13
  <2> QED
    BY <2>1, <2>2, FS_EmptySet
<1> QED
  BY <1>12, <1>13

----------------------------------------------------------------------------
(* The steps of a log without faults.                                       *)

LEMMA ExactIs ==
  ASSUME Exact
  PROVE  /\ Tidy(page, free, Chains, Loose) /\ Holds(page, Held)
         /\ \A c \in Chats : \A m \in kept[c] : m < next
         /\ \A c \in Chats : tips[c].count = Cardinality(kept[c]) \/ (op.at = "rewrite" /\ op.chat = c)
         /\ Up => Len(disk) = Len(page)
         /\ op.at \in {"meta", "rotate", "down"} => disk = page /\ diskFree = free
         /\ ~Up => wal = <<>>
         /\ op.at # "rewrite" => Chains = tips
         /\ op.at # "link" => Loose = {}
         /\ op.at \notin {"rewrite", "logged"} => Held = kept
  BY DEF Exact, Chains, Loose, Held

\* Where pages and messages are does not depend on the tips' counts.
LEMMA TidyTips ==
  ASSUME NEW a, NEW f, NEW ts, NEW X, Tidy(a, f, ts, X), NEW us,
         \A c \in Chats : us[c].head = ts[c].head /\ us[c].tail = ts[c].tail
  PROVE  Tidy(a, f, us, X)
<1>1. \A c \in Chats : IsChain(a, us[c], PagesOf(a, c) \ X)
  <2> SUFFICES ASSUME NEW c \in Chats PROVE IsChain(a, us[c], PagesOf(a, c) \ X)
    OBVIOUS
  <2>1. IsChain(a, ts[c], PagesOf(a, c) \ X)
    BY DEF Tidy
  <2> QED
    BY <2>1 DEF IsChain
<1> QED
  BY <1>1 DEF Tidy

\* The free list is empty or begins in the file, and a chain that has a page too.
LEMMA TidyPointers ==
  ASSUME NEW a \in Seq(Pages), NEW f, NEW ts, NEW X, Tidy(a, f, ts, X)
  PROVE  /\ f = 0 \/ f \in DOMAIN a
         /\ \A c \in Chats : /\ ts[c].head = 0 \/ ts[c].head \in DOMAIN a
                             /\ ts[c].tail = 0 \/ ts[c].tail \in DOMAIN a
         /\ \A p \in DOMAIN a : a[p].next = 0 \/ a[p].next \in DOMAIN a
<1>1. FreePages(a) \subseteq DOMAIN a /\ \A c : PagesOf(a, c) \subseteq DOMAIN a
  BY PagesAre
<1>2. IsList(a, f, FreePages(a)) /\ \A c \in Chats : IsChain(a, ts[c], PagesOf(a, c) \ X)
  BY DEF Tidy
<1>3. f = 0 \/ f \in DOMAIN a
  BY <1>1, <1>2 DEF IsList
<1>4. \A c \in Chats : (ts[c].head = 0 \/ ts[c].head \in DOMAIN a) /\ (ts[c].tail = 0 \/ ts[c].tail \in DOMAIN a)
  <2> SUFFICES ASSUME NEW c \in Chats
               PROVE  (ts[c].head = 0 \/ ts[c].head \in DOMAIN a) /\ (ts[c].tail = 0 \/ ts[c].tail \in DOMAIN a)
    OBVIOUS
  <2>1. IsChain(a, ts[c], PagesOf(a, c) \ X)
    BY <1>2
  <2> QED
    BY <1>1, <2>1 DEF IsChain, IsList
<1>5. ASSUME NEW p \in DOMAIN a PROVE a[p].next = 0 \/ a[p].next \in DOMAIN a
  <2>1. a[p].type \in {"chat", "free"}
    BY PagesAre
  <2>2. CASE a[p].type = "free"
    BY <1>1, <1>2, <2>2 DEF IsList, FreePages
  <2>3. CASE p \in X
    BY <2>3 DEF Tidy
  <2>4. CASE a[p].type = "chat" /\ p \notin X
    <3>1. a[p].chat \in Chats
      BY <2>4 DEF Tidy
    <3>2. p \in PagesOf(a, a[p].chat) \ X
      BY <2>4 DEF PagesOf
    <3>3. IsChain(a, ts[a[p].chat], PagesOf(a, a[p].chat) \ X)
      BY <1>2, <3>1
    <3> QED
      BY <1>1, <3>2, <3>3 DEF IsChain, IsList
  <2> QED
    BY <2>1, <2>2, <2>3, <2>4
<1> QED
  BY <1>3, <1>4, <1>5

\* A step that leaves the pages alone, and the messages where they are.
LEMMA QuietStep ==
  ASSUME Exact, UNCHANGED <<page, free, tips, next, kept>>, op.at \notin {"rewrite", "logged", "link"},
         op'.at \notin {"rewrite", "logged", "link"},
         op'.at = "insert" => tips[op'.chat].tail # 0,
         Up' => Len(disk') = Len(page), op'.at \in {"meta", "rotate", "down"} => disk' = page /\ diskFree' = free,
         ~Up' => wal' = <<>>
  PROVE  Exact'
<1>1. /\ Tidy(page, free, tips, {}) /\ Holds(page, kept)
      /\ \A c \in Chats : \A m \in kept[c] : m < next
      /\ \A c \in Chats : tips[c].count = Cardinality(kept[c])
  BY ExactIs
<1>2. Chains' = tips /\ Loose' = {} /\ Held' = kept
  BY DEF Chains, Loose, Held
<1> QED
  BY <1>1, <1>2 DEF Exact

LEMMA AppendExact ==
  ASSUME Typed, Exact, NEW c \in Chats, AppendMsg(c)
  PROVE  Typed' /\ Exact'
<1>1. op = Idle /\ op.at = "idle" /\ UNCHANGED <<next, kept>>
  BY DEF AppendMsg, Idle, history
<1>2. /\ Tidy(page, free, tips, {}) /\ Holds(page, kept)
      /\ \A d \in Chats : \A m \in kept[d] : m < next
      /\ \A d \in Chats : tips[d].count = Cardinality(kept[d])
      /\ Len(disk) = Len(page)
  BY <1>1, ExactIs DEF Up
<1>3. page \in Seq(Pages) /\ disk \in Seq(Pages) /\ tips \in [Chats -> Tips]
  BY DEF Typed
<1>4. free = 0 \/ free \in DOMAIN page
  BY <1>2, <1>3, TidyPointers
<1>5. Typed'
  BY <1>4, AppendTyped
<1>6. CASE tips[c].tail # 0 /\ ~IsFull(page[tips[c].tail])
  <2>1. op' = [at |-> "insert", chat |-> c] /\ UNCHANGED <<page, free, tips, disk, diskFree>>
    BY <1>6 DEF AppendMsg, store, heap
  <2>2. op'.at = "insert" /\ op'.chat = c
    BY <2>1
  <2>3. Up'
    BY <2>2 DEF Up
  <2> QED
    BY <1>1, <1>2, <1>5, <1>6, <2>1, <2>2, <2>3, QuietStep
<1>7. CASE ~ (tips[c].tail # 0 /\ ~IsFull(page[tips[c].tail]))
  <2>1. /\ Becomes(AllocFor(Now, c)) /\ disk' = Grown(disk, Len(page'), "chat")
        /\ op' = [at |-> "link", chat |-> c, page |-> NewPage(Now)]
    BY <1>7 DEF AppendMsg
  <2>2. PICK s, u, p : s = Now /\ u = AllocFor(Now, c) /\ p = NewPage(Now)
    OBVIOUS
  <2>3. /\ s \in Stores /\ u = AllocFor(s, c) /\ p = NewPage(s)
        /\ Tidy(s.page, s.free, tips, {}) /\ Holds(s.page, kept) /\ s.tips = tips /\ s.page = page
    BY <1>2, <2>2, NowIs
  <2>4. u.tips = tips
    BY <2>3, AllocTidy
  <2>5. Len(page) <= Len(u.page)
    BY <2>3, AllocTidy
  <2>6. Tidy(u.page, u.free, tips, {p})
    BY <2>3, AllocTidy
  <2>7. Holds(u.page, kept)
    BY <2>3, AllocTidy
  <2>8. p \in PagesOf(u.page, c)
    BY <2>3, AllocTidy
  <2>9. u.page[p].msgs = <<>>
    <3>1. s.free = 0 \/ s.free \in DOMAIN s.page
      BY <1>4, <2>2, NowIs
    <3>2. s \in Stores /\ c \in Chats /\ u = AllocFor(s, c) /\ p = NewPage(s)
      BY <2>3
    <3>3. u.page[p] = [type |-> "chat", chat |-> c, next |-> 0, msgs |-> <<>>]
      BY ONLY <3>1, <3>2, AllocIs
    <3> QED
      BY <3>3
  <2>10. page' = u.page /\ free' = u.free /\ tips' = tips
    BY <2>1, <2>2, <2>4 DEF Becomes
  <2>11. op'.at = "link" /\ op'.chat = c /\ op'.page = p
    BY <2>1, <2>2
  <2>12. Chains' = tips /\ Loose' = {p} /\ Held' = kept
    BY <1>1, <2>10, <2>11 DEF Chains, Loose, Held
  <2>13. Len(disk') = Len(page')
    <3>1. page' \in Seq(Pages)
      BY <1>5 DEF Typed
    <3>2. Len(page') \in Nat /\ Len(page) \in Nat
      BY <1>3, <3>1
    <3>3. Len(disk') = IF Len(page') > Len(disk) THEN Len(page') ELSE Len(disk)
      BY <1>3, <2>1, <3>2, GrownIs
    <3> QED
      BY <1>2, <2>5, <2>10, <3>2, <3>3
  <2>14. Up'
    BY <2>11 DEF Up
  <2>15. Exact'
    BY <1>1, <1>2, <2>6, <2>7, <2>8, <2>9, <2>10, <2>11, <2>12, <2>13, <2>14 DEF Exact
  <2> QED
    BY <1>5, <2>15
<1> QED
  BY <1>6, <1>7

LEMMA LinkExact ==
  ASSUME Typed, Exact, LinkPage
  PROVE  Typed' /\ Exact'
<1>1. /\ op.at = "link" /\ op' = [at |-> "insert", chat |-> op.chat]
      /\ Becomes(Link(Now, op.chat, op.page, tips[op.chat].tail))
      /\ UNCHANGED <<disk, diskFree, next, kept>>
  BY DEF LinkPage, heap
<1>2. /\ Tidy(page, free, tips, Loose) /\ Holds(page, kept)
      /\ \A d \in Chats : \A m \in kept[d] : m < next
      /\ \A d \in Chats : tips[d].count = Cardinality(kept[d])
      /\ Len(disk) = Len(page)
  BY <1>1, ExactIs DEF Up
<1>3. Loose = {op.page} /\ op.page \in PagesOf(page, op.chat) /\ op.chat \in Chats
  BY <1>1, CallIs DEF Loose, Exact, Typed
<1>4. PICK c, p, t : c = op.chat /\ p = op.page /\ t = tips[c].tail
  OBVIOUS
<1>5. page \in Seq(Pages) /\ tips \in [Chats -> Tips] /\ c \in Chats /\ t \in Nat
  BY <1>3, <1>4 DEF Typed, Tips
<1>6. p \in PagesOf(page, c) /\ p \in DOMAIN page /\ page[p].type = "chat" /\ page[p].chat = c
  BY <1>3, <1>4 DEF PagesOf
<1>7. Typed'
  BY <1>4, <1>6, LinkTyped
<1>8. PICK s, u : s = Now /\ u = Link(s, c, p, t)
  OBVIOUS
<1>9. s \in Stores /\ s.page = page /\ s.free = free /\ s.tips = tips
  BY <1>8, NowIs
<1>10. u \in Stores /\ Linked(s, c, p, t, u)
  BY <1>5, <1>6, <1>8, <1>9, LinkIs
<1>11. page' = u.page /\ free' = u.free /\ tips' = u.tips
  BY <1>1, <1>4, <1>8 DEF Becomes
<1>12. /\ u.free = free /\ u.page \in Seq(Pages) /\ Len(u.page) = Len(page)
       /\ \A q \in DOMAIN page :
             /\ u.page[q].type = IF q = p THEN "chat" ELSE page[q].type
             /\ u.page[q].chat = IF q = p THEN c ELSE page[q].chat
             /\ u.page[q].next = IF t # 0 /\ q = t THEN p ELSE page[q].next
             /\ u.page[q].msgs = page[q].msgs
       /\ u.tips = [tips EXCEPT ![c] = [head |-> IF tips[c].head = 0 THEN p ELSE tips[c].head,
                                        tail |-> p, count |-> tips[c].count]]
  BY <1>9, <1>10 DEF Linked
<1>13. PICK b, us : b = u.page /\ us = u.tips
  OBVIOUS
<1>14. Alike(page, b) /\ b \in Seq(Pages)
  BY <1>6, <1>12, <1>13 DEF Alike
<1>15. LinkedTo(page, tips[c].tail, p, b)
  <2>1. 0 \notin DOMAIN page
    BY <1>5
  <2> QED
    BY <1>4, <1>12, <1>13, <2>1 DEF LinkedTo
<1>16. Moved(tips, c, p, us) /\ us[c].count = tips[c].count /\ \A d \in Chats : d # c => us[d] = tips[d]
  <2>1. PICK x : x = [head |-> IF tips[c].head = 0 THEN p ELSE tips[c].head, tail |-> p, count |-> tips[c].count]
    OBVIOUS
  <2>2. us = [tips EXCEPT ![c] = x]
    BY <1>12, <1>13, <2>1
  <2>3. us[c] = x /\ \A d \in Chats : d # c => us[d] = tips[d]
    BY <1>5, <2>2
  <2>4. x.head = (IF tips[c].head = 0 THEN p ELSE tips[c].head) /\ x.tail = p /\ x.count = tips[c].count
    BY <2>1
  <2> QED
    BY <2>3, <2>4 DEF Moved
<1>17. Tidy(b, free, us, {})
  <2>1. /\ page \in Seq(Pages) /\ Tidy(page, free, tips, {p}) /\ c \in Chats /\ p \in PagesOf(page, c)
    BY <1>2, <1>3, <1>4, <1>5, <1>6
  <2> QED
    BY <2>1, <1>14, <1>15, <1>16, LinkTidy
<1>18. Holds(b, kept)
  BY <1>2, <1>5, <1>14, AlikeIs
<1>19. op'.at = "insert" /\ op'.chat = c
  BY <1>1, <1>4
<1>20. Chains' = tips' /\ Loose' = {} /\ Held' = kept /\ Up'
  BY <1>1, <1>19 DEF Chains, Loose, Held, Up
<1>21. tips'[c].tail # 0
  <2>1. tips'[c].tail = p
    BY <1>11, <1>13, <1>16 DEF Moved
  <2> QED
    BY <1>5, <1>6, <2>1
<1>22. \A d \in Chats : tips'[d].count = Cardinality(kept[d])
  BY <1>2, <1>11, <1>13, <1>16
<1>23. page' = b /\ free' = free /\ tips' = us /\ Len(disk') = Len(page')
  BY <1>1, <1>2, <1>11, <1>12, <1>13
<1>24. Exact'
  BY <1>1, <1>2, <1>17, <1>18, <1>19, <1>20, <1>21, <1>22, <1>23 DEF Exact
<1> QED
  BY <1>7, <1>24

LEMMA InsertExact ==
  ASSUME Typed, Exact, Insert
  PROVE  Typed' /\ Exact'
<1>1. /\ op.at = "insert" /\ op' = [at |-> "logged", chat |-> op.chat]
      /\ page' = [page EXCEPT ![tips[op.chat].tail].msgs = Append(@, next)]
      /\ UNCHANGED <<free, tips, disk, diskFree, next, kept>>
  BY DEF Insert, heap, history
<1>2. /\ Tidy(page, free, tips, {}) /\ Holds(page, kept)
      /\ \A d \in Chats : \A m \in kept[d] : m < next
      /\ \A d \in Chats : tips[d].count = Cardinality(kept[d])
      /\ Len(disk) = Len(page)
  BY <1>1, ExactIs DEF Up
<1>3. Typed'
  BY InsertTyped
<1>4. PICK c, p : c = op.chat /\ p = tips[c].tail
  OBVIOUS
<1>5. page \in Seq(Pages) /\ c \in Chats /\ next \in Messages /\ page' \in Seq(Pages) /\ p # 0
  <2>1. next \in 1..(MaxMsgs + 1) /\ next <= MaxMsgs
    BY <1>1 DEF Typed
  <2>2. next \in Messages
    BY <2>1, SlotsIs DEF Messages
  <2>3. c \in Chats
    BY <1>1, <1>4, CallIs DEF Typed
  <2>4. p # 0
    BY <1>1, <1>4 DEF Exact
  <2>5. page' \in Seq(Pages) /\ page \in Seq(Pages)
    BY <1>3 DEF Typed
  <2> QED
    BY <2>2, <2>3, <2>4, <2>5
<1>6. p \in PagesOf(page, c) /\ p \in DOMAIN page
  <2>1. p \in PagesOf(page, c) \ {}
    BY <1>2, <1>4, <1>5, TailIs
  <2> QED
    BY <2>1 DEF PagesOf
<1>7. PICK b, ms, n : b = page' /\ ms = Append(page[p].msgs, next) /\ n = [page[p] EXCEPT !.msgs = ms]
  OBVIOUS
<1>8. n.type = page[p].type /\ n.chat = page[p].chat /\ n.next = page[p].next /\ n.msgs = ms /\ n \in Pages
  <2>1. page[p] \in Pages /\ ms \in Seq(Messages)
    <3>1. page[p] \in Pages /\ page[p].msgs \in Seq(Messages)
      BY <1>5, <1>6, PagesAre
    <3> QED
      BY <1>5, <1>7, <3>1
  <2>2. n = [type |-> page[p].type, chat |-> page[p].chat, next |-> page[p].next, msgs |-> ms] /\ n \in Pages
    BY <1>7, <2>1, SetMsgs
  <2> QED
    BY <2>2
<1>9. b = [page EXCEPT ![p] = n]
  BY <1>1, <1>4, <1>7
<1>10. b \in Seq(Pages) /\ Len(b) = Len(page) /\ \A i \in DOMAIN page : b[i] = IF i = p THEN n ELSE page[i]
  BY <1>5, <1>8, <1>9, ReplaceIs
<1>11. \A q \in DOMAIN page : b[q].type = page[q].type /\ b[q].chat = page[q].chat /\ b[q].next = page[q].next
  BY <1>8, <1>10
<1>12. \A q \in DOMAIN page : b[q].msgs = IF q = p THEN Append(page[q].msgs, next) ELSE page[q].msgs
  BY <1>7, <1>8, <1>10
<1>13. \A d \in Chats : next \notin kept[d]
  <2>1. ~ (next < next)
    BY <1>5 DEF Messages
  <2> QED
    BY <1>2, <2>1
<1>14. \A q \in DOMAIN page : next \notin ToSet(page[q].msgs)
  BY <1>2, <1>5, <1>13, AbsentIs
<1>15. PICK K : K = [kept EXCEPT ![c] = @ \cup {next}]
  OBVIOUS
<1>16. K[c] = kept[c] \cup {next} /\ \A d \in Chats : d # c => K[d] = kept[d]
  <2>1. kept \in [Chats -> SUBSET Messages]
    BY DEF Typed
  <2> QED
    BY <1>5, <1>15, <2>1
<1>17. Tidy(b, free, tips, {}) /\ Holds(b, K)
  <2>1. PICK a, f, ts, k, m : a = page /\ f = free /\ ts = tips /\ k = kept /\ m = next
    OBVIOUS
  <2>2. /\ a \in Seq(Pages) /\ Tidy(a, f, ts, {}) /\ Holds(a, k) /\ c \in Chats /\ p \in PagesOf(a, c)
        /\ m \in Messages /\ b \in Seq(Pages) /\ Len(b) = Len(a)
        /\ K[c] = k[c] \cup {m} /\ \A d \in Chats : d # c => K[d] = k[d]
    BY <1>2, <1>5, <1>6, <1>10, <1>16, <2>1
  <2>3. \A q \in DOMAIN a : m \notin ToSet(a[q].msgs)
    BY <1>14, <2>1
  <2>4. \A q \in DOMAIN a : b[q].type = a[q].type /\ b[q].chat = a[q].chat /\ b[q].next = a[q].next
    BY <1>11, <2>1
  <2>5. \A q \in DOMAIN a : b[q].msgs = IF q = p THEN Append(a[q].msgs, m) ELSE a[q].msgs
    BY <1>12, <2>1
  <2>6. Tidy(b, f, ts, {}) /\ Holds(b, K)
    BY ONLY <2>2, <2>3, <2>4, <2>5, AddTidy
  <2> QED
    BY <2>1, <2>6
<1>18. op'.at = "logged" /\ op'.chat = c
  BY <1>1, <1>4
<1>19. Chains' = tips /\ Loose' = {} /\ Held' = K /\ Up'
  BY <1>1, <1>15, <1>18 DEF Chains, Loose, Held, Up
<1>20. Exact'
  BY <1>1, <1>2, <1>4, <1>5, <1>7, <1>10, <1>17, <1>18, <1>19 DEF Exact
<1> QED
  BY <1>3, <1>20

LEMMA LogInsertExact ==
  ASSUME Typed, Exact, LogInsert
  PROVE  Typed' /\ Exact'
<1>1. /\ op.at = "logged" /\ op' = Idle /\ next' = next + 1
      /\ tips' = [tips EXCEPT ![op.chat].count = @ + 1]
      /\ kept' = [kept EXCEPT ![op.chat] = @ \cup {next}]
      /\ UNCHANGED <<page, free, disk, diskFree>>
  BY DEF LogInsert, heap
<1>2. /\ Tidy(page, free, tips, {}) /\ Holds(page, Held)
      /\ \A d \in Chats : \A m \in kept[d] : m < next
      /\ \A d \in Chats : tips[d].count = Cardinality(kept[d])
      /\ Len(disk) = Len(page)
  BY <1>1, ExactIs DEF Up
<1>3. Typed'
  BY LogInsertTyped
<1>4. PICK c : c = op.chat
  OBVIOUS
<1>5. c \in Chats /\ tips \in [Chats -> Tips] /\ kept \in [Chats -> SUBSET Messages] /\ next \in Nat
  <2>1. c \in Chats
    BY <1>1, <1>4, CallIs DEF Typed
  <2>2. next \in 1..(MaxMsgs + 1)
    BY DEF Typed
  <2> QED
    BY <2>1, <2>2, SlotsIs DEF Typed
<1>6. Held = kept'
  BY <1>1 DEF Held
<1>7. kept'[c] = kept[c] \cup {next} /\ \A d \in Chats : d # c => kept'[d] = kept[d]
  BY <1>1, <1>4, <1>5
<1>8. /\ tips'[c].head = tips[c].head /\ tips'[c].tail = tips[c].tail /\ tips'[c].count = tips[c].count + 1
      /\ \A d \in Chats : d # c => tips'[d] = tips[d]
  <2>1. PICK x : x = [tips[c] EXCEPT !.count = tips[c].count + 1]
    OBVIOUS
  <2>2. tips' = [tips EXCEPT ![c] = x]
    BY <1>1, <1>4, <1>5, <2>1
  <2>3. x.head = tips[c].head /\ x.tail = tips[c].tail /\ x.count = tips[c].count + 1
    <3>1. tips[c] \in Tips
      BY <1>5
    <3> QED
      BY <2>1, <3>1 DEF Tips
  <2> QED
    BY <1>5, <2>2, <2>3
<1>9. Tidy(page, free, tips', {})
  <2>1. \A d \in Chats : tips'[d].head = tips[d].head /\ tips'[d].tail = tips[d].tail
    BY <1>8
  <2> QED
    BY <1>2, <2>1, TidyTips
<1>10. \A d \in Chats : \A m \in kept'[d] : m < next'
  <2>1. \A d \in Chats : kept[d] \subseteq Messages
    BY <1>5
  <2>2. \A d \in Chats : \A m \in kept[d] : m \in Nat /\ m < next + 1
    BY <1>2, <1>5, <2>1, SlotsIs DEF Messages
  <2> QED
    BY <1>1, <1>5, <1>7, <2>2
<1>11. \A d \in Chats : tips'[d].count = Cardinality(kept'[d])
  <2>1. IsFiniteSet(kept[c])
    <3>1. IsFiniteSet(Messages)
      BY SlotsIs, FS_Interval DEF Messages
    <3>2. kept[c] \in SUBSET Messages
      BY <1>5
    <3> QED
      BY <3>1, <3>2, FS_Subset
  <2>2. next \notin kept[c]
    BY <1>2, <1>5
  <2>3. Cardinality(kept[c] \cup {next}) = Cardinality(kept[c]) + 1
    BY <2>1, <2>2, FS_AddElement
  <2> QED
    BY <1>2, <1>5, <1>7, <1>8, <2>3
<1>12. op'.at = "idle"
  BY <1>1 DEF Idle
<1>13. Chains' = tips' /\ Loose' = {} /\ Held' = kept' /\ Up'
  BY <1>12 DEF Chains, Loose, Held, Up
<1>14. Exact'
  BY <1>1, <1>2, <1>6, <1>9, <1>10, <1>11, <1>12, <1>13 DEF Exact
<1> QED
  BY <1>3, <1>14

LEMMA LogTrimExact ==
  ASSUME Typed, Exact, NEW c \in Chats, LogTrim(c)
  PROVE  Typed' /\ Exact'
<1>1. /\ op = Idle /\ op.at = "idle" /\ UNCHANGED <<page, free, tips, disk, diskFree, next, kept>>
      /\ op' = IF Exceeds(Now, c) THEN [at |-> "free", chat |-> c] ELSE Idle
  BY DEF LogTrim, Idle, store, heap
<1>2. op'.at \in {"free", "idle"}
  BY <1>1 DEF Idle
<1>3. Up' /\ Len(disk) = Len(page)
  BY <1>1, <1>2, ExactIs DEF Up
<1> QED
  BY <1>1, <1>2, <1>3, QuietStep, LogTrimTyped

LEMMA EvictExact ==
  ASSUME Typed, Exact, NEW p \in DOMAIN page, EvictPage(p)
  PROVE  Typed' /\ Exact'
<1>1. /\ op.at # "down" /\ page[p] # disk[p] /\ disk' = [disk EXCEPT ![p] = page[p]]
      /\ UNCHANGED <<page, free, tips, diskFree, wal, op, next, kept>>
  BY DEF EvictPage, store, log, history
<1>2. op.at \notin {"meta", "rotate", "down"} /\ Up
  BY <1>1, ExactIs DEF Up
<1>3. Len(disk') = Len(disk)
  BY <1>1 DEF Typed
<1>4. Exact'
  <2>1. Chains' = Chains /\ Loose' = Loose /\ Held' = Held
    BY <1>1 DEF Chains, Loose, Held
  <2> QED
    BY <1>1, <1>2, <1>3, <2>1 DEF Exact, Up, PagesOf
<1> QED
  BY <1>4, EvictTyped

LEMMA EvictSuperExact ==
  ASSUME Typed, Exact, EvictSuper
  PROVE  Typed' /\ Exact'
<1>1. /\ op.at # "down" /\ free # diskFree
      /\ UNCHANGED <<page, free, tips, disk, wal, op, next, kept>>
  BY DEF EvictSuper, store, log, history
<1>2. op.at \notin {"meta", "rotate", "down"} /\ Up
  BY <1>1, ExactIs DEF Up
<1>3. Exact'
  <2>1. Chains' = Chains /\ Loose' = Loose /\ Held' = Held
    BY <1>1 DEF Chains, Loose, Held
  <2> QED
    BY <1>1, <1>2, <2>1 DEF Exact, Up, PagesOf
<1> QED
  BY <1>3, EvictSuperTyped

LEMMA CheckpointExact ==
  ASSUME Typed, Exact, NEW then \in {"idle", "down"}, Checkpoint(then)
  PROVE  Typed' /\ Exact'
<1>1. /\ op = Idle /\ op.at = "idle" /\ disk' = page /\ diskFree' = free
      /\ op' = [at |-> "meta", then |-> then] /\ UNCHANGED <<page, free, tips, next, kept>>
  BY DEF Checkpoint, Idle, store
<1>2. op'.at = "meta"
  BY <1>1
<1> QED
  BY <1>1, <1>2, QuietStep, CheckpointTyped DEF Up

LEMMA MetaExact ==
  ASSUME Typed, Exact, PersistMeta
  PROVE  Typed' /\ Exact'
<1>1. /\ op.at = "meta" /\ op' = [op EXCEPT !.at = "rotate"]
      /\ UNCHANGED <<page, free, tips, disk, diskFree, wal, next, kept>>
  BY DEF PersistMeta, store, heap, log, history
<1>2. op'.at = "rotate"
  <2>1. op \in [at : {"meta", "rotate"}, then : {"idle", "down"}]
    BY <1>1 DEF Typed, Calls
  <2> QED
    BY <1>1, <2>1
<1>3. disk = page /\ diskFree = free
  BY <1>1, ExactIs
<1> QED
  BY <1>1, <1>2, <1>3, QuietStep, MetaTyped DEF Up

LEMMA RotateExact ==
  ASSUME Typed, Exact, Rotate
  PROVE  Typed' /\ Exact'
<1>1. /\ op.at = "rotate" /\ wal' = <<>> /\ op' = [at |-> op.then]
      /\ UNCHANGED <<page, free, tips, disk, diskFree, next, kept>>
  BY DEF Rotate, store, heap, history
<1>2. op'.at \in {"idle", "down"}
  BY <1>1, CallIs DEF Typed
<1>3. disk = page /\ diskFree = free
  BY <1>1, ExactIs
<1> QED
  BY <1>1, <1>2, <1>3, QuietStep, RotateTyped DEF Up

\* The last n of distinct messages are some of them, and distinct.
LEMMA LastOfIs ==
  ASSUME NEW S, NEW s \in Seq(S), Distinct(s), NEW n \in Nat, NEW u, u = LastOf(s, n)
  PROVE  u \in Seq(S) /\ Distinct(u) /\ ToSet(u) \subseteq ToSet(s)
<1>1. Len(s) \in Nat /\ DOMAIN s = 1..Len(s) /\ Len(s) - n \in Int
  OBVIOUS
<1>2. PICK k : k = Max({0, Len(s) - n})
  OBVIOUS
<1>3. k \in {0, Len(s) - n} /\ \A y \in {0, Len(s) - n} : k >= y
  <2>0. PICK T : T = {0, Len(s) - n}
    OBVIOUS
  <2>1. \E x \in {0, Len(s) - n} : \A y \in {0, Len(s) - n} : x >= y
    <3>1. CASE Len(s) - n >= 0
      BY <1>1, <3>1
    <3>2. CASE Len(s) - n < 0
      BY <1>1, <3>2
    <3> QED
      BY <1>1, <3>1, <3>2
  <2>2. \E x \in T : \A y \in T : x >= y
    BY <2>0, <2>1
  <2>3. k = Max(T)
    BY <1>2, <2>0
  <2>4. k \in T /\ \A y \in T : k >= y
    BY <2>2, <2>3 DEF Max
  <2> QED
    BY <2>0, <2>4
<1>4. k \in Nat /\ k <= Len(s)
  <2>1. Len(s) - n <= Len(s)
    BY <1>1
  <2>4. k >= 0
    BY <1>3
  <2>2. CASE k = 0
    BY <1>1, <2>2
  <2>3. CASE k = Len(s) - n
    BY <1>1, <2>1, <2>3, <2>4
  <2> QED
    BY <1>3, <2>2, <2>3
<1>5. u = SubSeq(s, k + 1, Len(s))
  BY <1>2 DEF LastOf
<1>6. u \in Seq(S) /\ Len(u) = Len(s) - k /\ DOMAIN u = 1..(Len(s) - k)
      /\ \A i \in 1..(Len(s) - k) : u[i] = s[i + k]
  <2>1. \A i \in (k + 1)..Len(s) : s[i] \in S
    BY <1>1, <1>4
  <2>2. u \in Seq(S) /\ Len(u) = IF k + 1 <= Len(s) THEN Len(s) - (k + 1) + 1 ELSE 0
    BY <1>1, <1>4, <1>5, <2>1, SubSeqProperties
  <2>3. \A i \in 1..(Len(s) - k) : u[i] = s[i + k]
    <3>1. PICK l : l = k + 1
      OBVIOUS
    <3>2. u = SubSeq(s, l, Len(s)) /\ l \in 1..(Len(s) + 1) /\ Len(s) \in l - 1..Len(s)
      BY <1>1, <1>4, <1>5, <3>1
    <3>3. \A i \in 1..(Len(s) - l + 1) : u[i] = s[l + i - 1]
      BY <1>1, <3>2
    <3>4. Len(s) - l + 1 = Len(s) - k /\ \A i \in 1..(Len(s) - k) : l + i - 1 = i + k
      BY <1>1, <1>4, <3>1
    <3> QED
      BY <3>3, <3>4
  <2>4. Len(u) = Len(s) - k
    <3>1. PICK l : l = Len(s)
      OBVIOUS
    <3>2. l \in Nat /\ k \in Nat /\ k <= l /\ Len(u) = IF k + 1 <= l THEN l - (k + 1) + 1 ELSE 0
      <4>1. l \in Nat /\ k \in Nat /\ k <= l
        BY <1>1, <1>4, <3>1
      <4>2. Len(u) = IF k + 1 <= l THEN l - (k + 1) + 1 ELSE 0
        BY ONLY <2>2, <3>1
      <4> QED
        BY <4>1, <4>2
    <3>3. Len(u) = l - k
      BY ONLY <3>2
    <3> QED
      BY <3>1, <3>3
  <2> QED
    BY <2>2, <2>3, <2>4
<1>7. \A i \in 1..(Len(s) - k) : i + k \in DOMAIN s
  BY <1>1, <1>4
<1>8. Distinct(u)
  <2> SUFFICES ASSUME NEW i \in DOMAIN u, NEW j \in DOMAIN u, u[i] = u[j] PROVE i = j
    BY DEF Distinct
  <2>1. i + k = j + k
    BY <1>6, <1>7 DEF Distinct
  <2> QED
    BY <1>4, <1>6, <2>1
<1>9. ToSet(u) \subseteq ToSet(s)
  BY <1>6, <1>7 DEF ToSet
<1> QED
  BY <1>6, <1>8, <1>9

\* A message is kept by one chat.
LEMMA HoldsApart ==
  ASSUME NEW a \in Seq(Pages), NEW K, Holds(a, K), NEW c \in Chats, NEW d \in Chats, c # d,
         NEW m \in Messages, m \in K[c], m \in K[d]
  PROVE  FALSE
<1>1. OnPage(a, c, m) /\ OnPage(a, d, m)
  BY DEF Holds
<1>2. PICK p \in PagesOf(a, c) : m \in ToSet(a[p].msgs)
  BY <1>1 DEF OnPage
<1>3. PICK q \in PagesOf(a, d) : m \in ToSet(a[q].msgs)
  BY <1>1 DEF OnPage
<1>4. p \in DOMAIN a /\ q \in DOMAIN a /\ p # q
  BY <1>2, <1>3 DEF PagesOf
<1> QED
  BY <1>2, <1>3, <1>4 DEF Holds

LEMMA FreeOldExact ==
  ASSUME Typed, Exact, FreeOld
  PROVE  Typed' /\ Exact'
<1>1. /\ op.at = "free" /\ Becomes(FreeChain(Now, op.chat))
      /\ op' = [at |-> "rewrite", chat |-> op.chat, msgs |-> LastOf(OnChain(Now, op.chat), Keep)]
      /\ UNCHANGED <<heap, fsynced, log, ckpt, meta, history, counters>>
      /\ UNCHANGED <<disk, diskFree, wal, next, kept>>
  BY DEF FreeOld, heap, log, history
<1>2. /\ Tidy(page, free, tips, {}) /\ Holds(page, kept)
      /\ \A d \in Chats : \A m \in kept[d] : m < next
      /\ \A d \in Chats : tips[d].count = Cardinality(kept[d])
      /\ Len(disk) = Len(page)
  BY <1>1, ExactIs DEF Up
<1>3. PICK s, c, ts, K : s = Now /\ c = op.chat /\ ts = [tips EXCEPT ![c] = NoTip] /\ K = [kept EXCEPT ![c] = {}]
  OBVIOUS
<1>4. PICK old, k : old = kept /\ k = tips
  OBVIOUS
<1>5. c \in Chats /\ s \in Stores /\ s.page = page /\ s.free = free /\ s.tips = tips
      /\ old \in [Chats -> SUBSET Messages] /\ k \in [Chats -> Tips] /\ page \in Seq(Pages)
  <2>1. c \in Chats
    BY <1>1, <1>3, CallIs DEF Typed
  <2> QED
    BY <1>3, <1>4, <2>1, NowIs DEF Typed
<1>6. ts[c] = NoTip /\ ts[c].head = 0 /\ ts[c].tail = 0 /\ \A d \in Chats : d # c => ts[d] = s.tips[d]
  BY <1>3, <1>4, <1>5 DEF NoTip
<1>7. K[c] = {} /\ \A d \in Chats : d # c => K[d] = old[d]
  BY <1>3, <1>4, <1>5
<1>8. Tidy(s.page, s.free, s.tips, {}) /\ Holds(s.page, old)
  BY <1>2, <1>4, <1>5
<1>9. PICK u, ms : u = FreeChain(s, c) /\ ms = LastOf(OnChain(s, c), Keep)
  OBVIOUS
<1>10. /\ u \in Stores /\ u.tips = s.tips /\ Len(u.page) = Len(s.page)
       /\ Tidy(u.page, u.free, ts, {}) /\ Holds(u.page, K)
  <2>1. s \in Stores /\ Tidy(s.page, s.free, s.tips, {}) /\ Holds(s.page, old) /\ c \in Chats /\ u = FreeChain(s, c)
        /\ Unchained(ts, c, s.tips) /\ HoldsNow(K, c, {}, old)
    BY <1>5, <1>6, <1>7, <1>8, <1>9 DEF Unchained, HoldsNow
  <2>2. u \in Stores /\ u.tips = s.tips /\ Len(u.page) = Len(s.page)
    <3>1. u \in Stores
      BY ONLY <2>1, FreeTidy
    <3>2. u.tips = s.tips
      BY ONLY <2>1, FreeTidy
    <3>3. Len(u.page) = Len(s.page)
      BY ONLY <2>1, FreeTidy
    <3> QED
      BY <3>1, <3>2, <3>3
  <2>3. Tidy(u.page, u.free, ts, {})
    BY ONLY <2>1, FreeTidy
  <2>4. Holds(u.page, K)
    BY ONLY <2>1, FreeTidy
  <2> QED
    BY <2>2, <2>3, <2>4
<1>11. OnChain(s, c) \in Seq(Messages) /\ Distinct(OnChain(s, c))
       /\ \A m \in Messages : m \in ToSet(OnChain(s, c)) <=> m \in old[c]
  <2>1. s \in Stores /\ Tidy(s.page, s.free, s.tips, {}) /\ Holds(s.page, old) /\ c \in Chats
        /\ PagesOf(s.page, c) \cap {} = {}
    BY <1>5, <1>8
  <2>2. OnChain(s, c) \in Seq(Messages)
    BY ONLY <2>1, OnChainIs
  <2>3. Distinct(OnChain(s, c))
    BY ONLY <2>1, OnChainIs
  <2>4. \A m \in Messages : m \in ToSet(OnChain(s, c)) <=> m \in old[c]
    BY ONLY <2>1, OnChainIs
  <2> QED
    BY <2>2, <2>3, <2>4
<1>12. ms \in Seq(Messages) /\ Distinct(ms) /\ ToSet(ms) \subseteq ToSet(OnChain(s, c))
  <2>1. Keep \in Nat
    BY NyatDbAssumption
  <2> QED
    BY <1>9, <1>11, <2>1, LastOfIs
<1>13. ToSet(ms) \subseteq Messages
  BY <1>12 DEF ToSet
<1>14. ToSet(ms) \subseteq old[c]
  BY <1>11, <1>12, <1>13
<1>15. page' = u.page /\ free' = u.free /\ tips' = tips
  BY <1>1, <1>3, <1>5, <1>9, <1>10 DEF Becomes
<1>16. op' = [at |-> "rewrite", chat |-> c, msgs |-> ms] /\ op'.at = "rewrite" /\ op'.chat = c /\ op'.msgs = ms
  BY <1>1, <1>3, <1>9
<1>17. u.page \in Seq(Pages) /\ u.free \in Nat
  BY <1>10 DEF Stores
<1>18. Typed'
  <2>1. op' \in Calls
    BY <1>5, <1>12, <1>16, CallsAre
  <2>2. page' \in Seq(Pages) /\ disk' \in Seq(Pages) /\ free' \in Nat /\ diskFree' \in Nat /\ tips' \in [Chats -> Tips]
    BY <1>1, <1>15, <1>17 DEF Typed
  <2>3. op'.at \notin {"link", "insert", "logged"}
    BY <1>16
  <2> QED
    BY <1>1, <2>1, <2>2, <2>3, TypedPages
<1>19. \A p \in DOMAIN page' : ToSet(page'[p].msgs) \cap ToSet(ms) = {}
  <2> SUFFICES ASSUME NEW m \in ToSet(ms) PROVE \A p \in DOMAIN u.page : m \notin ToSet(u.page[p].msgs)
    BY <1>15
  <2>1. m \in Messages /\ m \in old[c]
    BY <1>13, <1>14
  <2>2. \A d \in Chats : m \notin K[d]
    <3> SUFFICES ASSUME NEW d \in Chats, m \in K[d] PROVE FALSE
      OBVIOUS
    <3>1. d # c /\ m \in old[d]
      BY <1>7
    <3> QED
      BY <1>2, <1>4, <1>5, <2>1, <3>1, HoldsApart
  <2>3. u.page \in Seq(Pages) /\ Tidy(u.page, u.free, ts, {}) /\ Holds(u.page, K)
    BY <1>10, <1>17
  <2> QED
    BY ONLY <2>1, <2>2, <2>3, AbsentIs
<1>20. tips'[c].head <= Len(page') /\ tips'[c].tail <= Len(page')
  <2>1. tips[c].head = 0 \/ tips[c].head \in DOMAIN page
    BY <1>2, <1>5, TidyPointers
  <2>2. tips[c].tail = 0 \/ tips[c].tail \in DOMAIN page
    BY <1>2, <1>5, TidyPointers
  <2>3. Len(page') = Len(page) /\ Len(page) \in Nat /\ DOMAIN page = 1..Len(page)
    BY <1>5, <1>10, <1>15
  <2> QED
    BY <1>15, <2>1, <2>2, <2>3
<1>21. Chains' = ts /\ Loose' = {} /\ Held' = K
  BY <1>1, <1>3, <1>15, <1>16 DEF Chains, Loose, Held
<1>22. Exact'
  <2>1. Tidy(page', free', ts, {}) /\ Holds(page', K) /\ Len(disk') = Len(page') /\ Up'
    BY <1>1, <1>2, <1>5, <1>10, <1>15, <1>16 DEF Up
  <2>2. \A d \in Chats : tips'[d].count = Cardinality(kept'[d])
    BY <1>1, <1>2, <1>15
  <2>3. op'.at = "rewrite" /\ Distinct(op'.msgs) /\ ToSet(op'.msgs) \subseteq kept'[op'.chat]
        /\ \A p \in DOMAIN page' : ToSet(page'[p].msgs) \cap ToSet(op'.msgs) = {}
    BY <1>1, <1>4, <1>12, <1>14, <1>16, <1>19
  <2>4. tips'[op'.chat].head <= Len(page') /\ tips'[op'.chat].tail <= Len(page')
    BY <1>16, <1>20
  <2> QED
    BY <1>1, <1>2, <1>21, <2>1, <2>2, <2>3, <2>4 DEF Exact
<1> QED
  BY <1>18, <1>22

LEMMA RewriteExact ==
  ASSUME Typed, Exact, RewriteKept
  PROVE  Typed' /\ Exact'
<1>1. /\ op.at = "rewrite" /\ Becomes(Rewrite(Now, op.chat, op.msgs))
      /\ disk' = Grown(disk, Len(page'), "chat")
      /\ kept' = [kept EXCEPT ![op.chat] = ToSet(op.msgs)]
      /\ stable' = stable \ (kept[op.chat] \ ToSet(op.msgs))
      /\ op' = Idle /\ UNCHANGED <<diskFree, fsynced, log, ckpt, meta, next, counters>>
  BY DEF RewriteKept
<1>2. /\ Tidy(page, free, Chains, {}) /\ Holds(page, Held)
      /\ \A d \in Chats : \A m \in kept[d] : m < next
      /\ \A d \in Chats : tips[d].count = Cardinality(kept[d]) \/ op.chat = d
      /\ Len(disk) = Len(page)
  BY <1>1, ExactIs DEF Up
<1>3. PICK s, c, ms, ts, K : s = Now /\ c = op.chat /\ ms = op.msgs /\ ts = Chains /\ K = Held
  OBVIOUS
<1>4. PICK old, k, L : old = kept /\ k = tips /\ L = [kept EXCEPT ![c] = ToSet(ms)]
  OBVIOUS
<1>5. c \in Chats /\ s \in Stores /\ s.page = page /\ s.free = free /\ s.tips = k /\ ms \in Seq(Messages)
      /\ old \in [Chats -> SUBSET Messages] /\ k \in [Chats -> Tips] /\ page \in Seq(Pages)
  <2>1. c \in Chats /\ ms \in Seq(Messages)
    BY <1>1, <1>3, CallIs DEF Typed
  <2> QED
    BY <1>3, <1>4, <2>1, NowIs DEF Typed
<1>6. Distinct(ms) /\ ToSet(ms) \subseteq old[c] /\ ToSet(ms) \subseteq Messages
  <2>1. Distinct(ms) /\ ToSet(ms) \subseteq old[c]
    BY <1>1, <1>3, <1>4 DEF Exact
  <2> QED
    BY <1>5, <2>1
<1>7. Unchained(ts, c, k)
  <2>1. ts = [k EXCEPT ![c] = NoTip]
    BY <1>1, <1>3, <1>4 DEF Chains
  <2>2. ts[c] = NoTip /\ \A d \in Chats : d # c => ts[d] = k[d]
    BY <1>5, <2>1
  <2> QED
    BY <2>2 DEF Unchained, NoTip
<1>8. K[c] = {} /\ \A d \in Chats : d # c => K[d] = old[d]
  <2>1. K = [old EXCEPT ![c] = {}]
    BY <1>1, <1>3, <1>4 DEF Held
  <2> QED
    BY <1>5, <2>1
<1>9. L[c] = ToSet(ms) /\ (\A d \in Chats : d # c => L[d] = old[d]) /\ HoldsNow(L, c, ToSet(ms), K)
  <2>1. L[c] = ToSet(ms) /\ \A d \in Chats : d # c => L[d] = old[d]
    BY <1>4, <1>5
  <2> QED
    BY <1>8, <2>1 DEF HoldsNow
<1>10. Tidy(s.page, s.free, ts, {}) /\ Holds(s.page, K)
  BY <1>2, <1>3, <1>5
<1>11. Apart(K, ms)
  <2> SUFFICES ASSUME NEW d \in Chats, NEW m \in ToSet(ms), m \in K[d] PROVE FALSE
    BY DEF Apart
  <2>1. m \in Messages
    BY <1>6
  <2>2. OnPage(s.page, d, m)
    BY <1>10, <2>1 DEF Holds
  <2>3. PICK p \in PagesOf(s.page, d) : m \in ToSet(s.page[p].msgs)
    BY <2>2 DEF OnPage
  <2>4. p \in DOMAIN page
    BY <1>5, <2>3 DEF PagesOf
  <2>5. \A q \in DOMAIN page : ToSet(page[q].msgs) \cap ToSet(ms) = {}
    BY <1>1, <1>3 DEF Exact
  <2> QED
    BY <1>5, <2>3, <2>4, <2>5
<1>12. PICK u : u = Rewrite(s, c, ms)
  OBVIOUS
<1>13. /\ u \in Stores /\ Len(s.page) <= Len(u.page)
       /\ Tidy(u.page, u.free, u.tips, {}) /\ Holds(u.page, L)
       /\ u.tips[c].count = Len(ms) /\ \A d \in Chats : d # c => u.tips[d] = s.tips[d]
  <2>1. /\ s \in Stores /\ c \in Chats /\ Unchained(ts, c, s.tips) /\ Tidy(s.page, s.free, ts, {}) /\ Holds(s.page, K)
        /\ K[c] = {} /\ ms \in Seq(Messages) /\ Distinct(ms) /\ Apart(K, ms) /\ HoldsNow(L, c, ToSet(ms), K)
        /\ u = Rewrite(s, c, ms)
    BY <1>5, <1>6, <1>7, <1>8, <1>9, <1>10, <1>11, <1>12
  <2>2. u \in Stores
    BY ONLY <2>1, RewriteTidy
  <2>3. Len(s.page) <= Len(u.page)
    BY ONLY <2>1, RewriteTidy
  <2>4. Tidy(u.page, u.free, u.tips, {})
    BY ONLY <2>1, RewriteTidy
  <2>5. Holds(u.page, L)
    BY ONLY <2>1, RewriteTidy
  <2>6. Counts(u.tips, c, Len(ms), s.tips)
    BY ONLY <2>1, RewriteTidy
  <2> QED
    BY <2>2, <2>3, <2>4, <2>5, <2>6 DEF Counts
<1>14. page' = u.page /\ free' = u.free /\ tips' = u.tips
  BY <1>1, <1>3, <1>12 DEF Becomes
<1>15. page' \in Seq(Pages) /\ free' \in Nat /\ tips' \in [Chats -> Tips]
  BY <1>13, <1>14 DEF Stores
<1>16. disk' \in Seq(Pages) /\ Len(disk') = Len(page')
  <2>1. disk \in Seq(Pages)
    BY DEF Typed
  <2>2. PICK n : n = Len(page')
    OBVIOUS
  <2>3. n \in Nat /\ Len(page) \in Nat /\ Len(page) <= n
    BY <1>5, <1>13, <1>14, <1>15, <2>2
  <2>4. disk' = Grown(disk, n, "chat")
    BY <1>1, <2>2
  <2>5. disk' \in Seq(Pages) /\ Len(disk') = IF n > Len(disk) THEN n ELSE Len(disk)
    BY <2>1, <2>3, <2>4, GrownIs
  <2> QED
    BY <1>2, <2>2, <2>3, <2>5
<1>17. kept' = L
  BY <1>1, <1>3, <1>4
<1>18. \A d \in Chats : kept'[d] \subseteq old[d]
  BY <1>6, <1>9, <1>17
<1>19. kept' \in [Chats -> SUBSET Messages] /\ stable' \subseteq Messages
  <2>1. stable \subseteq Messages
    BY DEF Typed
  <2>2. L \in [Chats -> SUBSET Messages]
    BY <1>4, <1>5, <1>6
  <2> QED
    BY <1>1, <1>17, <2>1, <2>2
<1>20. op' \in Calls /\ op'.at = "idle"
  BY <1>1, CallsAre DEF Idle
<1>21. Typed'
  BY <1>1, <1>15, <1>16, <1>19, <1>20 DEF Typed, fsynced, log, counters
<1>22. Chains' = tips' /\ Loose' = {} /\ Held' = kept' /\ Up'
  BY <1>20 DEF Chains, Loose, Held, Up
<1>23. \A d \in Chats : tips'[d].count = Cardinality(kept'[d])
  <2>1. tips'[c].count = Cardinality(kept'[c])
    BY <1>5, <1>6, <1>9, <1>13, <1>14, <1>17, DistinctLen
  <2>2. ASSUME NEW d \in Chats, d # c PROVE tips'[d].count = Cardinality(kept'[d])
    BY <1>2, <1>3, <1>4, <1>5, <1>9, <1>13, <1>14, <1>17, <2>2
  <2> QED
    BY <2>1, <2>2
<1>24. \A d \in Chats : \A m \in kept'[d] : m < next'
  BY <1>1, <1>2, <1>4, <1>18
<1>25. Exact'
  <2>1. Tidy(page', free', tips', {}) /\ Holds(page', kept')
    BY <1>13, <1>14, <1>17
  <2> QED
    BY <1>16, <1>20, <1>22, <1>23, <1>24, <2>1 DEF Exact
<1> QED
  BY <1>21, <1>25

LEMMA OpenExact ==
  ASSUME Typed, Exact, Open
  PROVE  Typed' /\ Exact'
<1>1. op.at = "down" /\ ~Up
  BY DEF Open, Up
<1>2. /\ Tidy(page, free, tips, {}) /\ Holds(page, kept)
      /\ \A d \in Chats : \A m \in kept[d] : m < next
      /\ disk = page /\ diskFree = free /\ wal = <<>>
  BY <1>1, ExactIs
<1>3. /\ Becomes(Replay(FromHeap, Readable(wal))) /\ ckpt' = Replay(FromHeap, Readable(wal)).ckpt
      /\ disk' = Grown(disk, Len(Replay(FromHeap, Readable(wal)).page), "free")
      /\ op' = Idle /\ UNCHANGED <<diskFree, wal, next, kept>>
  BY DEF Open, FromHeap, history
<1>4. Replay(FromHeap, Readable(wal)) = FromHeap
  BY <1>2, NothingReadable, NothingReplayed
<1>5. PICK a, b, us : a = page /\ b = Relinked(a) /\ us = [c \in Chats |-> TipOf(a, c)]
  OBVIOUS
<1>6. page' = b /\ free' = free /\ tips' = us /\ ckpt' = meta.ckpt /\ disk' = Grown(disk, Len(b), "free")
  BY <1>2, <1>3, <1>4, <1>5 DEF Becomes, FromHeap
<1>7. a \in Seq(Pages) /\ Len(a) \in Nat /\ DOMAIN a = 1..Len(a)
  BY <1>5 DEF Typed
<1>8. b \in Seq(Pages) /\ Len(b) = Len(a) /\ us \in [Chats -> Tips]
  <2>1. \A c \in Chats : TipOf(a, c) \in Tips
    BY <1>7, TipIs
  <2>2. us \in [Chats -> Tips]
    BY <1>5, <2>1
  <2> QED
    BY <1>5, <1>7, <2>2, RelinkedIs
<1>9. PICK K, ts : K = kept /\ ts = tips
  OBVIOUS
<1>10. Tidy(b, free, us, {}) /\ Holds(b, K)
  <2>1. a \in Seq(Pages) /\ Tidy(a, free, ts, {}) /\ Holds(a, K) /\ b = Relinked(a) /\ us = [c \in Chats |-> TipOf(a, c)]
    BY <1>2, <1>5, <1>7, <1>9
  <2>2. Tidy(b, free, us, {})
    BY ONLY <2>1, RelinkedTidy
  <2>3. Holds(b, K)
    BY ONLY <2>1, RelinkedTidy
  <2> QED
    BY <2>2, <2>3
<1>11. \A c \in Chats : us[c].count = Cardinality(kept[c])
  <2> SUFFICES ASSUME NEW c \in Chats PROVE TipOf(a, c).count = Cardinality(K[c])
    BY <1>5, <1>9
  <2>1. K[c] \subseteq Messages
    BY <1>9 DEF Typed
  <2> QED
    BY <1>2, <1>5, <1>7, <1>9, <2>1, CountIs
<1>12. disk' \in Seq(Pages) /\ Len(disk') = Len(page')
  <2>1. disk \in Seq(Pages) /\ Len(disk) = Len(b) /\ Len(b) \in Nat
    BY <1>2, <1>5, <1>7, <1>8
  <2>2. PICK n : n = Len(b)
    OBVIOUS
  <2>3. disk' \in Seq(Pages) /\ Len(disk') = IF n > Len(disk) THEN n ELSE Len(disk)
    BY <1>6, <2>1, <2>2, GrownIs
  <2> QED
    BY <1>6, <2>1, <2>2, <2>3
<1>13. Typed'
  <2>1. page' \in Seq(Pages) /\ free' \in Nat /\ tips' \in [Chats -> Tips] /\ ckpt' \in Nat
    BY <1>6, <1>8 DEF Typed
  <2> QED
    BY <1>12, <2>1, OpenTyped
<1>14. op'.at = "idle"
  BY <1>3 DEF Idle
<1>15. Chains' = tips' /\ Loose' = {} /\ Held' = kept' /\ Up'
  BY <1>14 DEF Chains, Loose, Held, Up
<1>16. Exact'
  <2>1. Tidy(page', free', tips', {}) /\ Holds(page', kept')
    BY <1>3, <1>6, <1>9, <1>10
  <2>2. \A d \in Chats : tips'[d].count = Cardinality(kept'[d])
    BY <1>3, <1>6, <1>11
  <2> QED
    BY <1>2, <1>3, <1>12, <1>14, <1>15, <2>1, <2>2 DEF Exact
<1> QED
  BY <1>13, <1>16

LEMMA CleanInit == Init => CleanInv
<1> SUFFICES ASSUME Init PROVE CleanInv
  OBVIOUS
<1>1. /\ page = <<>> /\ free = 0 /\ tips = [c \in Chats |-> NoTip]
      /\ disk = <<>> /\ diskFree = 0 /\ wal = <<>> /\ op = Idle /\ op.at = "idle"
      /\ kept = [c \in Chats |-> {}] /\ trims = 0 /\ ckpts = 0 /\ kills = 0 /\ losses = 0
  BY DEF Init, Idle
<1>2. DOMAIN page = {} /\ FreePages(page) = {} /\ \A c : PagesOf(page, c) = {}
  BY <1>1 DEF FreePages, PagesOf
<1>3. IsList(page, 0, {})
  <2>1. PICK r : r = [x \in {} |-> 0]
    OBVIOUS
  <2>2. r \in [{} -> Nat]
    BY <2>1
  <2> QED
    BY <2>2 DEF IsList
<1>4. \A c \in Chats : tips[c] = NoTip /\ tips[c].head = 0 /\ tips[c].tail = 0 /\ tips[c].count = 0
  BY <1>1 DEF NoTip
<1>5. Tidy(page, free, tips, {})
  <2>1. \A c \in Chats : IsChain(page, tips[c], PagesOf(page, c) \ {})
    BY <1>2, <1>3, <1>4 DEF IsChain
  <2> QED
    BY <1>1, <1>2, <1>3, <2>1 DEF Tidy
<1>6. Holds(page, kept)
  BY <1>1, <1>2 DEF Holds, OnPage
<1>7. Chains = tips /\ Loose = {} /\ Held = kept /\ Up
  BY <1>1 DEF Chains, Loose, Held, Up
<1>8. \A c \in Chats : tips[c].count = Cardinality(kept[c])
  BY <1>1, <1>4, FS_EmptySet
<1>9. Exact
  BY <1>1, <1>5, <1>6, <1>7, <1>8 DEF Exact
<1> QED
  BY <1>1, <1>9, InitTyped DEF CleanInv, Counted

\* A step that is no fault.
LEMMA CleanStays ==
  ASSUME CleanInv, Counted', kills' = kills, losses' = losses, Typed /\ Exact => Typed' /\ Exact'
  PROVE  CleanInv'
  BY DEF CleanInv

LEMMA CleanStep == CleanInv /\ [Next]_vars => CleanInv'
<1> SUFFICES ASSUME CleanInv, [Next]_vars PROVE CleanInv'
  OBVIOUS
<1>1. Counted /\ Counted'
  BY CountsGrow DEF CleanInv
<1>2. ASSUME NEW c \in Chats, AppendMsg(c) PROVE CleanInv'
  <2>1. kills' = kills /\ losses' = losses
    BY <1>2 DEF AppendMsg, counters
  <2> QED
    BY <1>1, <1>2, <2>1, AppendExact, CleanStays
<1>3. ASSUME NEW c \in Chats, LogTrim(c) PROVE CleanInv'
  <2>1. kills' = kills /\ losses' = losses
    BY <1>3 DEF LogTrim
  <2> QED
    BY <1>1, <1>3, <2>1, LogTrimExact, CleanStays
<1>4. CASE LinkPage
  BY <1>1, <1>4, LinkExact, CleanStays DEF LinkPage, counters
<1>5. CASE Insert
  BY <1>1, <1>5, InsertExact, CleanStays DEF Insert, counters
<1>6. CASE LogInsert
  BY <1>1, <1>6, LogInsertExact, CleanStays DEF LogInsert, counters
<1>7. CASE FreeOld
  BY <1>1, <1>7, FreeOldExact, CleanStays DEF FreeOld, counters
<1>8. CASE RewriteKept
  BY <1>1, <1>8, RewriteExact, CleanStays DEF RewriteKept, counters
<1>9. ASSUME NEW p \in DOMAIN page, EvictPage(p) PROVE CleanInv'
  <2>1. kills' = kills /\ losses' = losses
    BY <1>9 DEF EvictPage, counters
  <2> QED
    BY <1>1, <1>9, <2>1, EvictExact, CleanStays
<1>10. CASE EvictSuper
  BY <1>1, <1>10, EvictSuperExact, CleanStays DEF EvictSuper, counters
<1>11. ASSUME NEW then \in {"idle", "down"}, Checkpoint(then) PROVE CleanInv'
  <2>1. kills' = kills /\ losses' = losses
    BY <1>11 DEF Checkpoint
  <2> QED
    BY <1>1, <1>11, <2>1, CheckpointExact, CleanStays
<1>12. CASE PersistMeta
  BY <1>1, <1>12, MetaExact, CleanStays DEF PersistMeta, counters
<1>13. CASE Rotate
  BY <1>1, <1>13, RotateExact, CleanStays DEF Rotate, counters
<1>14. CASE Open
  BY <1>1, <1>14, OpenExact, CleanStays DEF Open, counters
<1>15. CASE Kill \/ PowerLoss
  <2>1. (kills' = kills + 1 /\ losses' = losses) \/ (losses' = losses + 1 /\ kills' = kills)
    BY <1>15 DEF Kill, PowerLoss
  <2>2. kills \in Nat /\ losses \in Nat
    BY <1>1 DEF Counted
  <2>3. CASE kills' = kills + 1 /\ losses' = losses
    BY <1>1, <2>2, <2>3 DEF CleanInv
  <2>4. CASE losses' = losses + 1 /\ kills' = kills
    BY <1>1, <2>2, <2>4 DEF CleanInv
  <2> QED
    BY <2>1, <2>3, <2>4
<1>16. CASE UNCHANGED vars
  <2>1. /\ UNCHANGED <<page, free, tips, disk, diskFree, safe, safeFree, wal, synced, appends, nextLsn, ckpt>>
        /\ UNCHANGED <<meta, op, next, kept, stable, trims, ckpts, kills, losses>>
    BY <1>16 DEF vars, store, heap, fsynced, log, history, counters
  <2>2. Typed => Typed'
    BY <2>1 DEF Typed
  <2>3. Exact => Exact'
    <3>1. Chains' = Chains /\ Loose' = Loose /\ Held' = Held
      BY <2>1 DEF Chains, Loose, Held
    <3> QED
      BY <2>1, <3>1 DEF Exact, Up, PagesOf
  <2> QED
    BY <1>1, <2>1, <2>2, <2>3, CleanStays
<1> QED
  BY <1>2, <1>3, <1>4, <1>5, <1>6, <1>7, <1>8, <1>9, <1>10, <1>11, <1>12, <1>13, <1>14, <1>15, <1>16 DEF Next

\* Until something fails, the pages of each chat are its chain and hold what it kept, each
\* message once; the other pages are the free list.  The invariant behind CleanRunsAreExact.
THEOREM CleanInvariant == Spec => []CleanInv
<1>1. Init => CleanInv
  BY CleanInit
<1>2. CleanInv /\ [Next]_vars => CleanInv'
  BY CleanStep
<1> QED
  BY <1>1, <1>2, PTL DEF Spec

\* Between two calls: the chains and the free list, page by page.
LEMMA IdleIs ==
  ASSUME Typed, Exact, op = Idle
  PROVE  /\ Tidy(page, free, tips, {}) /\ Holds(page, kept)
         /\ \A c \in Chats : tips[c].count = Cardinality(kept[c])
         /\ page \in Seq(Pages) /\ Now \in Stores /\ Now.page = page /\ Now.free = free /\ Now.tips = tips
         /\ kept \in [Chats -> SUBSET Messages]
<1>1. op.at = "idle"
  BY DEF Idle
<1>2. page \in Seq(Pages) /\ kept \in [Chats -> SUBSET Messages]
  BY DEF Typed
<1> QED
  BY <1>1, <1>2, ExactIs, NowIs

LEMMA IdleReads ==
  ASSUME Typed, Exact, op = Idle, NEW c \in Chats
  PROVE  /\ Read(c) = kept[c] /\ Len(OnChain(Now, c)) = Cardinality(kept[c])
         /\ ToSet(Chain(Now, c)) = PagesOf(page, c) /\ Chain(Now, c) \in Seq(PagesOf(page, c))
<1>1. PICK s, k : s = Now /\ k = kept
  OBVIOUS
<1>2. /\ s \in Stores /\ Tidy(s.page, s.free, s.tips, {}) /\ Holds(s.page, k) /\ c \in Chats
      /\ PagesOf(s.page, c) \cap {} = {}
  BY <1>1, IdleIs
<1>3. s.page = page /\ k[c] \subseteq Messages
  BY <1>1, IdleIs
<1>4. Chain(s, c) \in Seq(PagesOf(s.page, c))
  BY ONLY <1>2, OnChainIs
<1>5. ToSet(Chain(s, c)) = PagesOf(s.page, c)
  BY ONLY <1>2, OnChainIs
<1>6. OnChain(s, c) \in Seq(Messages)
  BY ONLY <1>2, OnChainIs
<1>7. Distinct(OnChain(s, c))
  BY ONLY <1>2, OnChainIs
<1>8. \A m \in Messages : m \in ToSet(OnChain(s, c)) <=> m \in k[c]
  BY ONLY <1>2, OnChainIs
<1>9. ToSet(OnChain(s, c)) \subseteq Messages
  BY <1>6 DEF ToSet
<1>10. ToSet(OnChain(s, c)) = k[c]
  BY <1>3, <1>8, <1>9
<1>11. Cardinality(ToSet(OnChain(s, c))) = Len(OnChain(s, c))
  BY <1>6, <1>7, DistinctLen
<1> QED
  BY <1>1, <1>3, <1>4, <1>5, <1>10, <1>11 DEF Read

\* A page is in one chain, or on the free list.
LEMMA IdlePages ==
  ASSUME Typed, Exact, op = Idle, NEW p \in DOMAIN page
  PROVE  Cardinality({c \in Chats : Contains(Chain(Now, c), p)}) + (IF Contains(FreeList, p) THEN 1 ELSE 0) = 1
<1>1. page \in Seq(Pages) /\ Tidy(page, free, tips, {})
  BY IdleIs
<1>2. FreePages(page) \subseteq DOMAIN page /\ page[p].type \in {"chat", "free"}
  BY <1>1, PagesAre
<1>3. FreeList \in Seq(FreePages(page)) /\ ToSet(FreeList) = FreePages(page)
  <2>1. IsList(page, free, FreePages(page))
    BY <1>1 DEF Tidy
  <2> QED
    BY <1>1, <1>2, <2>1, WalkIs DEF FreeList
<1>4. Contains(FreeList, p) <=> page[p].type = "free"
  <2>1. Contains(FreeList, p) <=> p \in ToSet(FreeList)
    BY <1>3, ContainsIs
  <2> QED
    BY <1>3, <2>1 DEF FreePages
<1>5. \A c \in Chats : Contains(Chain(Now, c), p) <=> page[p].type = "chat" /\ page[p].chat = c
  <2> SUFFICES ASSUME NEW c \in Chats
               PROVE  Contains(Chain(Now, c), p) <=> page[p].type = "chat" /\ page[p].chat = c
    OBVIOUS
  <2>1. ToSet(Chain(Now, c)) = PagesOf(page, c) /\ Chain(Now, c) \in Seq(PagesOf(page, c))
    BY IdleReads
  <2>2. Contains(Chain(Now, c), p) <=> p \in ToSet(Chain(Now, c))
    BY <2>1, ContainsIs
  <2> QED
    BY <2>1, <2>2 DEF PagesOf
<1>6. PICK C : C = {c \in Chats : Contains(Chain(Now, c), p)}
  OBVIOUS
<1>7. CASE page[p].type = "free"
  <2>1. C = {}
    BY <1>5, <1>6, <1>7
  <2>2. Cardinality(C) = 0
    BY <2>1, FS_EmptySet
  <2> QED
    BY <1>4, <1>6, <1>7, <2>2
<1>8. CASE page[p].type = "chat"
  <2>1. PICK d : d = page[p].chat
    OBVIOUS
  <2>2. d \in Chats
    BY <1>1, <1>8, <2>1 DEF Tidy
  <2>3. C = {d}
    BY <1>5, <1>6, <1>8, <2>1, <2>2
  <2>4. Cardinality(C) = 1
    BY <2>3, FS_Singleton
  <2>5. ~Contains(FreeList, p)
    BY <1>4, <1>8
  <2> QED
    BY <1>6, <2>4, <2>5
<1> QED
  BY <1>2, <1>7, <1>8

\* While nothing fails, through any appends, trims, evictions, checkpoints and restarts, a
\* chat reads back its messages, each once, and counts them; a page is in one chain or on
\* the free list, never both, and none is lost.
THEOREM CleanRunsAreExact == Spec => []CleanIsExact
<1>1. CleanInv => CleanIsExact
  <2> SUFFICES ASSUME CleanInv, kills + losses = 0, op = Idle
               PROVE  /\ \A c \in Chats : /\ Read(c) = kept[c]
                                          /\ Len(OnChain(Now, c)) = Cardinality(kept[c])
                                          /\ tips[c].count = Cardinality(kept[c])
                      /\ \A p \in DOMAIN page :
                            Cardinality({c \in Chats : Contains(Chain(Now, c), p)})
                              + (IF Contains(FreeList, p) THEN 1 ELSE 0) = 1
    BY DEF CleanIsExact
  <2>1. Typed /\ Exact
    BY DEF CleanInv
  <2> QED
    BY <2>1, IdleIs, IdleReads, IdlePages
<1> QED
  BY <1>1, CleanInvariant, PTL

\* In memory, a page of a chat holds no message of another.
LEMMA CrashOwns ==
  ASSUME CrashInv, OneCrash, op = Idle, NEW c \in Chats, NEW d \in Chats, c # d
  PROVE  Found(c) \cap kept[d] = {}
<1>1. Memory
  BY DEF CrashInv, Up, Idle
<1> SUFFICES ASSUME NEW m \in Found(c), m \in kept[d] PROVE FALSE
  OBVIOUS
<1>2. PICK p \in PagesOf(page, c) : m \in ToSet(page[p].msgs)
  BY DEF Found
<1>3. p \in DOMAIN page /\ page[p].chat = c
  BY <1>2 DEF PagesOf
<1> QED
  BY <1>1, <1>2, <1>3 DEF Memory, Owned

LEMMA CleanOwns ==
  ASSUME Typed, Exact, op = Idle, NEW c \in Chats, NEW d \in Chats, c # d
  PROVE  Found(c) \cap kept[d] = {}
<1>1. page \in Seq(Pages) /\ Holds(page, kept) /\ kept[d] \subseteq Messages
  BY IdleIs
<1> SUFFICES ASSUME NEW m \in Found(c), m \in kept[d] PROVE FALSE
  OBVIOUS
<1>2. PICK p \in PagesOf(page, c) : m \in ToSet(page[p].msgs)
  BY DEF Found
<1>3. m \in Messages /\ OnPage(page, c, m)
  BY <1>1, <1>2 DEF OnPage
<1>4. m \in kept[c]
  BY <1>1, <1>3 DEF Holds
<1> QED
  BY <1>1, <1>3, <1>4, HoldsApart

\* Nobody finds a message of another chat in a chat: with any number of trims while nothing
\* fails, and without one through a crash.
THEOREM FoundMessagesAreOwn == Spec => []FoundIsOwn
<1>1. CrashInv /\ CleanInv => FoundIsOwn
  <2> SUFFICES ASSUME CrashInv, CleanInv, op = Idle, OneCrash \/ kills + losses = 0, NEW c \in Chats, NEW d \in Chats, c # d
               PROVE  Found(c) \cap kept[d] = {}
    BY DEF FoundIsOwn
  <2>1. CASE OneCrash
    BY <2>1, CrashOwns
  <2>2. CASE kills + losses = 0
    BY <2>2, CleanOwns DEF CleanInv
  <2> QED
    BY <2>1, <2>2
<1> QED
  BY <1>1, CrashInvariant, CleanInvariant, PTL

LEMMA TypeIs ==
  ASSUME Typed, free \in 0..Len(page), \A p \in DOMAIN page : page[p].next <= Len(page),
         \A c \in Chats : tips[c].head <= Len(page) /\ tips[c].tail <= Len(page), Up => Len(disk) = Len(page)
  PROVE  TypeOK
<1>1. PICK n : n = Len(page)
  OBVIOUS
<1>2. PICK T : T = [type : {"chat", "free"}, chat : Chats \cup {None}, next : 0..n, msgs : Seq(Messages)]
  OBVIOUS
<1>3. page \in Seq(Pages) /\ n \in Nat /\ DOMAIN page = 1..n
  BY <1>1 DEF Typed
<1>4. ASSUME NEW p \in 1..n PROVE page[p] \in T
  <2>1. page[p] \in Pages /\ page[p].next \in 0..n
    <3>1. page[p] \in Pages
      BY <1>3
    <3>2. page[p].next \in Nat /\ page[p].next <= n
      BY <1>1, <1>3, <3>1 DEF Pages
    <3> QED
      BY <1>3, <3>1, <3>2
  <2> QED
    BY ONLY <1>2, <2>1 DEF Pages
<1>5. page \in Seq(T)
  BY <1>1, <1>3, <1>4, ElementOfSeq, IsASeq
<1>6. \A c \in Chats : tips[c].head \in 0..Len(page) /\ tips[c].tail \in 0..Len(page)
  BY <1>1, <1>3 DEF Typed, Tips
<1>7. diskFree \in Nat /\ synced \in 0..Len(wal) /\ appends \in 0..(SyncEvery - 1) /\ next \in 1..(MaxMsgs + 1)
  BY DEF Typed
<1> QED
  BY <1>1, <1>2, <1>5, <1>6, <1>7 DEF TypeOK, Messages

\* Every variable has its type, and every page number points into the file, until a second
\* crash or a crash after a trim.
THEOREM TypesHold == Spec => [](OneCrash \/ kills + losses = 0 => TypeOK)
<1>1. ASSUME CrashInv, OneCrash PROVE TypeOK
  <2>1. Typed /\ free = 0 /\ InRange(page, tips) /\ (Up => Memory)
    BY <1>1 DEF CrashInv, Untrimmed
  <2>2. page \in Seq(Pages)
    BY <2>1 DEF Typed
  <2>3. free \in 0..Len(page)
    BY <2>1, <2>2
  <2> QED
    BY <2>1, <2>3, TypeIs DEF InRange, Memory
<1>2. ASSUME CleanInv, kills + losses = 0 PROVE TypeOK
  <2>1. Typed /\ Exact
    BY <1>2 DEF CleanInv
  <2>2. page \in Seq(Pages) /\ Len(page) \in Nat /\ DOMAIN page = 1..Len(page) /\ tips \in [Chats -> Tips]
    BY <2>1 DEF Typed
  <2>3. PICK ts, X : ts = Chains /\ X = Loose
    OBVIOUS
  <2>4. Tidy(page, free, ts, X) /\ (Up => Len(disk) = Len(page))
    BY <2>1, <2>3, ExactIs
  <2>5. free = 0 \/ free \in DOMAIN page
    BY <2>2, <2>4, TidyPointers
  <2>6. \A p \in DOMAIN page : page[p].next = 0 \/ page[p].next \in DOMAIN page
    BY <2>2, <2>4, TidyPointers
  <2>7. \A c \in Chats : (ts[c].head = 0 \/ ts[c].head \in DOMAIN page) /\ (ts[c].tail = 0 \/ ts[c].tail \in DOMAIN page)
    BY <2>2, <2>4, TidyPointers
  <2>8. ASSUME NEW c \in Chats PROVE tips[c].head <= Len(page) /\ tips[c].tail <= Len(page)
    <3>1. CASE op.at = "rewrite" /\ c = op.chat
      BY <2>1, <3>1 DEF Exact
    <3>2. CASE ~(op.at = "rewrite" /\ c = op.chat)
      <4>1. ts[c] = tips[c]
        BY <2>2, <2>3, <3>2 DEF Chains
      <4>2. (tips[c].head = 0 \/ tips[c].head \in 1..Len(page)) /\ (tips[c].tail = 0 \/ tips[c].tail \in 1..Len(page))
        BY <2>2, <2>7, <4>1
      <4> QED
        BY <2>2, <4>2
    <3> QED
      BY <3>1, <3>2
  <2>9. free \in 0..Len(page) /\ \A p \in DOMAIN page : page[p].next <= Len(page)
    BY <2>2, <2>5, <2>6
  <2> QED
    BY <2>1, <2>4, <2>8, <2>9, TypeIs
<1>3. CrashInv /\ CleanInv => (OneCrash \/ kills + losses = 0 => TypeOK)
  BY <1>1, <1>2
<1> QED
  BY <1>3, CrashInvariant, CleanInvariant, PTL

=============================================================================
