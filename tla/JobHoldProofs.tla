---------------------------- MODULE JobHoldProofs ----------------------------
(***************************************************************************)
(* The inbound hold, for any number of messages, any batch, ring and       *)
(* limits, any crashes and foreign transactions: a message is answered and *)
(* handed over at most once, skipped only when overtaken, and tracked      *)
(* until its turn is over.                                                 *)
(***************************************************************************)
EXTENDS JobHold, JobTableProofs

\* The queue still has message m to hand over, or has closed it, or has a row for it.
NotOpen(m) == AbstractStatus(jobs[m]) # "open" /\ AbstractStatus(disk[m]) # "open"
Shut(m)    == AbstractStatus(jobs[m]) = "closed" /\ AbstractStatus(disk[m]) = "closed"
HasRow(m)  == jobs[m].state # "absent" \/ disk[m].state # "absent"

\* The messages of a sequence, and that they are in the order of their rowids.
MsgsOf(q)    == {q[i] : i \in 1..Len(q)}
Ascending(q) == \A i, j \in 1..Len(q) : i < j => q[i] < q[j]

\* Messages of the batch.
InBatch == MsgsOf(batch)

\* The places between the claim and the splice, where rows are claimed, and all of the release.
ClaimPCs   == {"decode", "defer", "commit", "finish"}
ReleasePCs == {"expire", "gate", "claim"} \cup ClaimPCs

\* View and disk are the same unless a foreign transaction is open, and then no row is closed on disk only.
TableInv ==
  /\ ~foreign => jobs = disk
  /\ \A m \in Msgs : AbstractStatus(disk[m]) = "closed" => AbstractStatus(jobs[m]) = "closed"

\* The cursor is past every message the daemon has to do with.
CursorInv ==
  \A m \in Msgs : HasRow(m) \/ replies[m] > 0 \/ m \in InBatch \cup held \cup todo => m <= cursor

\* The batch is in the order of the rowids, released messages come before it, and nothing on its way to a
\* turn was answered or can be released again.
BatchInv ==
  /\ Ascending(batch)
  /\ \A m \in held : \A j \in InBatch : m < j
  /\ \A m \in InBatch \cup held : NotOpen(m) /\ replies[m] = 0

\* An answered message was answered once and cannot be released any more; neither can one that was handed over.
AnswerInv ==
  \A m \in Msgs :
    /\ replies[m] <= 1
    /\ replies[m] > 0 => NotOpen(m)
    /\ handed[m] > 0 => Shut(m)

\* A watermark is a message of the contact, and was answered.
WatermarkInv ==
  \A c \in Contacts : watermark[c] # 0 =>
    watermark[c] \in Msgs /\ Contact[watermark[c]] = c /\ replies[watermark[c]] > 0

\* Where the daemon stands: what it still has to do there.
PlaceInv ==
  /\ pc \in {"down", "poll"} => batch = << >>
  /\ pc \notin {"commit", "finish"} => held = {}
  /\ pc \in {"down", "poll", "expire", "gate", "claim", "turn"} => todo = {}
  /\ pc \in ReleasePCs => \A m \in Msgs : HasRow(m) => \A j \in InBatch : m < j
  /\ pc = "finish" => /\ jobs = disk
                      /\ \A m \in FirstOf(todo) : jobs[m].state = "sending" /\ replies[m] = 0 /\ m \notin held
  /\ pc = "mark" => /\ \E top \in todo : \A m \in todo : m <= top
                    /\ \A m \in todo : replies[m] > 0
  /\ pc = "hold" => \A m \in todo : replies[m] = 0 /\ m \notin InBatch

\* The inductive invariant.
HoldInv == TypeOK /\ TableInv /\ CursorInv /\ BatchInv /\ AnswerInv /\ WatermarkInv /\ PlaceInv

----------------------------------------------------------------------------
\* The slot of the ring that was written d releases ago.
Back(d) == IF d <= ringNext THEN ringNext - d ELSE ringNext + Slots - d

\* The queue has handed m over.
Out(m) == jobs[m].state \in {"sending", "done"} \/ disk[m].state \in {"sending", "done"}

\* What a release hands over fits the ring; it is in the slots written last; a message of the batch that was
\* released is in some slot.
TrackInv ==
  /\ Numbered(jobs) /\ Numbered(disk)
  /\ pc \in ClaimPCs => Cardinality(held) + Cardinality(todo) <= Slots
  /\ \A m \in held : \E d \in 1..Cardinality(held) : ring[Back(d)] = m
  /\ \A m \in InBatch : Out(m) => \E i \in 0..Slots - 1 : ring[i] = m

----------------------------------------------------------------------------
\* Messages are numbers, finitely many, and they are the keys of their jobs.
LEMMA MsgFacts == /\ Keys = Msgs /\ IsFiniteSet(Msgs) /\ LastMsg \in Nat
                  /\ \A m \in Msgs : m \in Nat /\ m >= 1 /\ m <= LastMsg
<1>1. \A m \in Msgs : m \in Nat /\ m >= 1 /\ m <= LastMsg
  BY HoldKeys DEF Msgs
<1>2. IsFiniteSet(Msgs)
  BY HoldKeys, KeysFinite
<1> QED
  BY <1>1, <1>2, HoldKeys

\* What a turn leaves of the batch: the messages behind it, still in order and none of the turn's.
LEMMA SuffixIs ==
  ASSUME NEW q \in Seq(Msgs), NEW n \in 1..Len(q), Ascending(q)
  PROVE  /\ SubSeq(q, n + 1, Len(q)) \in Seq(Msgs)
         /\ Ascending(SubSeq(q, n + 1, Len(q)))
         /\ MsgsOf(SubSeq(q, n + 1, Len(q))) \subseteq MsgsOf(q)
         /\ \A i \in 1..n : \A m \in MsgsOf(SubSeq(q, n + 1, Len(q))) : q[i] < m
         /\ \A i \in 1..n : q[i] \in MsgsOf(q) /\ q[i] <= q[n]
<1> DEFINE r == SubSeq(q, n + 1, Len(q))
<1>1. /\ r \in Seq(Msgs) /\ Len(r) = Len(q) - n /\ Len(q) \in Nat /\ n \in Nat
      /\ \A i \in 1..Len(r) : r[i] = q[n + i] /\ n + i \in 1..Len(q)
  OBVIOUS
<1>2. \A i \in 1..Len(q) : q[i] \in Nat
  BY MsgFacts
<1> HIDE DEF r
<1>3. Ascending(r)
  BY <1>1 DEF Ascending
<1>4. MsgsOf(r) \subseteq MsgsOf(q)
  BY <1>1 DEF MsgsOf
<1>5. ASSUME NEW i \in 1..n, NEW m \in MsgsOf(r)
      PROVE  q[i] < m
  <2>1. PICK j \in 1..Len(r) : m = r[j]
    BY DEF MsgsOf
  <2>2. i \in 1..Len(q) /\ n + j \in 1..Len(q) /\ i < n + j /\ m = q[n + j]
    BY <1>1, <2>1
  <2> QED
    BY <2>2 DEF Ascending
<1>6. ASSUME NEW i \in 1..n
      PROVE  q[i] \in MsgsOf(q) /\ q[i] <= q[n]
  <2>1. i \in 1..Len(q) /\ n \in 1..Len(q) /\ (i < n \/ i = n)
    BY <1>1
  <2>2. i < n => q[i] < q[n]
    BY <2>1 DEF Ascending
  <2>3. q[i] \in MsgsOf(q)
    BY <2>1 DEF MsgsOf
  <2> QED
    BY <1>2, <2>1, <2>2, <2>3
<1> QED
  BY <1>1, <1>3, <1>4, <1>5, <1>6 DEF r

\* Messages put in order are these messages, in order.
LEMMA InOrderIs ==
  ASSUME NEW S \in SUBSET Msgs, NEW q \in InOrder(S)
  PROVE  q \in Seq(Msgs) /\ Ascending(q) /\ MsgsOf(q) \subseteq S
<1>1. IsFiniteSet(S)
  BY MsgFacts, FS_Subset
<1>2. Cardinality(S) \in Nat
  BY <1>1, FS_CardinalityType
<1>3. q \in [1..Cardinality(S) -> S] /\ \A i, j \in DOMAIN q : i < j => q[i] < q[j]
  BY DEF InOrder
<1>4. q \in Seq(S) /\ Len(q) = Cardinality(S) /\ DOMAIN q = 1..Len(q)
  BY <1>2, <1>3
<1>5. q \in Seq(Msgs)
  BY <1>2, <1>3
<1> QED
  BY <1>3, <1>4, <1>5 DEF Ascending, MsgsOf

\* Two sequences in order, one below the other, are in order together.
LEMMA ConcatIs ==
  ASSUME NEW q \in Seq(Msgs), NEW r \in Seq(Msgs), Ascending(q), Ascending(r),
         \A m \in MsgsOf(q) : \A j \in MsgsOf(r) : m < j
  PROVE  q \o r \in Seq(Msgs) /\ Ascending(q \o r) /\ MsgsOf(q \o r) = MsgsOf(q) \cup MsgsOf(r)
<1> DEFINE s == q \o r
<1>1. /\ s \in Seq(Msgs) /\ Len(s) = Len(q) + Len(r) /\ Len(q) \in Nat /\ Len(r) \in Nat
      /\ \A i \in 1..Len(q) : s[i] = q[i] /\ i \in 1..Len(s)
      /\ \A i \in 1..Len(r) : s[Len(q) + i] = r[i] /\ Len(q) + i \in 1..Len(s)
  OBVIOUS
<1> HIDE DEF s
<1>2. \A i \in 1..Len(s) : i \in 1..Len(q) \/ \E j \in 1..Len(r) : i = Len(q) + j
  <2> SUFFICES ASSUME NEW i \in 1..Len(s), i \notin 1..Len(q)
               PROVE  \E j \in 1..Len(r) : i = Len(q) + j
    OBVIOUS
  <2>1. i - Len(q) \in 1..Len(r) /\ i = Len(q) + (i - Len(q))
    BY <1>1
  <2> QED
    BY <2>1
<1>3. Ascending(s)
  <2> SUFFICES ASSUME NEW i \in 1..Len(s), NEW j \in 1..Len(s), i < j
               PROVE  s[i] < s[j]
    BY DEF Ascending
  <2>1. CASE i \in 1..Len(q) /\ j \in 1..Len(q)
    BY <1>1, <2>1 DEF Ascending
  <2>2. ASSUME i \in 1..Len(q), NEW b \in 1..Len(r), j = Len(q) + b
        PROVE  s[i] < s[j]
    BY <1>1, <2>2 DEF MsgsOf
  <2>3. ASSUME NEW a \in 1..Len(r), NEW b \in 1..Len(r), i = Len(q) + a, j = Len(q) + b
        PROVE  s[i] < s[j]
    <3>1. a < b
      BY <1>1, <2>3
    <3> QED
      BY <1>1, <2>3, <3>1 DEF Ascending
  <2>4. ASSUME NEW a \in 1..Len(r), i = Len(q) + a
        PROVE  j \notin 1..Len(q)
    BY <1>1, <2>4
  <2> QED
    BY <1>2, <2>1, <2>2, <2>3, <2>4
<1>4. MsgsOf(s) = MsgsOf(q) \cup MsgsOf(r)
  <2>1. ASSUME NEW m \in MsgsOf(s)
        PROVE  m \in MsgsOf(q) \cup MsgsOf(r)
    <3>1. PICK i \in 1..Len(s) : m = s[i]
      BY DEF MsgsOf
    <3>2. CASE i \in 1..Len(q)
      BY <1>1, <3>1, <3>2 DEF MsgsOf
    <3>3. ASSUME NEW j \in 1..Len(r), i = Len(q) + j
          PROVE  m \in MsgsOf(r)
      BY <1>1, <3>1, <3>3 DEF MsgsOf
    <3> QED
      BY <1>2, <3>2, <3>3
  <2>2. MsgsOf(q) \subseteq MsgsOf(s)
    BY <1>1 DEF MsgsOf
  <2>3. MsgsOf(r) \subseteq MsgsOf(s)
    BY <1>1 DEF MsgsOf
  <2> QED
    BY <2>1, <2>2, <2>3
<1> QED
  BY <1>1, <1>3, <1>4 DEF s

----------------------------------------------------------------------------
\* The parts of the type invariant.
TableTypes == jobs \in Table /\ disk \in Table /\ foreign \in BOOLEAN
PlaceTypes == pc \in PCs /\ live \in BOOLEAN /\ modelUp \in BOOLEAN /\ crashes \in 0..MaxCrashes
RingTypes  == ring \in [0..Slots - 1 -> 0..LastMsg] /\ ringNext \in 0..Slots - 1
TimeTypes  == lastCheck \in Stamp /\ probe \in [up: BOOLEAN, at: Stamp]
ChatTypes  == /\ arrived \in 0..LastMsg /\ cursor \in 0..arrived
              /\ watermark \in [Contacts -> 0..LastMsg] /\ ownerAt \in [Contacts -> 0..LastMsg]
WorkTypes  == batch \in Seq(Msgs) /\ todo \subseteq Msgs /\ replied \subseteq Msgs /\ held \subseteq Msgs
CountTypes == handed \in [Msgs -> Nat] /\ replies \in [Msgs -> Nat]

\* They are the type invariant, before and after a step.
LEMMA TypeParts ==
  /\ TypeOK <=> /\ TableTypes /\ PlaceTypes /\ RingTypes /\ TimeTypes
                /\ ChatTypes /\ WorkTypes /\ CountTypes
  /\ TypeOK' <=> /\ TableTypes' /\ PlaceTypes' /\ RingTypes' /\ TimeTypes'
                 /\ ChatTypes' /\ WorkTypes' /\ CountTypes'
BY DEF TypeOK, Table, TableTypes, PlaceTypes, RingTypes, TimeTypes, ChatTypes, WorkTypes, CountTypes

\* A step of the tables that opens no row, reopens none and adds none.
KeepsRows ==
  /\ \A m \in Msgs : NotOpen(m) => NotOpen(m)'
  /\ \A m \in Msgs : Shut(m) => Shut(m)'
  /\ \A m \in Msgs : HasRow(m)' => HasRow(m)

\* Every statement but the INSERT keeps the rows, whether it commits or joins a foreign transaction.
LEMMA WriteKeeps ==
  ASSUME TableTypes, TableInv, NEW u \in Table, OnlyWithdraws(jobs, u), Statement(u) \/ OwnTransaction(u)
  PROVE  TableTypes' /\ TableInv' /\ KeepsRows
<1>1. jobs' = u /\ foreign' = foreign /\ disk' = (IF foreign THEN disk ELSE u)
  BY DEF Statement, OwnTransaction, TableTypes
<1>2. ~foreign => disk = jobs
  BY DEF TableInv
<1>3. /\ \A m \in Msgs : u[m].state = "absent" <=> jobs[m].state = "absent"
      /\ \A m \in Msgs : AbstractStatus(u[m]) = "open" => AbstractStatus(jobs[m]) = "open"
      /\ \A m \in Msgs : AbstractStatus(jobs[m]) = "closed" => AbstractStatus(u[m]) = "closed"
  BY WithdrawsStatus, MsgFacts
<1>4. TableTypes'
  BY <1>1 DEF TableTypes
<1>5. TableInv'
  BY <1>1, <1>3 DEF TableInv, TableTypes
<1>6. KeepsRows
  BY <1>1, <1>2, <1>3 DEF KeepsRows, NotOpen, Shut, HasRow, TableTypes
<1> QED
  BY <1>4, <1>5, <1>6

\* So does doing nothing, ...
LEMMA SameKeeps ==
  ASSUME TableTypes, TableInv, UNCHANGED dbVars
  PROVE  TableTypes' /\ TableInv' /\ KeepsRows
BY DEF dbVars, TableTypes, TableInv, KeepsRows, NotOpen, Shut, HasRow

\* ... the begin and the end of a foreign transaction, ...
LEMMA ForeignKeeps ==
  ASSUME TableTypes, TableInv, ForeignBegin \/ ForeignEnd
  PROVE  TableTypes' /\ TableInv' /\ KeepsRows
<1>1. CASE ForeignBegin
  BY <1>1 DEF ForeignBegin, TableTypes, TableInv, KeepsRows, NotOpen, Shut, HasRow
<1>2. CASE ForeignEnd
  BY <1>2 DEF ForeignEnd, TableTypes, TableInv, KeepsRows, NotOpen, Shut, HasRow
<1> QED
  BY <1>1, <1>2

\* ... and a crash, which loses what was not committed.
LEMMA CrashKeeps ==
  ASSUME TableTypes, TableInv, jobs' = disk, disk' = disk, foreign' = FALSE
  PROVE  TableTypes' /\ TableInv' /\ KeepsRows
BY DEF TableTypes, TableInv, KeepsRows, NotOpen, Shut, HasRow

\* Time changes the times of a row only, ...
LEMMA OlderRow ==
  ASSUME NEW t \in Table, NEW k \in Keys
  PROVE  /\ OlderRows(t)[k] \in Row /\ OlderRows(t)[k].state = t[k].state
         /\ OlderRows(t)[k].id = t[k].id /\ OlderRows(t)[k].kind = t[k].kind
<1>1. \A x \in Nat : Older(x) \in Nat
  BY DEF Older
<1>2. t[k] \in Row
  BY DEF Table
<1> DEFINE a == [t[k] EXCEPT !.due = Older(@)]
           b == [a EXCEPT !.created = Older(@)]
           c == [b EXCEPT !.lease = Older(@)]
<1>3. a \in Row /\ a.state = t[k].state /\ a.id = t[k].id /\ a.kind = t[k].kind
  BY <1>1, <1>2 DEF Row
<1> HIDE DEF a
<1>4. b \in Row /\ b.state = t[k].state /\ b.id = t[k].id /\ b.kind = t[k].kind
  BY <1>1, <1>3 DEF Row
<1> HIDE DEF b
<1>5. c \in Row /\ c.state = t[k].state /\ c.id = t[k].id /\ c.kind = t[k].kind
  BY <1>1, <1>4 DEF Row
<1>6. OlderRows(t)[k] = c
  BY <1>2 DEF OlderRows, a, b, Row
<1> QED
  BY <1>5, <1>6

\* ... so it keeps the rows as well.
LEMMA TickKeeps ==
  ASSUME TableTypes, TableInv, jobs' = OlderRows(jobs), disk' = OlderRows(disk), foreign' = foreign
  PROVE  TableTypes' /\ TableInv' /\ KeepsRows
<1>1. \A m \in Keys : /\ jobs'[m] \in Row /\ jobs'[m].state = jobs[m].state
                      /\ disk'[m] \in Row /\ disk'[m].state = disk[m].state
  BY OlderRow DEF TableTypes
<1>2. jobs' \in Table /\ disk' \in Table
  BY <1>1 DEF OlderRows, Table
<1>3. \A m \in Msgs : /\ AbstractStatus(jobs'[m]) = AbstractStatus(jobs[m])
                      /\ AbstractStatus(disk'[m]) = AbstractStatus(disk[m])
  BY <1>1, MsgFacts DEF AbstractStatus
<1>4. TableInv'
  BY <1>3 DEF TableInv
<1>5. KeepsRows
  BY <1>1, <1>3, MsgFacts DEF KeepsRows, NotOpen, Shut, HasRow
<1> QED
  BY <1>2, <1>4, <1>5 DEF TableTypes

----------------------------------------------------------------------------
\* All of the invariant but the types and the tables.
DaemonInv == CursorInv /\ BatchInv /\ AnswerInv /\ WatermarkInv /\ PlaceInv

\* No message is handed over, answered or put on its way to a turn, and rows are kept.
LEMMA QuietParts ==
  ASSUME HoldInv, KeepsRows, Ascending(batch'), InBatch' \subseteq InBatch, held' \subseteq held,
         \A m \in todo' : m \in todo \cup InBatch \/ (m \in Msgs /\ HasRow(m)),
         UNCHANGED <<replies, handed, watermark>>, cursor' \in Nat, cursor' >= cursor
  PROVE  CursorInv' /\ BatchInv' /\ AnswerInv' /\ WatermarkInv'
<1>0. /\ cursor \in Nat /\ InBatch \subseteq Msgs /\ held \subseteq Msgs /\ todo \subseteq Msgs
      /\ \A m \in Msgs : m \in Nat
  <2>1. WorkTypes /\ ChatTypes
    BY TypeParts DEF HoldInv
  <2>2. cursor \in Nat
    BY <2>1, HoldKeys DEF ChatTypes
  <2>3. InBatch \subseteq Msgs
    BY <2>1 DEF WorkTypes, InBatch, MsgsOf
  <2> QED
    BY <2>1, <2>2, <2>3, MsgFacts DEF WorkTypes
<1>1. CursorInv'
  <2> SUFFICES ASSUME NEW m \in Msgs,
                      HasRow(m)' \/ replies[m] > 0 \/ m \in InBatch \cup held \cup todo'
               PROVE  m <= cursor'
    BY DEF CursorInv
  <2>1. HasRow(m) \/ replies[m] > 0 \/ m \in InBatch \cup held \cup todo
    BY DEF KeepsRows
  <2>2. m <= cursor
    BY <2>1 DEF HoldInv, CursorInv
  <2> QED
    BY <1>0, <2>2
<1>2. BatchInv'
  <2>1. \A m \in held' : \A j \in InBatch' : m < j
    BY DEF HoldInv, BatchInv
  <2>2. \A m \in InBatch' \cup held' : NotOpen(m)' /\ replies'[m] = 0
    BY <1>0 DEF HoldInv, BatchInv, KeepsRows
  <2> QED
    BY <2>1, <2>2 DEF BatchInv
<1>3. AnswerInv'
  BY DEF HoldInv, AnswerInv, KeepsRows
<1>4. WatermarkInv'
  BY DEF HoldInv, WatermarkInv
<1> QED
  BY <1>1, <1>2, <1>3, <1>4

\* Such a step, to a place where nothing is in flight, answered or failed.
LEMMA QuietStep ==
  ASSUME HoldInv, KeepsRows, Ascending(batch'), InBatch' \subseteq InBatch, held' \subseteq held,
         \A m \in todo' : m \in todo \cup InBatch \/ (m \in Msgs /\ HasRow(m)),
         UNCHANGED <<replies, handed, watermark>>, cursor' \in Nat, cursor' >= cursor,
         pc' \notin {"finish", "mark", "hold"},
         pc' \in {"down", "poll"} => batch' = << >>,
         pc' \notin {"commit", "finish"} => held' = {},
         pc' \in {"down", "poll", "expire", "gate", "claim", "turn"} => todo' = {},
         pc' \in ReleasePCs => pc \in ReleasePCs
  PROVE  DaemonInv'
<1>1. CursorInv' /\ BatchInv' /\ AnswerInv' /\ WatermarkInv'
  BY QuietParts
<1>2. pc' \in ReleasePCs => \A m \in Msgs : HasRow(m)' => \A j \in InBatch' : m < j
  <2> SUFFICES ASSUME pc' \in ReleasePCs, NEW m \in Msgs, HasRow(m)', NEW j \in InBatch'
               PROVE  m < j
    OBVIOUS
  <2>1. HasRow(m) /\ j \in InBatch
    BY DEF KeepsRows
  <2> QED
    BY <2>1 DEF HoldInv, PlaceInv
<1>3. PlaceInv'
  BY <1>2 DEF PlaceInv
<1> QED
  BY <1>1, <1>3 DEF DaemonInv

\* A step of somebody else, which leaves what the daemon has before it.
LEMMA AmbientStep ==
  ASSUME HoldInv, KeepsRows, UNCHANGED <<pc, cursor, batch, todo, held, replies, handed, watermark>>,
         pc = "finish" => jobs' = jobs /\ disk' = disk
  PROVE  DaemonInv'
<1>1. /\ Ascending(batch') /\ InBatch' = InBatch /\ cursor' \in Nat /\ cursor' >= cursor
      /\ held' = held /\ todo' = todo
  <2>1. ChatTypes
    BY TypeParts DEF HoldInv
  <2>2. cursor \in Nat
    BY <2>1, HoldKeys DEF ChatTypes
  <2> QED
    BY <2>2 DEF HoldInv, BatchInv, InBatch
<1>2. CursorInv' /\ BatchInv' /\ AnswerInv' /\ WatermarkInv'
  BY <1>1, QuietParts
<1>3. pc' \in ReleasePCs => \A m \in Msgs : HasRow(m)' => \A j \in InBatch' : m < j
  BY <1>1 DEF HoldInv, PlaceInv, KeepsRows
<1>4. pc' = "finish" => FirstOf(todo)' = FirstOf(todo)
  BY DEF FirstOf, Before
<1>5. PlaceInv'
  BY <1>1, <1>3, <1>4 DEF HoldInv, PlaceInv
<1> QED
  BY <1>2, <1>5 DEF DaemonInv

\* What the invariant says of types, for use in the steps.
LEMMA HoldFacts ==
  ASSUME HoldInv
  PROVE  /\ TableTypes /\ PlaceTypes /\ RingTypes /\ TimeTypes /\ ChatTypes /\ WorkTypes /\ CountTypes
         /\ TableInv /\ Ascending(batch) /\ cursor \in Nat /\ arrived \in Nat /\ arrived <= LastMsg
         /\ InBatch \subseteq Msgs
<1>1. TableTypes /\ PlaceTypes /\ RingTypes /\ TimeTypes /\ ChatTypes /\ WorkTypes /\ CountTypes
  BY TypeParts DEF HoldInv
<1>2. cursor \in Nat /\ arrived \in Nat /\ arrived <= LastMsg
  BY <1>1, HoldKeys DEF ChatTypes
<1>3. InBatch \subseteq Msgs
  BY <1>1 DEF WorkTypes, InBatch, MsgsOf
<1> QED
  BY <1>1, <1>2, <1>3 DEF HoldInv, BatchInv

\* The parts make the invariant.
LEMMA HoldParts ==
  ASSUME TableTypes', PlaceTypes', RingTypes', TimeTypes', ChatTypes', WorkTypes', CountTypes',
         TableInv', DaemonInv'
  PROVE  HoldInv'
BY TypeParts DEF HoldInv, DaemonInv

----------------------------------------------------------------------------
\* The steps of the daemon other than mark_sending and hold_live.
QuietDaemon ==
  \/ Start \/ Poll \/ ExpireLive \/ Gate \/ ClaimHolds \/ CheckOwner \/ Splice \/ BatchDone \/ MarkReplied
  \/ \E m \in todo : \/ DecodeFails(m) \/ Defer(m) \/ Cancel(m) \/ FinishReleased(m)
                     \/ (MarkSending(m) /\ pc' # "finish")
  \/ \E n \in 1..Len(batch) : DedupSkip(n) \/ TurnSilent(n) \/ TurnReplies(n) \/ TurnFails(n)

\* What they do to the tables: a steady change of the view, committed unless a foreign transaction is open.
SteadyStep ==
  /\ Steady(jobs, jobs') /\ foreign' = foreign
  /\ disk' = IF foreign THEN disk ELSE jobs'

\* A lease is a time.
LEMMA LeaseType == Lease \in Nat /\ Lease >= Horizon /\ Horizon \in Nat /\ Cutoff \in Int
BY HoldTimes DEF Lease, Cutoff

\* claim_due's two statements.
LEMMA ClaimIsSteady ==
  ASSUME HoldInv, ClaimHolds
  PROVE  SteadyStep
<1> DEFINE t == Requeue(jobs, Horizon)
           S == SelectDue(t, {"inbound_hold"}, Horizon, ReleaseCap)
<1>1. jobs \in Table /\ (~foreign => jobs = disk)
  BY HoldFacts DEF TableTypes, TableInv
<1>2. CASE OwnTransaction(Claim(t, S, Lease))
  <2>1. Steady(jobs, t) /\ t \in Table
    BY <1>1, RequeueSteady DEF Steady
  <2>2. Lease \in Nat
    BY LeaseType
  <2>3. Steady(t, Claim(t, S, Lease))
    BY <2>1, <2>2, ClaimSteady
  <2> HIDE DEF t, S
  <2>4. Steady(jobs, Claim(t, S, Lease))
    BY <1>1, <2>1, <2>3, SteadyTransitive
  <2> QED
    BY <1>2, <2>4 DEF OwnTransaction, SteadyStep
<1>3. CASE UNCHANGED <<dbVars, todo>>
  BY <1>1, <1>3, SteadyReflexive DEF dbVars, SteadyStep
<1> QED
  BY <1>2, <1>3 DEF ClaimHolds

\* The statements on one row: finish and release, where they are allowed.
LEMMA RowIsSteady ==
  ASSUME HoldInv, NEW m \in todo, DecodeFails(m) \/ Defer(m) \/ Cancel(m) \/ FinishReleased(m)
  PROVE  SteadyStep
<1>1. jobs \in Table /\ m \in Keys /\ (~foreign => jobs = disk) /\ foreign \in BOOLEAN
  BY HoldFacts, MsgFacts DEF TableTypes, TableInv, WorkTypes
<1>2. ASSUME NEW st \in FinishStates, MayFinish(jobs[m], st, Lease)
      PROVE  Steady(jobs, ToFinished(jobs, m, st))
  BY <1>1, <1>2, ToFinishedSteady
<1>3. MayRelease(jobs[m], Lease) => Steady(jobs, ToPending(jobs, m, 0))
  BY <1>1, ToPendingSteady DEF MayRelease
<1>4. Steady(jobs, jobs)
  BY <1>1, SteadyReflexive
<1>5. {"failed", "canceled", "done"} \subseteq FinishStates
  BY DEF FinishStates
<1>6. CASE DecodeFails(m)
  BY <1>1, <1>2, <1>4, <1>5, <1>6 DEF DecodeFails, Statement, SteadyStep
<1>7. CASE Defer(m)
  BY <1>1, <1>3, <1>4, <1>7 DEF Defer, GiveBack, Statement, SteadyStep
<1>8. CASE Cancel(m)
  BY <1>1, <1>2, <1>4, <1>5, <1>8 DEF Cancel, Statement, SteadyStep
<1>9. CASE FinishReleased(m)
  BY <1>1, <1>2, <1>4, <1>5, <1>9 DEF FinishReleased, Statement, dbVars, SteadyStep
<1> QED
  BY <1>6, <1>7, <1>8, <1>9

\* Every one of these steps is steady.
LEMMA QuietIsSteady ==
  ASSUME HoldInv, QuietDaemon
  PROVE  SteadyStep
<1>1. jobs \in Table /\ (~foreign => jobs = disk) /\ foreign \in BOOLEAN
  BY HoldFacts DEF TableTypes, TableInv
<1>2. ASSUME UNCHANGED dbVars PROVE SteadyStep
  BY <1>1, <1>2, SteadyReflexive DEF dbVars, SteadyStep
<1>3. CASE Start
  <2>1. Steady(jobs, Recover(jobs, Horizon))
    BY <1>1, RecoverSteady
  <2> QED
    BY <1>1, <1>2, <1>3, <2>1 DEF Start, OwnTransaction, SteadyStep
<1>4. CASE ExpireLive
  <2>1. Steady(jobs, Expire(jobs, "inbound_hold", Cutoff))
    BY <1>1, ExpireSteady
  <2> QED
    BY <1>1, <1>4, <2>1 DEF ExpireLive, Statement, SteadyStep
<1>5. CASE ClaimHolds
  BY <1>5, ClaimIsSteady
<1>6. ASSUME NEW m \in todo, DecodeFails(m) \/ Defer(m) \/ Cancel(m) \/ FinishReleased(m)
      PROVE  SteadyStep
  BY <1>6, RowIsSteady
<1>7. ASSUME NEW m \in todo, MarkSending(m) /\ pc' # "finish"
      PROVE  SteadyStep
  BY <1>2, <1>7 DEF MarkSending
<1>8. CASE Poll \/ Gate \/ CheckOwner \/ Splice \/ BatchDone \/ MarkReplied
  BY <1>2, <1>8 DEF Poll, Gate, CheckOwner, Splice, BatchDone, MarkReplied
<1>9. ASSUME NEW n \in 1..Len(batch), DedupSkip(n) \/ TurnSilent(n) \/ TurnReplies(n) \/ TurnFails(n)
      PROVE  SteadyStep
  BY <1>2, <1>9 DEF DedupSkip, TurnSilent, TurnReplies, TurnFails
<1> QED
  BY <1>3, <1>4, <1>5, <1>6, <1>7, <1>8, <1>9 DEF QuietDaemon

\* So they keep the rows.
LEMMA QuietKeeps ==
  ASSUME HoldInv, QuietDaemon
  PROVE  TableTypes' /\ TableInv' /\ KeepsRows
<1>1. SteadyStep
  BY QuietIsSteady
<1>2. Statement(jobs')
  BY <1>1 DEF SteadyStep, Statement
<1> QED
  BY <1>1, <1>2, HoldFacts, WriteKeeps DEF SteadyStep, Steady

----------------------------------------------------------------------------
\* The start: recovery, and a cursor that may only move on.
LEMMA StartHolds ==
  ASSUME HoldInv, Start
  PROVE  HoldInv'
<1>1. /\ pc = "down" /\ pc' = "poll" /\ cursor' = ResumeRowid /\ live' \in BOOLEAN
      /\ UNCHANGED <<todo, replied, held, ring, ringNext, lastCheck, probe, arrived, ownerAt,
                     crashes, handed, replies, batch, modelUp, watermark>>
  BY DEF Start, releaseVars, chatVars, historyVars
<1>2. TableTypes' /\ TableInv' /\ KeepsRows
  BY QuietKeeps DEF QuietDaemon
<1>3. cursor' \in Nat /\ cursor' >= cursor /\ cursor' \in 0..arrived
  BY <1>1, HoldFacts, HoldLimits DEF ResumeRowid, ChatTypes
<1>4. batch = << >> /\ todo = {} /\ held = {}
  BY <1>1 DEF HoldInv, PlaceInv
<1>5. Ascending(batch') /\ InBatch' = InBatch
  BY <1>1, HoldFacts DEF InBatch
<1>6. DaemonInv'
  <2>1. pc' \notin ReleasePCs /\ pc' \notin {"finish", "mark", "hold"} /\ held' = {} /\ todo' = {} /\ batch' = << >>
    BY <1>1, <1>4 DEF ReleasePCs, ClaimPCs
  <2> QED
    BY <1>1, <1>2, <1>3, <1>5, <2>1, QuietStep
<1>7. PlaceTypes' /\ RingTypes' /\ TimeTypes' /\ ChatTypes' /\ WorkTypes' /\ CountTypes'
  BY <1>1, <1>3, HoldFacts DEF PlaceTypes, PCs, RingTypes, TimeTypes, ChatTypes, WorkTypes, CountTypes
<1> QED
  BY <1>2, <1>6, <1>7, HoldParts

\* The poll: what it returns is behind the cursor, so no row and no answer is there yet.
LEMMA PollHolds ==
  ASSUME HoldInv, Poll
  PROVE  HoldInv'
<1>1. /\ pc = "poll" /\ pc' \in {"expire", "turn"} /\ cursor' = PollUpTo /\ lastCheck' \in {Horizon, lastCheck}
      /\ UNCHANGED <<jobs, disk, foreign, todo, replied, held, live, ring, ringNext, probe, arrived, ownerAt,
                     crashes, handed, replies, modelUp, watermark>>
  BY DEF Poll, dbVars, releaseVars, chatVars, historyVars
<1>2. TableTypes' /\ TableInv' /\ KeepsRows
  BY QuietKeeps DEF QuietDaemon
<1>3. cursor' \in Nat /\ cursor' >= cursor /\ cursor' \in 0..arrived
  BY <1>1, HoldFacts, HoldLimits DEF PollUpTo, ChatTypes
<1>4. batch = << >> /\ todo = {} /\ held = {}
  BY <1>1 DEF HoldInv, PlaceInv
<1>5. PICK new \in Deliverable : batch' \in InOrder(new)
  BY DEF Poll
<1>6. new \subseteq Msgs /\ \A m \in new : cursor < m /\ m <= cursor'
  <2>1. new \subseteq cursor + 1..PollUpTo
    BY <1>5 DEF Deliverable
  <2>2. PollUpTo \in Nat /\ PollUpTo <= LastMsg
    <3>1. cursor' \in Nat /\ cursor' <= arrived /\ arrived \in Nat /\ arrived <= LastMsg /\ LastMsg \in Nat
      BY <1>3, HoldFacts, HoldKeys
    <3> QED
      BY <1>1, <3>1
  <2> QED
    BY <1>1, <2>1, <2>2, HoldFacts, HoldKeys DEF Msgs
<1>7. batch' \in Seq(Msgs) /\ Ascending(batch') /\ InBatch' \subseteq new
  BY <1>5, <1>6, InOrderIs DEF InBatch
<1>8. ASSUME NEW m \in new
      PROVE  ~HasRow(m) /\ NotOpen(m) /\ replies[m] = 0
  <2>1. m \in Msgs /\ m \in Nat /\ ~(m <= cursor) /\ replies[m] \in Nat
    BY <1>6, MsgFacts, HoldFacts DEF CountTypes
  <2>2. ~HasRow(m) /\ ~(replies[m] > 0)
    BY <2>1 DEF HoldInv, CursorInv
  <2> QED
    BY <2>1, <2>2 DEF HasRow, NotOpen, AbstractStatus
<1>9. CursorInv'
  <2> SUFFICES ASSUME NEW m \in Msgs, HasRow(m)' \/ replies[m] > 0 \/ m \in InBatch'
               PROVE  m <= cursor'
    BY <1>1, <1>4 DEF CursorInv
  <2>1. CASE m \in InBatch'
    BY <1>6, <1>7, <2>1
  <2>2. CASE HasRow(m) \/ replies[m] > 0
    <3>1. m <= cursor
      BY <2>2 DEF HoldInv, CursorInv
    <3> QED
      BY <1>3, <3>1, MsgFacts, HoldFacts
  <2> QED
    BY <1>2, <2>1, <2>2 DEF KeepsRows
<1>10. BatchInv'
  <2>1. held' = {}
    BY <1>1, <1>4
  <2>2. \A m \in InBatch' : NotOpen(m)' /\ replies'[m] = 0
    BY <1>1, <1>2, <1>6, <1>7, <1>8 DEF KeepsRows
  <2> QED
    BY <1>7, <2>1, <2>2 DEF BatchInv
<1>11. AnswerInv' /\ WatermarkInv'
  BY <1>1, <1>2 DEF HoldInv, AnswerInv, WatermarkInv, KeepsRows
<1>12. \A m \in Msgs : HasRow(m)' => \A j \in InBatch' : m < j
  <2> SUFFICES ASSUME NEW m \in Msgs, HasRow(m), NEW j \in new
               PROVE  m < j
    BY <1>2, <1>7 DEF KeepsRows
  <2>1. m <= cursor
    BY DEF HoldInv, CursorInv
  <2>2. cursor < j /\ j \in Nat /\ m \in Nat /\ cursor \in Nat
    BY <1>6, MsgFacts, HoldFacts
  <2> QED
    BY <2>1, <2>2
<1>13. PlaceInv'
  BY <1>1, <1>4, <1>12 DEF PlaceInv
<1>14. PlaceTypes' /\ RingTypes' /\ ChatTypes' /\ WorkTypes' /\ CountTypes'
  BY <1>1, <1>3, <1>7, HoldFacts DEF PlaceTypes, PCs, RingTypes, ChatTypes, WorkTypes, CountTypes
<1>15. TimeTypes'
  BY <1>1, HoldFacts, HoldTimes DEF TimeTypes, Stamp
<1> QED
  BY <1>2, <1>9, <1>10, <1>11, <1>13, <1>14, <1>15, HoldParts DEF DaemonInv

\* Steps of the release that look and write but hand nothing over.
LEMMA LookHolds ==
  ASSUME HoldInv, pc \in ReleasePCs \ {"finish"}, pc' \in PCs \ {"down", "poll", "finish", "mark", "hold"},
         pc' # "commit" => held = {},
         pc' \in {"expire", "gate", "claim", "turn"} => todo' = {},
         todo' \subseteq Msgs, \A m \in todo' : m \in todo \/ HasRow(m),
         TableTypes', TableInv', KeepsRows,
         replied' \subseteq Msgs, probe' \in [up: BOOLEAN, at: Stamp],
         UNCHANGED <<live, modelUp, crashes, ring, ringNext, lastCheck, arrived, ownerAt, watermark,
                     handed, replies, held, cursor, batch>>
  PROVE  HoldInv'
<1>1. Ascending(batch') /\ InBatch' = InBatch /\ cursor' \in Nat /\ cursor' >= cursor /\ held' = held
  BY HoldFacts DEF InBatch
<1>2. \A m \in todo' : m \in todo \cup InBatch \/ (m \in Msgs /\ HasRow(m))
  OBVIOUS
<1>3. DaemonInv'
  BY <1>1, <1>2, QuietStep DEF PCs
<1>4. PlaceTypes' /\ RingTypes' /\ TimeTypes' /\ ChatTypes' /\ WorkTypes' /\ CountTypes'
  BY HoldFacts DEF PlaceTypes, RingTypes, TimeTypes, ChatTypes, WorkTypes, CountTypes
<1> QED
  BY <1>3, <1>4, HoldParts

\* expire_live.
LEMMA ExpireHolds ==
  ASSUME HoldInv, ExpireLive
  PROVE  HoldInv'
<1>1. /\ pc = "expire" /\ pc' = "gate"
      /\ UNCHANGED <<todo, replied, held, live, ring, ringNext, lastCheck, probe, arrived, ownerAt,
                     crashes, handed, replies, cursor, batch, modelUp, watermark>>
  BY DEF ExpireLive, releaseVars, processVars, chatVars, historyVars
<1>2. TableTypes' /\ TableInv' /\ KeepsRows
  BY QuietKeeps DEF QuietDaemon
<1>3. todo = {} /\ held = {}
  BY <1>1 DEF HoldInv, PlaceInv
<1>4. todo' \subseteq Msgs /\ replied' \subseteq Msgs /\ probe' \in [up: BOOLEAN, at: Stamp]
  BY <1>1, HoldFacts DEF WorkTypes, TimeTypes
<1> QED
  BY <1>1, <1>2, <1>3, <1>4, LookHolds DEF ReleasePCs, ClaimPCs, PCs

\* What the probe's cache holds is an answer and a time.
LEMMA ProbeType ==
  ASSUME HoldInv
  PROVE  /\ ProbeCached \in [up: BOOLEAN, at: Stamp]
         /\ [up |-> modelUp, at |-> Horizon] \in [up: BOOLEAN, at: Stamp]
<1>1. Horizon \in Stamp /\ modelUp \in BOOLEAN /\ probe \in [up: BOOLEAN, at: Stamp]
  BY HoldFacts, HoldTimes DEF Stamp, PlaceTypes, TimeTypes
<1> QED
  BY <1>1 DEF ProbeCached

\* release_live up to the claim.
LEMMA GateHolds ==
  ASSUME HoldInv, Gate
  PROVE  HoldInv'
<1>1. /\ pc = "gate" /\ pc' \in {"claim", "turn"} /\ probe' \in {ProbeCached, probe}
      /\ UNCHANGED dbVars
      /\ UNCHANGED <<todo, replied, held, live, ring, ringNext, lastCheck, arrived, ownerAt,
                     crashes, handed, replies, cursor, batch, modelUp, watermark>>
  BY DEF Gate, releaseVars, chatVars, historyVars
<1>2. TableTypes' /\ TableInv' /\ KeepsRows
  BY QuietKeeps DEF QuietDaemon
<1>3. todo = {} /\ held = {}
  BY <1>1 DEF HoldInv, PlaceInv
<1>4. todo' \subseteq Msgs /\ replied' \subseteq Msgs /\ probe' \in [up: BOOLEAN, at: Stamp]
  BY <1>1, HoldFacts, ProbeType DEF WorkTypes, TimeTypes
<1> QED
  BY <1>1, <1>2, <1>3, <1>4, LookHolds DEF ReleasePCs, ClaimPCs, PCs

\* claim_due: what it claims has a row.
LEMMA ClaimStepHolds ==
  ASSUME HoldInv, ClaimHolds
  PROVE  HoldInv'
<1> DEFINE t == Requeue(jobs, Horizon)
           S == SelectDue(t, {"inbound_hold"}, Horizon, ReleaseCap)
<1>1. /\ pc = "claim"
      /\ UNCHANGED <<replied, held, live, ring, ringNext, lastCheck, probe, arrived, ownerAt,
                     crashes, handed, replies, cursor, batch, modelUp, watermark>>
  BY DEF ClaimHolds, processVars, chatVars, historyVars
<1>2. todo = {} /\ held = {}
  BY <1>1 DEF HoldInv, PlaceInv
<1>3. Steady(jobs, t) /\ t \in Table
  BY HoldFacts, RequeueSteady DEF TableTypes, Steady
<1>4. S \subseteq Msgs /\ \A m \in S : HasRow(m)
  <2>1. S \subseteq Keys /\ \A m \in S : t[m].state = "pending"
    BY DEF SelectDue, Due
  <2> HIDE DEF S, t
  <2>2. \A m \in Keys : t[m].state = "absent" <=> jobs[m].state = "absent"
    BY <1>3, WithdrawsStatus DEF Steady
  <2> QED
    BY <2>1, <2>2, MsgFacts DEF HasRow
<1>5. TableTypes' /\ TableInv' /\ KeepsRows
  BY QuietKeeps DEF QuietDaemon
<1>6. (todo' = S /\ pc' = "decode") \/ (todo' = todo /\ pc' = "turn")
  BY DEF ClaimHolds
<1>7. todo' \subseteq Msgs /\ replied' \subseteq Msgs /\ probe' \in [up: BOOLEAN, at: Stamp]
  BY <1>1, <1>4, <1>6, HoldFacts DEF WorkTypes, TimeTypes
<1> HIDE DEF S, t
<1> QED
  BY <1>1, <1>2, <1>4, <1>5, <1>6, <1>7, LookHolds DEF ReleasePCs, ClaimPCs, PCs

\* A row that leaves the list of claimed ones, by a statement or without: undecodable, deferred, canceled or
\* refused.
LEMMA DropHolds ==
  ASSUME HoldInv, NEW m \in todo, pc \in {"decode", "defer", "commit"}, todo' = todo \ {m},
         pc' \in {pc, "turn"}, pc' = "turn" => pc = "defer" /\ todo' = {},
         TableTypes', TableInv', KeepsRows,
         UNCHANGED <<replied, held, live, ring, ringNext, lastCheck, probe, arrived, ownerAt,
                     crashes, handed, replies, cursor, batch, modelUp, watermark>>
  PROVE  HoldInv'
<1>1. pc # "commit" => held = {}
  BY DEF HoldInv, PlaceInv
<1>2. todo' \subseteq Msgs /\ replied' \subseteq Msgs /\ probe' \in [up: BOOLEAN, at: Stamp]
  BY HoldFacts DEF WorkTypes, TimeTypes
<1>3. todo' \subseteq todo
  OBVIOUS
<1> QED
  BY <1>1, <1>2, <1>3, LookHolds DEF ReleasePCs, ClaimPCs, PCs

\* claim_and_check, a payload that does not decode.
LEMMA DecodeFailsHolds ==
  ASSUME HoldInv, NEW m \in todo, DecodeFails(m)
  PROVE  HoldInv'
<1>1. /\ pc = "decode" /\ pc' = pc /\ todo' = todo \ {m}
      /\ UNCHANGED <<replied, held, live, ring, ringNext, lastCheck, probe, arrived, ownerAt,
                     crashes, handed, replies, cursor, batch, modelUp, watermark>>
  BY DEF DecodeFails, processVars, chatVars, historyVars
<1>2. TableTypes' /\ TableInv' /\ KeepsRows
  BY QuietKeeps DEF QuietDaemon
<1> QED
  BY <1>1, <1>2, DropHolds

\* ... chat.db is asked ...
LEMMA CheckOwnerHolds ==
  ASSUME HoldInv, CheckOwner
  PROVE  HoldInv'
<1>1. /\ pc = "decode" /\ UNCHANGED dbVars
      /\ UNCHANGED <<todo, held, live, ring, ringNext, lastCheck, probe, arrived, ownerAt,
                     crashes, handed, replies, cursor, batch, modelUp, watermark>>
  BY DEF CheckOwner, processVars, chatVars, historyVars
<1>2. TableTypes' /\ TableInv' /\ KeepsRows
  BY QuietKeeps DEF QuietDaemon
<1>3. held = {}
  BY <1>1 DEF HoldInv, PlaceInv
<1>4. /\ pc' \in {"turn", "commit", "defer"} /\ (pc' = "turn" => todo = {})
      /\ replied' \subseteq Msgs
  BY HoldFacts DEF CheckOwner, WorkTypes
<1>5. todo' \subseteq Msgs /\ probe' \in [up: BOOLEAN, at: Stamp]
  BY <1>1, HoldFacts DEF WorkTypes, TimeTypes
<1> QED
  BY <1>1, <1>2, <1>3, <1>4, <1>5, LookHolds DEF ReleasePCs, ClaimPCs, PCs

\* ... and if it cannot tell the row is given back.
LEMMA DeferHolds ==
  ASSUME HoldInv, NEW m \in todo, Defer(m)
  PROVE  HoldInv'
<1>1. /\ pc = "defer" /\ todo' = todo \ {m} /\ pc' = (IF todo' = {} THEN "turn" ELSE "defer")
      /\ UNCHANGED <<replied, held, live, ring, ringNext, lastCheck, probe, arrived, ownerAt,
                     crashes, handed, replies, cursor, batch, modelUp, watermark>>
  BY DEF Defer, processVars, chatVars, historyVars
<1>2. TableTypes' /\ TableInv' /\ KeepsRows
  BY QuietKeeps DEF QuietDaemon
<1> QED
  BY <1>1, <1>2, DropHolds

\* A row the owner has answered is canceled.
LEMMA CancelHolds ==
  ASSUME HoldInv, NEW m \in todo, Cancel(m)
  PROVE  HoldInv'
<1>1. /\ pc = "commit" /\ pc' = pc /\ todo' = todo \ {m}
      /\ UNCHANGED <<replied, held, live, ring, ringNext, lastCheck, probe, arrived, ownerAt,
                     crashes, handed, replies, cursor, batch, modelUp, watermark>>
  BY DEF Cancel, processVars, chatVars, historyVars
<1>2. TableTypes' /\ TableInv' /\ KeepsRows
  BY QuietKeeps DEF QuietDaemon
<1> QED
  BY <1>1, <1>2, DropHolds

----------------------------------------------------------------------------
\* The first of the rows S in table t.
FirstIn(t, S) == {m \in S : \A j \in S \ {m} : Before(t, m, j)}

\* There is at most one, ...
LEMMA FirstIsOne ==
  ASSUME NEW t \in Table, NEW S \in SUBSET Keys, NEW m \in FirstIn(t, S), NEW n \in FirstIn(t, S)
  PROVE  m = n
<1> SUFFICES ASSUME m # n PROVE FALSE
  OBVIOUS
<1>1. Before(t, m, n) /\ Before(t, n, m) /\ m \in Keys /\ n \in Keys
  BY DEF FirstIn
<1>2. t[m].due \in Nat /\ t[n].due \in Nat /\ t[m].id \in Nat /\ t[n].id \in Nat
  BY <1>1, RowFields DEF Table
<1> QED
  BY <1>1, <1>2 DEF Before

\* ... and mark_sending, which touches neither due_at nor the number, does not change it.
LEMMA FirstIsSame ==
  ASSUME NEW t, NEW u, NEW S \in SUBSET Keys,
         \A k \in Keys : u[k].due = t[k].due /\ u[k].id = t[k].id
  PROVE  FirstIn(u, S) = FirstIn(t, S)
BY DEF FirstIn, Before

\* commit_release: the row is in flight, in the view and on disk, before its message is handed over.
LEMMA SendHolds ==
  ASSUME HoldInv, NEW m \in todo, pc = "commit", m \in FirstOf(todo), MaySend(jobs[m], Lease, Horizon),
         OwnTransaction(ToSending(jobs, m)), pc' = "finish", todo' = todo,
         UNCHANGED <<replied, held, live, ring, ringNext, lastCheck, probe, arrived, ownerAt,
                     crashes, handed, replies, cursor, batch, modelUp, watermark>>
  PROVE  HoldInv'
<1> DEFINE u == ToSending(jobs, m)
<1>1. /\ jobs \in Table /\ m \in Keys /\ m \in Msgs /\ jobs[m].state = "claimed" /\ todo \in SUBSET Keys
      /\ replies[m] \in Nat
  BY HoldFacts, MsgFacts DEF TableTypes, WorkTypes, MaySend, CountTypes
<1>2. u \in Table /\ u[m].state = "sending" /\ \A k \in Keys : u[k].due = jobs[k].due /\ u[k].id = jobs[k].id
  BY <1>1, ToSendingRow DEF SameOrigin
<1>3. OnlyWithdraws(jobs, u)
  BY <1>1, ToSendingCloses
<1> HIDE DEF u
<1>4. OwnTransaction(u)
  BY DEF u
<1>5. TableTypes' /\ TableInv' /\ KeepsRows
  BY <1>2, <1>3, <1>4, HoldFacts, WriteKeeps
<1>6. jobs' = u /\ disk' = u
  BY <1>4 DEF OwnTransaction
<1>7. ~NotOpen(m)
  BY <1>1 DEF NotOpen, AbstractStatus
<1>8. replies[m] = 0 /\ m \notin held
  BY <1>1, <1>7 DEF HoldInv, AnswerInv, BatchInv
<1>9. \A n \in FirstOf(todo)' : n = m
  <2>1. FirstOf(todo)' = FirstIn(u, todo) /\ FirstOf(todo) = FirstIn(jobs, todo)
    BY <1>6 DEF FirstOf, FirstIn
  <2>2. FirstIn(u, todo) = FirstIn(jobs, todo)
    BY <1>1, <1>2, FirstIsSame
  <2> QED
    BY <1>1, <2>1, <2>2, FirstIsOne
<1>10. Ascending(batch') /\ InBatch' = InBatch /\ cursor' \in Nat /\ cursor' >= cursor /\ held' = held
  BY HoldFacts DEF InBatch
<1>11. CursorInv' /\ BatchInv' /\ AnswerInv' /\ WatermarkInv'
  BY <1>5, <1>10, QuietParts
<1>12. \A n \in Msgs : HasRow(n)' => \A j \in InBatch' : n < j
  BY <1>5, <1>10 DEF HoldInv, PlaceInv, ReleasePCs, ClaimPCs, KeepsRows
<1>13. \A n \in FirstOf(todo)' : jobs'[n].state = "sending" /\ replies'[n] = 0 /\ n \notin held'
  BY <1>2, <1>6, <1>8, <1>9
<1>14. PlaceInv'
  BY <1>6, <1>12, <1>13 DEF PlaceInv
<1>15. PlaceTypes' /\ RingTypes' /\ TimeTypes' /\ ChatTypes' /\ WorkTypes' /\ CountTypes'
  BY HoldFacts DEF PlaceTypes, PCs, RingTypes, TimeTypes, ChatTypes, WorkTypes, CountTypes
<1> QED
  BY <1>5, <1>11, <1>14, <1>15, HoldParts DEF DaemonInv

\* mark_sending, done or refused.
LEMMA MarkSendingHolds ==
  ASSUME HoldInv, NEW m \in todo, MarkSending(m)
  PROVE  HoldInv'
<1>1. /\ pc = "commit" /\ m \in FirstOf(todo)
      /\ UNCHANGED <<replied, held, live, ring, ringNext, lastCheck, probe, arrived, ownerAt,
                     crashes, handed, replies, cursor, batch, modelUp, watermark>>
  BY DEF MarkSending, processVars, chatVars, historyVars
<1>2. CASE /\ MaySend(jobs[m], Lease, Horizon) /\ OwnTransaction(ToSending(jobs, m))
           /\ pc' = "finish" /\ UNCHANGED todo
  BY <1>1, <1>2, SendHolds
<1>3. CASE todo' = todo \ {m} /\ UNCHANGED <<pc, dbVars>>
  <2>1. TableTypes' /\ TableInv' /\ KeepsRows
    BY <1>3, HoldFacts, SameKeeps
  <2> QED
    BY <1>1, <1>3, <2>1, DropHolds
<1> QED
  BY <1>2, <1>3 DEF MarkSending

\* The message is handed over: its row is closed for good and was never in the batch.
LEMMA FinishHolds ==
  ASSUME HoldInv, NEW m \in todo, FinishReleased(m)
  PROVE  HoldInv'
<1>1. /\ pc = "finish" /\ pc' = "commit" /\ m \in FirstOf(todo)
      /\ ring' = [ring EXCEPT ![ringNext] = m] /\ ringNext' = (ringNext + 1) % Slots
      /\ held' = held \cup {m} /\ handed' = [handed EXCEPT ![m] = @ + 1] /\ todo' = todo \ {m}
      /\ UNCHANGED <<replied, live, lastCheck, probe, arrived, ownerAt, crashes, replies, cursor,
                     batch, modelUp, watermark>>
  BY DEF FinishReleased, chatVars
<1>2. /\ jobs \in Table /\ m \in Keys /\ m \in Msgs /\ jobs = disk /\ jobs[m].state = "sending"
      /\ replies[m] = 0 /\ m \notin held
  BY <1>1, HoldFacts, MsgFacts DEF HoldInv, PlaceInv, TableTypes, WorkTypes
<1>3. TableTypes' /\ TableInv' /\ KeepsRows
  BY QuietKeeps DEF QuietDaemon
<1>4. Shut(m) /\ NotOpen(m) /\ HasRow(m)
  BY <1>2 DEF Shut, NotOpen, HasRow, AbstractStatus
<1>5. InBatch' = InBatch /\ Ascending(batch')
  BY <1>1, HoldFacts DEF InBatch
<1>6. CursorInv'
  <2> SUFFICES ASSUME NEW n \in Msgs,
                      HasRow(n)' \/ replies[n] > 0 \/ n \in InBatch \cup held \cup {m} \cup todo
               PROVE  n <= cursor
    BY <1>1, <1>5 DEF CursorInv
  <2>1. HasRow(n) \/ replies[n] > 0 \/ n \in InBatch \cup held \cup todo
    BY <1>3, <1>4 DEF KeepsRows
  <2> QED
    BY <2>1 DEF HoldInv, CursorInv
<1>7. BatchInv'
  <2>1. \A j \in InBatch : m < j
    BY <1>1, <1>2, <1>4 DEF HoldInv, PlaceInv, ReleasePCs, ClaimPCs
  <2>2. \A n \in held' : \A j \in InBatch' : n < j
    BY <1>1, <1>5, <2>1 DEF HoldInv, BatchInv
  <2>3. InBatch \cup held \subseteq Msgs
    BY HoldFacts DEF WorkTypes
  <2>4. \A n \in InBatch' \cup held' : NotOpen(n)' /\ replies'[n] = 0
    BY <1>1, <1>2, <1>3, <1>4, <1>5, <2>3 DEF HoldInv, BatchInv, KeepsRows
  <2> QED
    BY <1>5, <2>2, <2>4 DEF BatchInv
<1>8. handed' \in [Msgs -> Nat] /\ \A n \in Msgs \ {m} : handed'[n] = handed[n]
  BY <1>1, <1>2, HoldFacts DEF CountTypes
<1>9. AnswerInv'
  <2>1. \A n \in Msgs : handed'[n] > 0 => Shut(n)'
    BY <1>2, <1>3, <1>4, <1>8 DEF HoldInv, AnswerInv, KeepsRows
  <2> QED
    BY <1>1, <1>3, <2>1 DEF HoldInv, AnswerInv, KeepsRows
<1>10. WatermarkInv'
  BY <1>1 DEF HoldInv, WatermarkInv
<1>11. PlaceInv'
  <2>1. \A n \in Msgs : HasRow(n)' => \A j \in InBatch' : n < j
    BY <1>1, <1>3, <1>5 DEF HoldInv, PlaceInv, ReleasePCs, ClaimPCs, KeepsRows
  <2> QED
    BY <1>1, <2>1 DEF PlaceInv
<1>12. RingTypes'
  <2>1. Slots \in Nat \ {0} /\ ringNext \in 0..Slots - 1 /\ m \in 0..LastMsg
    BY <1>2, MsgFacts, HoldFacts, HoldLimits DEF RingTypes
  <2>2. (ringNext + 1) % Slots \in 0..Slots - 1
    BY <2>1
  <2> QED
    BY <1>1, <2>1, <2>2, HoldFacts DEF RingTypes
<1>13. PlaceTypes' /\ TimeTypes' /\ ChatTypes' /\ WorkTypes' /\ CountTypes'
  BY <1>1, <1>2, <1>8, HoldFacts DEF PlaceTypes, PCs, TimeTypes, ChatTypes, WorkTypes, CountTypes
<1> QED
  BY <1>3, <1>6, <1>7, <1>9, <1>10, <1>11, <1>12, <1>13, HoldParts DEF DaemonInv

\* The released messages go in front of the batch, which they are below.
LEMMA SpliceHolds ==
  ASSUME HoldInv, Splice
  PROVE  HoldInv'
<1>1. /\ pc = "commit" /\ pc' = "turn" /\ todo = {} /\ todo' = {} /\ held' = {} /\ replied' = {}
      /\ UNCHANGED dbVars
      /\ UNCHANGED <<live, ring, ringNext, lastCheck, probe, arrived, ownerAt,
                     crashes, handed, replies, cursor, modelUp, watermark>>
  BY DEF Splice, processVars, chatVars, historyVars
<1>2. TableTypes' /\ TableInv' /\ KeepsRows
  BY QuietKeeps DEF QuietDaemon
<1>3. PICK q \in InOrder(held) : batch' = q \o batch
  BY DEF Splice
<1>4. q \in Seq(Msgs) /\ Ascending(q) /\ MsgsOf(q) \subseteq held /\ held \subseteq Msgs
  BY HoldFacts, InOrderIs DEF WorkTypes
<1>5. \A n \in MsgsOf(q) : \A j \in MsgsOf(batch) : n < j
  BY <1>4 DEF HoldInv, BatchInv, InBatch
<1>6. batch' \in Seq(Msgs) /\ Ascending(batch') /\ InBatch' \subseteq InBatch \cup held
  BY <1>3, <1>4, <1>5, HoldFacts, ConcatIs DEF InBatch, WorkTypes
<1>7. CursorInv'
  BY <1>1, <1>2, <1>6 DEF HoldInv, CursorInv, KeepsRows
<1>8. BatchInv'
  <2>1. \A n \in InBatch' \cup held' : NotOpen(n)' /\ replies'[n] = 0
    BY <1>1, <1>2, <1>4, <1>6, HoldFacts DEF HoldInv, BatchInv, KeepsRows
  <2> QED
    BY <1>1, <1>6, <2>1 DEF BatchInv
<1>9. AnswerInv' /\ WatermarkInv'
  BY <1>1, <1>2 DEF HoldInv, AnswerInv, WatermarkInv, KeepsRows
<1>10. PlaceInv'
  BY <1>1 DEF PlaceInv, ReleasePCs, ClaimPCs
<1>11. PlaceTypes' /\ RingTypes' /\ TimeTypes' /\ ChatTypes' /\ WorkTypes' /\ CountTypes'
  BY <1>1, <1>6, HoldFacts DEF PlaceTypes, PCs, RingTypes, TimeTypes, ChatTypes, WorkTypes, CountTypes
<1> QED
  BY <1>2, <1>7, <1>8, <1>9, <1>10, <1>11, HoldParts DEF DaemonInv

----------------------------------------------------------------------------
\* What a turn takes from the batch and what it leaves.
LEMMA TurnIs ==
  ASSUME HoldInv, NEW n \in 1..Len(batch)
  PROVE  /\ Rest(n) \in Seq(Msgs) /\ Ascending(Rest(n)) /\ MsgsOf(Rest(n)) \subseteq InBatch
         /\ TurnMsgs(n) \subseteq InBatch /\ TurnMsgs(n) \subseteq Msgs
         /\ batch[n] \in TurnMsgs(n) /\ \A m \in TurnMsgs(n) : m <= batch[n]
         /\ \A m \in TurnMsgs(n) : m \notin MsgsOf(Rest(n))
<1>1. batch \in Seq(Msgs) /\ Ascending(batch) /\ InBatch \subseteq Msgs
  BY HoldFacts DEF WorkTypes
<1>2. /\ Rest(n) \in Seq(Msgs) /\ Ascending(Rest(n)) /\ MsgsOf(Rest(n)) \subseteq InBatch
      /\ \A i \in 1..n : \A m \in MsgsOf(Rest(n)) : batch[i] < m
      /\ \A i \in 1..n : batch[i] \in InBatch /\ batch[i] <= batch[n]
  BY <1>1, SuffixIs DEF Rest, InBatch
<1>3. n \in 1..n
  BY <1>1
<1>4. \A m \in TurnMsgs(n) : m \notin MsgsOf(Rest(n))
  <2> SUFFICES ASSUME NEW i \in 1..n, batch[i] \in MsgsOf(Rest(n))
               PROVE  FALSE
    BY DEF TurnMsgs
  <2>1. batch[i] < batch[i] /\ batch[i] \in Nat
    BY <1>1, <1>2, MsgFacts
  <2> QED
    BY <2>1
<1> QED
  BY <1>1, <1>2, <1>3, <1>4 DEF TurnMsgs

\* A turn without an answer: skipped, silent, or failed and not held.
LEMMA NoAnswerHolds ==
  ASSUME HoldInv, pc = "turn", pc' = "turn", NEW n \in 1..Len(batch), batch' = Rest(n),
         ring' = ring \/ ring' = Forget(TurnMsgs(n)), probe' \in [up: BOOLEAN, at: Stamp],
         UNCHANGED <<jobs, disk, foreign, todo, replied, held, live, ringNext, lastCheck, arrived, ownerAt,
                     crashes, handed, replies, cursor, modelUp, watermark>>
  PROVE  HoldInv'
<1>1. TableTypes' /\ TableInv' /\ KeepsRows
  BY HoldFacts, SameKeeps DEF dbVars
<1>2. todo = {} /\ held = {}
  BY DEF HoldInv, PlaceInv
<1>3. batch' \in Seq(Msgs) /\ Ascending(batch') /\ InBatch' \subseteq InBatch
  BY TurnIs DEF InBatch
<1>4. DaemonInv'
  <2>1. held' = {} /\ todo' = {} /\ cursor' \in Nat /\ cursor' >= cursor
    BY <1>2, HoldFacts
  <2> QED
    BY <1>1, <1>2, <1>3, <2>1, QuietStep DEF ReleasePCs, ClaimPCs
<1>5. RingTypes'
  BY HoldFacts, HoldKeys DEF RingTypes, Forget
<1>6. PlaceTypes' /\ TimeTypes' /\ ChatTypes' /\ WorkTypes' /\ CountTypes'
  BY <1>2, <1>3, HoldFacts DEF PlaceTypes, PCs, TimeTypes, ChatTypes, WorkTypes, CountTypes
<1> QED
  BY <1>1, <1>4, <1>5, <1>6, HoldParts

\* The answer: every message of the turn is answered for the first time and leaves the batch.
LEMMA RepliesHolds ==
  ASSUME HoldInv, NEW n \in 1..Len(batch), TurnReplies(n)
  PROVE  HoldInv'
<1>1. /\ pc = "turn" /\ pc' = "mark" /\ batch' = Rest(n) /\ todo' = TurnMsgs(n)
      /\ replies' = [m \in Msgs |-> replies[m] + IF m \in TurnMsgs(n) THEN 1 ELSE 0]
      /\ UNCHANGED dbVars
      /\ UNCHANGED <<replied, held, live, ring, ringNext, lastCheck, probe, arrived, ownerAt,
                     crashes, handed, cursor, modelUp, watermark>>
  BY DEF TurnReplies, processVars, chatVars
<1>2. TableTypes' /\ TableInv' /\ KeepsRows
  BY QuietKeeps DEF QuietDaemon
<1>3. held = {}
  BY <1>1 DEF HoldInv, PlaceInv
<1>4. batch' \in Seq(Msgs) /\ Ascending(batch') /\ InBatch' \subseteq InBatch
  BY <1>1, TurnIs DEF InBatch
<1>5. replies' \in [Msgs -> Nat] /\ \A m \in Msgs : replies[m] \in Nat
  BY <1>1, HoldFacts DEF CountTypes
<1>6. /\ \A m \in TurnMsgs(n) : m \in Msgs /\ m \in InBatch /\ replies'[m] = 1 /\ NotOpen(m)
      /\ \A m \in Msgs \ TurnMsgs(n) : replies'[m] = replies[m]
  <2>1. \A m \in TurnMsgs(n) : m \in Msgs /\ m \in InBatch /\ replies[m] = 0 /\ NotOpen(m)
    BY TurnIs DEF HoldInv, BatchInv
  <2> QED
    BY <1>1, <1>5, <2>1
<1>7. CursorInv'
  <2> SUFFICES ASSUME NEW m \in Msgs,
                      HasRow(m)' \/ replies'[m] > 0 \/ m \in InBatch' \cup held' \cup todo'
               PROVE  m <= cursor
    BY <1>1 DEF CursorInv
  <2>1. HasRow(m) \/ replies[m] > 0 \/ m \in InBatch \cup held
    BY <1>1, <1>2, <1>4, <1>6 DEF KeepsRows
  <2> QED
    BY <2>1 DEF HoldInv, CursorInv
<1>8. BatchInv'
  <2>1. \A m \in InBatch' : m \notin TurnMsgs(n) /\ m \in Msgs
    BY <1>1, <1>4, TurnIs, HoldFacts DEF InBatch
  <2>2. \A m \in InBatch' : NotOpen(m)' /\ replies'[m] = 0
    BY <1>2, <1>4, <1>6, <2>1 DEF HoldInv, BatchInv, KeepsRows
  <2> QED
    BY <1>1, <1>3, <1>4, <2>2 DEF BatchInv
<1>9. AnswerInv'
  BY <1>1, <1>2, <1>5, <1>6 DEF HoldInv, AnswerInv, KeepsRows
<1>10. WatermarkInv'
  <2>1. \A m \in Msgs : replies[m] > 0 => replies'[m] > 0
    BY <1>5, <1>6
  <2> QED
    BY <1>1, <2>1 DEF HoldInv, WatermarkInv
<1>11. PlaceInv'
  <2>1. (\E top \in todo' : \A m \in todo' : m <= top) /\ \A m \in todo' : replies'[m] > 0
    <3>1. batch[n] \in todo' /\ \A m \in todo' : m <= batch[n]
      BY <1>1, TurnIs
    <3>2. \A m \in todo' : replies'[m] > 0
      BY <1>1, <1>6
    <3> QED
      BY <3>1, <3>2
  <2> QED
    BY <1>1, <1>3, <2>1 DEF PlaceInv, ReleasePCs, ClaimPCs
<1>12. PlaceTypes' /\ RingTypes' /\ TimeTypes' /\ ChatTypes' /\ WorkTypes' /\ CountTypes'
  BY <1>1, <1>4, <1>5, <1>6, HoldFacts DEF PlaceTypes, PCs, RingTypes, TimeTypes, ChatTypes, WorkTypes, CountTypes
<1> QED
  BY <1>2, <1>7, <1>8, <1>9, <1>10, <1>11, <1>12, HoldParts DEF DaemonInv

\* hu_daemon_reply_dedup_mark: the new watermark is an answered message of its contact.
LEMMA MarkRepliedHolds ==
  ASSUME HoldInv, MarkReplied
  PROVE  HoldInv'
<1> DEFINE top == BatchEnd(todo)
<1>1. /\ pc = "mark" /\ pc' = "turn" /\ todo' = {}
      /\ watermark' = [watermark EXCEPT ![Contact[top]] = IF top > @ THEN top ELSE @]
      /\ UNCHANGED dbVars
      /\ UNCHANGED <<replied, held, live, ring, ringNext, lastCheck, probe, arrived, ownerAt,
                     crashes, handed, replies, cursor, batch, modelUp>>
  BY DEF MarkReplied, processVars, chatVars, historyVars
<1>2. TableTypes' /\ TableInv' /\ KeepsRows
  BY QuietKeeps DEF QuietDaemon
<1>3. held = {} /\ (\E x \in todo : \A j \in todo : j <= x) /\ \A m \in todo : replies[m] > 0
  BY <1>1 DEF HoldInv, PlaceInv
<1>4. top \in todo
  BY <1>3 DEF BatchEnd
<1> HIDE DEF top
<1>5. top \in Msgs /\ replies[top] > 0 /\ Contact[top] \in Contacts
  BY <1>3, <1>4, HoldFacts DEF WorkTypes, Contacts
<1>6. watermark' \in [Contacts -> 0..LastMsg]
  BY <1>1, <1>5, MsgFacts, HoldFacts DEF ChatTypes
<1>7. WatermarkInv'
  <2> SUFFICES ASSUME NEW c \in Contacts, watermark'[c] # 0
               PROVE  /\ watermark'[c] \in Msgs /\ Contact[watermark'[c]] = c
                      /\ replies[watermark'[c]] > 0
    BY <1>1 DEF WatermarkInv
  <2>1. watermark'[c] = watermark[c] \/ (c = Contact[top] /\ watermark'[c] = top)
    BY <1>1, HoldFacts DEF ChatTypes
  <2> QED
    BY <1>5, <2>1 DEF HoldInv, WatermarkInv
<1>8. CursorInv' /\ BatchInv' /\ AnswerInv'
  <2>1. InBatch' = InBatch
    BY <1>1 DEF InBatch
  <2>2. CursorInv'
    BY <1>1, <1>2, <2>1 DEF HoldInv, CursorInv, KeepsRows
  <2>3. BatchInv'
    BY <1>1, <1>2, <1>3, <2>1, HoldFacts DEF HoldInv, BatchInv, KeepsRows
  <2>4. AnswerInv'
    BY <1>1, <1>2 DEF HoldInv, AnswerInv, KeepsRows
  <2> QED
    BY <2>2, <2>3, <2>4
<1>9. PlaceInv'
  BY <1>1, <1>3 DEF PlaceInv, ReleasePCs, ClaimPCs
<1>10. PlaceTypes' /\ RingTypes' /\ TimeTypes' /\ ChatTypes' /\ WorkTypes' /\ CountTypes'
  BY <1>1, <1>6, HoldFacts DEF PlaceTypes, PCs, RingTypes, TimeTypes, ChatTypes, WorkTypes, CountTypes
<1> QED
  BY <1>2, <1>7, <1>8, <1>9, <1>10, HoldParts DEF DaemonInv

\* A failed turn that is held: its messages have left the batch and nobody has answered them.
LEMMA FailsHolds ==
  ASSUME HoldInv, NEW n \in 1..Len(batch), TurnFails(n)
  PROVE  HoldInv'
<1>1. /\ pc = "turn" /\ batch' = Rest(n) /\ ring' = Forget(TurnMsgs(n))
      /\ probe' = [up |-> modelUp, at |-> Horizon]
      /\ UNCHANGED <<jobs, disk, foreign, replied, held, live, ringNext, lastCheck, arrived, ownerAt,
                     crashes, handed, replies, cursor, modelUp, watermark>>
  BY DEF TurnFails, dbVars, chatVars, historyVars
<1>2. probe' \in [up: BOOLEAN, at: Stamp]
  BY <1>1, ProbeType
<1>3. CASE UNCHANGED <<todo, pc>>
  BY <1>1, <1>2, <1>3, NoAnswerHolds
<1>4. CASE todo' = TurnMsgs(n) /\ pc' = "hold"
  <2>1. TableTypes' /\ TableInv' /\ KeepsRows
    BY <1>1, HoldFacts, SameKeeps DEF dbVars
  <2>2. held = {}
    BY <1>1 DEF HoldInv, PlaceInv
  <2>3. batch' \in Seq(Msgs) /\ Ascending(batch') /\ InBatch' \subseteq InBatch
    BY <1>1, TurnIs DEF InBatch
  <2>4. todo' \subseteq InBatch /\ \A m \in todo' : replies'[m] = 0 /\ m \notin InBatch'
    BY <1>1, <1>4, TurnIs DEF HoldInv, BatchInv, InBatch
  <2>5. held' = held /\ cursor' \in Nat /\ cursor' >= cursor
    BY <1>1, HoldFacts
  <2>6. CursorInv' /\ BatchInv' /\ AnswerInv' /\ WatermarkInv'
    BY <1>1, <2>1, <2>3, <2>4, <2>5, QuietParts
  <2>7. PlaceInv'
    BY <1>4, <2>2, <2>4, <2>5 DEF PlaceInv, ReleasePCs, ClaimPCs
  <2>8. RingTypes'
    BY <1>1, HoldFacts, HoldKeys DEF RingTypes, Forget
  <2>9. PlaceTypes' /\ TimeTypes' /\ ChatTypes' /\ WorkTypes' /\ CountTypes'
    BY <1>1, <1>2, <1>4, <2>3, <2>4, HoldFacts DEF PlaceTypes, PCs, TimeTypes, ChatTypes, WorkTypes, CountTypes
  <2> QED
    BY <2>1, <2>6, <2>7, <2>8, <2>9, HoldParts DEF DaemonInv
<1> QED
  BY <1>3, <1>4 DEF TurnFails

\* The table after hold_live's INSERT for message m.
WithHeld(m) ==
  IF m \in Oversize THEN jobs ELSE Insert(jobs, m, "inbound_hold", Horizon, Horizon, FALSE)

\* It has at most one row more, which is pending.
LEMMA WithHeldIs ==
  ASSUME jobs \in Table, NEW m \in Keys
  PROVE  /\ WithHeld(m) \in Table
         /\ \A k \in Keys \ {m} : WithHeld(m)[k] = jobs[k]
         /\ jobs[m].state # "absent" => WithHeld(m) = jobs
         /\ WithHeld(m) # jobs =>
              /\ WithHeld(m)[m].state = "pending" /\ WithHeld(m)[m].kind = "inbound_hold"
              /\ WithHeld(m)[m].created = Horizon
              /\ WithHeld(m)[m].id = Cardinality(Present(jobs)) + 1
<1> DEFINE st == "pending"
           kind == "inbound_hold"
           u == WithHeld(m)
<1>1. st \in RowStates /\ kind \in Kinds /\ Horizon \in Nat
  BY HoldTimes DEF RowStates, Kinds
<1>2. \/ u = jobs
      \/ u = IF jobs[m].state # "absent" THEN jobs
             ELSE [jobs EXCEPT ![m] =
                    [state |-> st, kind |-> kind, due |-> Horizon, created |-> Horizon, attempts |-> 0,
                     lease |-> NoLease, id |-> Cardinality(Present(jobs)) + 1]]
  BY DEF WithHeld, Insert
<1> HIDE DEF st, kind, u
<1>3. \/ u = jobs
      \/ /\ u \in Table
         /\ \A k \in Keys \ {m} : u[k] = jobs[k]
         /\ jobs[m].state # "absent" => u = jobs
         /\ jobs[m].state = "absent" =>
              /\ u[m].state = st /\ u[m].kind = kind /\ u[m].created = Horizon
              /\ u[m].id = Cardinality(Present(jobs)) + 1
  BY <1>1, <1>2, NewRow
<1> QED
  BY <1>3 DEF st, kind, u

\* hold_live: the only step that opens a row, for a message that is neither in the batch nor answered.
LEMMA HoldLiveHolds ==
  ASSUME HoldInv, NEW m \in todo, HoldLive(m)
  PROVE  HoldInv'
<1> DEFINE u == WithHeld(m)
<1>1. /\ pc = "hold" /\ todo' = todo \ {m} /\ pc' = (IF todo' = {} THEN "turn" ELSE "hold")
      /\ UNCHANGED <<replied, held, live, ring, ringNext, lastCheck, probe, arrived, ownerAt,
                     crashes, handed, replies, cursor, batch, modelUp, watermark>>
  BY DEF HoldLive, processVars, chatVars, historyVars
<1>2. /\ jobs \in Table /\ disk \in Table /\ foreign \in BOOLEAN /\ m \in Keys /\ m \in Msgs
      /\ (~foreign => jobs = disk) /\ todo \subseteq Msgs
  BY HoldFacts, MsgFacts DEF TableTypes, WorkTypes, TableInv
<1>3. /\ u \in Table /\ \A k \in Keys \ {m} : u[k] = jobs[k]
      /\ jobs[m].state # "absent" => u = jobs
  BY <1>2, WithHeldIs
<1>4. jobs' = u /\ foreign' = foreign /\ disk' = (IF foreign THEN disk ELSE u)
  BY <1>2 DEF HoldLive, Statement, WithHeld
<1> HIDE DEF u
<1>5. replies[m] = 0 /\ m \notin InBatch /\ held = {} /\ \A j \in todo : replies[j] = 0 /\ j \notin InBatch
  BY <1>1 DEF HoldInv, PlaceInv
<1>6. \A k \in Msgs \ {m} : /\ NotOpen(k) => NotOpen(k)'
                            /\ HasRow(k)' => HasRow(k)
  BY <1>2, <1>3, <1>4, MsgFacts DEF NotOpen, HasRow
<1>7. \A k \in Msgs : Shut(k) => Shut(k)'
  <2>1. Shut(m) => jobs[m].state # "absent"
    BY DEF Shut, AbstractStatus
  <2> QED
    BY <1>2, <1>3, <1>4, <2>1, MsgFacts DEF Shut
<1>8. TableTypes' /\ TableInv'
  <2>1. TableTypes'
    BY <1>2, <1>3, <1>4 DEF TableTypes
  <2>2. AbstractStatus(disk[m]) = "closed" => u = jobs
    <3>1. AbstractStatus(disk[m]) = "closed" => AbstractStatus(jobs[m]) = "closed"
      BY <1>2 DEF HoldInv, TableInv
    <3> QED
      BY <1>3, <3>1 DEF AbstractStatus
  <2>3. TableInv'
    <3>1. CASE ~foreign
      BY <1>2, <1>4, <3>1 DEF TableInv
    <3>2. CASE foreign
      BY <1>2, <1>3, <1>4, <2>2, <3>2, MsgFacts DEF HoldInv, TableInv
    <3> QED
      BY <3>1, <3>2
  <2> QED
    BY <2>1, <2>3
<1>9. InBatch' = InBatch
  BY <1>1 DEF InBatch
<1>10. CursorInv'
  <2> SUFFICES ASSUME NEW k \in Msgs, HasRow(k)' \/ replies[k] > 0 \/ k \in InBatch \cup held \cup todo
               PROVE  k <= cursor
    BY <1>1, <1>9 DEF CursorInv
  <2>1. HasRow(k) \/ replies[k] > 0 \/ k \in InBatch \cup held \cup todo
    BY <1>6
  <2> QED
    BY <2>1 DEF HoldInv, CursorInv
<1>11. BatchInv'
  <2>1. \A k \in InBatch' \cup held' : NotOpen(k)' /\ replies'[k] = 0
    BY <1>1, <1>5, <1>6, <1>9, HoldFacts DEF HoldInv, BatchInv
  <2> QED
    BY <1>1, <1>5, <2>1, HoldFacts DEF BatchInv
<1>12. AnswerInv'
  <2>1. ~(replies[m] > 0)
    BY <1>5
  <2> QED
    BY <1>1, <1>6, <1>7, <2>1 DEF HoldInv, AnswerInv
<1>13. WatermarkInv'
  BY <1>1 DEF HoldInv, WatermarkInv
<1>14. PlaceInv'
  BY <1>1, <1>5, <1>9 DEF PlaceInv, ReleasePCs, ClaimPCs
<1>15. PlaceTypes' /\ RingTypes' /\ TimeTypes' /\ ChatTypes' /\ WorkTypes' /\ CountTypes'
  BY <1>1, HoldFacts DEF PlaceTypes, PCs, RingTypes, TimeTypes, ChatTypes, WorkTypes, CountTypes
<1> QED
  BY <1>8, <1>10, <1>11, <1>12, <1>13, <1>14, <1>15, HoldParts DEF DaemonInv

----------------------------------------------------------------------------
\* The batch is done.
LEMMA BatchDoneHolds ==
  ASSUME HoldInv, BatchDone
  PROVE  HoldInv'
<1>1. /\ pc = "turn" /\ pc' = "poll" /\ batch = << >> /\ UNCHANGED dbVars
      /\ UNCHANGED <<todo, replied, held, live, ring, ringNext, lastCheck, probe, arrived, ownerAt,
                     crashes, handed, replies, cursor, batch, modelUp, watermark>>
  BY DEF BatchDone, releaseVars, processVars, chatVars, historyVars
<1>2. TableTypes' /\ TableInv' /\ KeepsRows
  BY QuietKeeps DEF QuietDaemon
<1>3. todo' = {} /\ held' = {}
  BY <1>1 DEF HoldInv, PlaceInv
<1>4. Ascending(batch') /\ InBatch' = InBatch /\ cursor' \in Nat /\ cursor' >= cursor
  BY <1>1, HoldFacts DEF InBatch
<1>5. DaemonInv'
  BY <1>1, <1>2, <1>3, <1>4, QuietStep DEF ReleasePCs, ClaimPCs
<1>6. PlaceTypes' /\ RingTypes' /\ TimeTypes' /\ ChatTypes' /\ WorkTypes' /\ CountTypes'
  BY <1>1, HoldFacts DEF PlaceTypes, PCs, RingTypes, TimeTypes, ChatTypes, WorkTypes, CountTypes
<1> QED
  BY <1>2, <1>5, <1>6, HoldParts

\* A message arrives, the owner writes, the model goes or comes back, another thread begins or ends a
\* transaction, time passes.
LEMMA WorldHolds ==
  ASSUME HoldInv,
         \/ Arrive \/ (\E c \in Contacts : OwnerWrites(c)) \/ ModelFlips
         \/ Foreign(ForeignBegin) \/ Foreign(ForeignEnd) \/ Tick
  PROVE  HoldInv'
<1>1. /\ UNCHANGED <<pc, todo, replied, held, live, ring, ringNext, crashes, handed, replies, cursor,
                     batch, watermark>>
  BY DEF Arrive, OwnerWrites, ModelFlips, Foreign, Tick, releaseVars, processVars, historyVars
<1>2. TableTypes' /\ TableInv' /\ KeepsRows
  <2>1. CASE Arrive \/ (\E c \in Contacts : OwnerWrites(c)) \/ ModelFlips
    BY <2>1, HoldFacts, SameKeeps DEF Arrive, OwnerWrites, ModelFlips
  <2>2. CASE Foreign(ForeignBegin) \/ Foreign(ForeignEnd)
    BY <2>2, HoldFacts, ForeignKeeps DEF Foreign
  <2>3. CASE Tick
    BY <2>3, HoldFacts, TickKeeps DEF Tick
  <2> QED
    BY <2>1, <2>2, <2>3
<1>3. pc = "finish" => jobs' = jobs /\ disk' = disk
  <2>1. pc = "finish" => jobs = disk
    BY DEF HoldInv, PlaceInv
  <2> QED
    BY <2>1 DEF Arrive, OwnerWrites, ModelFlips, Foreign, ForeignBegin, ForeignEnd, Tick, dbVars
<1>4. DaemonInv'
  BY <1>1, <1>2, <1>3, AmbientStep
<1>5. ChatTypes'
  <2>1. CASE Arrive
    BY <1>1, <2>1, HoldFacts, HoldKeys DEF Arrive, ChatTypes
  <2>2. ASSUME NEW c \in Contacts, OwnerWrites(c) PROVE ChatTypes'
    BY <1>1, <2>2, HoldFacts DEF OwnerWrites, ChatTypes
  <2>3. CASE ModelFlips \/ Foreign(ForeignBegin) \/ Foreign(ForeignEnd) \/ Tick
    BY <1>1, <2>3, HoldFacts DEF ModelFlips, Foreign, Tick, chatVars, ChatTypes
  <2> QED
    BY <2>1, <2>2, <2>3
<1>6. TimeTypes'
  <2>1. CASE Tick
    <3>1. \A x \in Stamp : Older(x) \in Stamp
      BY HoldTimes DEF Older, Stamp
    <3>2. lastCheck' = Older(lastCheck) /\ probe' = [probe EXCEPT !.at = Older(@)]
      BY <2>1 DEF Tick
    <3>3. lastCheck \in Stamp /\ probe \in [up: BOOLEAN, at: Stamp]
      BY HoldFacts DEF TimeTypes
    <3> QED
      BY <3>1, <3>2, <3>3 DEF TimeTypes
  <2>2. CASE ~Tick
    <3>1. UNCHANGED <<lastCheck, probe>>
      BY <2>2 DEF Arrive, OwnerWrites, ModelFlips, Foreign, processVars
    <3> QED
      BY <3>1, HoldFacts DEF TimeTypes
  <2> QED
    BY <2>1, <2>2
<1>7. modelUp' \in BOOLEAN
  BY HoldFacts DEF PlaceTypes, Arrive, OwnerWrites, ModelFlips, Foreign, Tick
<1>8. PlaceTypes' /\ RingTypes' /\ WorkTypes' /\ CountTypes'
  BY <1>1, <1>7, HoldFacts DEF PlaceTypes, RingTypes, WorkTypes, CountTypes
<1> QED
  BY <1>2, <1>4, <1>5, <1>6, <1>8, HoldParts

\* A crash: what is left is on disk, and the batch is gone.
LEMMA CrashHolds ==
  ASSUME HoldInv, Crash
  PROVE  HoldInv'
<1>1. /\ pc' = "down" /\ live' = FALSE /\ jobs' = disk /\ disk' = disk /\ foreign' = FALSE
      /\ batch' = << >> /\ todo' = {} /\ replied' = {} /\ held' = {} /\ crashes < MaxCrashes
      /\ crashes' = crashes + 1
      /\ ring' = EmptyRing /\ ringNext' = 0 /\ lastCheck' = 0 /\ probe' = NoProbe
      /\ UNCHANGED <<arrived, ownerAt, handed, replies, cursor, modelUp, watermark>>
  BY DEF Crash, chatVars
<1>2. TableTypes' /\ TableInv' /\ KeepsRows
  BY <1>1, HoldFacts, CrashKeeps
<1>3. Ascending(batch') /\ InBatch' = {} /\ cursor' \in Nat /\ cursor' >= cursor
  BY <1>1, HoldFacts DEF InBatch, MsgsOf, Ascending
<1>4. DaemonInv'
  BY <1>1, <1>2, <1>3, QuietStep DEF ReleasePCs, ClaimPCs
<1>5. RingTypes' /\ TimeTypes'
  <2>1. Slots \in Nat \ {0} /\ Horizon \in Nat /\ LastMsg \in Nat
    BY HoldLimits, HoldTimes, HoldKeys
  <2> QED
    BY <1>1, <2>1 DEF RingTypes, TimeTypes, EmptyRing, NoProbe, Stamp
<1>6. PlaceTypes'
  <2>1. crashes + 1 \in 0..MaxCrashes
    BY <1>1, HoldFacts, HoldLimits DEF PlaceTypes
  <2> QED
    BY <1>1, <2>1, HoldFacts DEF PlaceTypes, PCs
<1>7. ChatTypes' /\ WorkTypes' /\ CountTypes'
  BY <1>1, HoldFacts DEF ChatTypes, WorkTypes, CountTypes
<1> QED
  BY <1>2, <1>4, <1>5, <1>6, <1>7, HoldParts

\* The invariant holds at first ...
LEMMA InitHolds == Init => HoldInv
<1> SUFFICES ASSUME Init PROVE HoldInv
  OBVIOUS
<1>0. Absent \in Row /\ Slots \in Nat \ {0} /\ Horizon \in Nat /\ LastMsg \in Nat /\ MaxCrashes \in Nat
  BY HoldLimits, HoldTimes, HoldKeys DEF Absent, Row, Kinds, NoLease
<1>1. TableTypes
  BY <1>0 DEF Init, TableTypes, Table, EmptyTable
<1>2. PlaceTypes /\ ChatTypes /\ WorkTypes /\ CountTypes
  <2>1. PlaceTypes
    <3>1. crashes \in 0..MaxCrashes
      BY <1>0 DEF Init
    <3> QED
      BY <3>1 DEF Init, PlaceTypes, PCs
  <2>2. ChatTypes
    BY <1>0 DEF Init, ChatTypes
  <2>3. WorkTypes /\ CountTypes
    BY DEF Init, WorkTypes, CountTypes
  <2> QED
    BY <2>1, <2>2, <2>3
<1>3. RingTypes /\ TimeTypes
  BY <1>0 DEF Init, RingTypes, TimeTypes, EmptyRing, NoProbe, Stamp
<1>4. /\ \A m \in Msgs : jobs[m].state = "absent" /\ disk[m].state = "absent"
      /\ InBatch = {} /\ Ascending(batch)
  BY MsgFacts DEF Init, EmptyTable, Absent, InBatch, MsgsOf, Ascending
<1>5. TableInv
  BY <1>4 DEF Init, TableInv
<1>6. \A m \in Msgs : ~HasRow(m) /\ NotOpen(m) /\ replies[m] = 0 /\ handed[m] = 0
  BY <1>4 DEF HasRow, NotOpen, AbstractStatus, Init
<1>7. CursorInv /\ BatchInv /\ AnswerInv
  BY <1>4, <1>6 DEF Init, CursorInv, BatchInv, AnswerInv
<1>8. WatermarkInv /\ PlaceInv
  BY DEF Init, WatermarkInv, PlaceInv, ReleasePCs, ClaimPCs
<1> QED
  BY <1>1, <1>2, <1>3, <1>5, <1>7, <1>8, TypeParts DEF HoldInv

\* ... and every step keeps it.
LEMMA StepHolds == HoldInv /\ [Next]_vars => HoldInv'
<1> SUFFICES ASSUME HoldInv, [Next]_vars PROVE HoldInv'
  OBVIOUS
<1>1. CASE UNCHANGED vars
  <2>1. UNCHANGED <<jobs, disk, foreign, todo, replied, held, live, ring, ringNext, lastCheck, probe, arrived,
                    ownerAt, crashes, handed, replies, pc, cursor, batch, modelUp, watermark>>
    BY <1>1 DEF vars, dbVars, releaseVars, processVars, chatVars, historyVars
  <2>2. TableTypes' /\ TableInv' /\ KeepsRows
    BY <2>1, HoldFacts, SameKeeps DEF dbVars
  <2>3. DaemonInv'
    BY <2>1, <2>2, AmbientStep
  <2>4. PlaceTypes' /\ RingTypes' /\ TimeTypes' /\ ChatTypes' /\ WorkTypes' /\ CountTypes'
    BY <2>1, HoldFacts DEF PlaceTypes, RingTypes, TimeTypes, ChatTypes, WorkTypes, CountTypes
  <2> QED
    BY <2>2, <2>3, <2>4, HoldParts
<1>2. CASE Start \/ Poll
  BY <1>2, StartHolds, PollHolds
<1>3. CASE Release
  BY <1>3, ExpireHolds, GateHolds, ClaimStepHolds, CheckOwnerHolds, SpliceHolds, DecodeFailsHolds, DeferHolds,
     CancelHolds, MarkSendingHolds, FinishHolds DEF Release
<1>4. CASE Turns
  <2>1. ASSUME NEW n \in 1..Len(batch), DedupSkip(n) \/ TurnSilent(n) PROVE HoldInv'
    <3>1. /\ pc = "turn" /\ pc' = "turn" /\ batch' = Rest(n) /\ (ring' = ring \/ ring' = Forget(TurnMsgs(n)))
          /\ UNCHANGED <<jobs, disk, foreign, todo, replied, held, live, ringNext, lastCheck, probe, arrived,
                         ownerAt, crashes, handed, replies, cursor, modelUp, watermark>>
      BY <2>1 DEF DedupSkip, TurnSilent, dbVars, releaseVars, processVars, chatVars, historyVars
    <3>2. probe' \in [up: BOOLEAN, at: Stamp]
      BY <3>1, HoldFacts DEF TimeTypes
    <3> QED
      BY <3>1, <3>2, NoAnswerHolds
  <2> QED
    BY <1>4, <2>1, BatchDoneHolds, MarkRepliedHolds, RepliesHolds, FailsHolds, HoldLiveHolds DEF Turns
<1>5. CASE World
  BY <1>5, WorldHolds, CrashHolds DEF World
<1> QED
  BY <1>1, <1>2, <1>3, <1>4, <1>5 DEF Next, Daemon

\* HoldInv is an invariant of the daemon's loop, whatever crashes, fails or is written by others.
THEOREM HoldInvariant == Spec => []HoldInv
<1>1. Init => HoldInv
  BY InitHolds
<1>2. HoldInv /\ [Next]_vars => HoldInv'
  BY StepHolds
<1> QED
  BY <1>1, <1>2, PTL DEF Spec

\* The types of the hold's state.
THEOREM HoldTypeCorrect == Spec => []TypeOK
<1>1. HoldInv => TypeOK
  BY DEF HoldInv
<1> QED
  BY <1>1, HoldInvariant, PTL

\* No message is in two answered turns: what was answered has no open row, and the poll's cursor is past it.
THEOREM HoldAnsweredOnce == Spec => []AnsweredOnce
<1>1. HoldInv => AnsweredOnce
  BY DEF HoldInv, AnswerInv, AnsweredOnce
<1> QED
  BY <1>1, HoldInvariant, PTL

\* A message in the batch, or released, has no row that a rollback, a crash or a later tick could release.
THEOREM HoldInTurnNotHeld == Spec => []InTurnNotHeld
<1>1. HoldInv => InTurnNotHeld
  <2> SUFFICES ASSUME HoldInv PROVE InTurnNotHeld
    OBVIOUS
  <2>1. ToSet(batch) = InBatch
    BY HoldFacts DEF ToSet, InBatch, MsgsOf, WorkTypes
  <2> QED
    BY <2>1 DEF HoldInv, BatchInv, NotOpen, InTurnNotHeld
<1> QED
  BY <1>1, HoldInvariant, PTL

\* The dedup skips a message only if a newer one of its contact was answered: the watermark is such a message.
THEOREM HoldSkipsOnlyOvertaken == Spec => SkipsOnlyOvertaken
<1>1. ASSUME HoldInv, NEW n \in 1..Len(batch), DedupSkip(n), NEW m \in TurnMsgs(n)
      PROVE  \E o \in Msgs : o >= m /\ Contact[o] = Contact[m] /\ replies[o] > 0
  <2>1. n \in TurnSizes /\ watermark[Contact[batch[n]]] >= batch[n]
    BY <1>1 DEF DedupSkip, AlreadyReplied
  <2>2. PICK i \in 1..n : m = batch[i]
    BY <1>1 DEF TurnMsgs
  <2>3. n \in 1..n /\ Contact[m] = Contact[batch[n]]
    BY <1>1, <2>1, <2>2 DEF TurnSizes
  <2> DEFINE c == Contact[batch[n]]
             o == watermark[c]
  <2>4. m \in Msgs /\ m \in Nat /\ batch[n] \in Msgs /\ batch[n] \in Nat /\ batch[n] >= 1 /\ m <= batch[n]
    BY <1>1, TurnIs, MsgFacts
  <2>5. c \in Contacts /\ o \in Nat
    <3>1. c \in Contacts
      BY <2>4 DEF Contacts
    <3> QED
      BY <1>1, <3>1, HoldFacts, HoldKeys DEF ChatTypes
  <2> HIDE DEF c
  <2>6. o # 0 /\ o >= m
    BY <2>1, <2>4, <2>5 DEF c
  <2>7. o \in Msgs /\ Contact[o] = c /\ replies[o] > 0
    BY <1>1, <2>5, <2>6 DEF HoldInv, WatermarkInv
  <2> QED
    BY <2>3, <2>6, <2>7 DEF c
<1>2. HoldInv /\ [Next]_vars =>
        [\A n \in 1..Len(batch) : DedupSkip(n) =>
           \A m \in TurnMsgs(n) : \E o \in Msgs :
             o >= m /\ Contact[o] = Contact[m] /\ replies[o] > 0]_vars
  BY <1>1
<1> QED
  BY <1>2, HoldInvariant, PTL DEF Spec, SkipsOnlyOvertaken

----------------------------------------------------------------------------
\* Which message the release may hand over: the one whose row it has just committed to `sending'.
MayHand == [m \in Msgs |-> pc = "finish" /\ m \in FirstOf(todo)]

\* The abstract state is StatusOf(jobs), MayHand and handed.
LEMMA HoldMapping ==
  /\ StatusOf(jobs) = [m \in Msgs |-> AbstractStatus(jobs[m])]
  /\ StatusOf(jobs)' = [m \in Msgs |-> AbstractStatus(jobs'[m])]
  /\ pc # "finish" => MayHand = [m \in Msgs |-> FALSE]
  /\ pc' # "finish" => MayHand' = [m \in Msgs |-> FALSE]
BY MsgFacts DEF StatusOf, MayHand

\* A step that changes none of them stutters.
LEMMA HoldStutter ==
  ASSUME StatusOf(jobs)' = StatusOf(jobs), MayHand' = MayHand, handed' = handed
  PROVE  UNCHANGED HoldDelivery!vars
BY HoldMapping DEF MayHand, HoldDelivery!vars

\* The steps of the daemon other than mark_sending, the hand-over and hold_live only withdraw rows.
LEMMA QuietMaps ==
  ASSUME HoldInv, QuietDaemon, ~(\E m \in todo : FinishReleased(m))
  PROVE  HoldDelivery!Withdraw
<1>1. pc # "finish" /\ pc' # "finish" /\ handed' = handed
  BY DEF QuietDaemon, Start, Poll, ExpireLive, Gate, ClaimHolds, CheckOwner, Splice, BatchDone, MarkReplied,
         DecodeFails, Defer, Cancel, MarkSending, DedupSkip, TurnSilent, TurnReplies, TurnFails, historyVars
<1>2. SteadyStep
  BY QuietIsSteady
<1>3. OnlyWithdraws(jobs, jobs') /\ jobs' \in Table
  BY <1>2 DEF SteadyStep, Steady
<1>4. StatusOf(jobs') \in [Keys -> {"absent", "open", "closed"}]
  BY <1>3, StatusType
<1>5. MayHand' = MayHand
  BY <1>1, HoldMapping
<1> QED
  BY <1>1, <1>3, <1>4, <1>5, MsgFacts DEF HoldDelivery!Withdraw, OnlyWithdraws, StatusOf, MayHand

\* mark_sending is the commitment.
LEMMA MarkSendingMaps ==
  ASSUME HoldInv, NEW m \in todo, MarkSending(m), pc' = "finish"
  PROVE  HoldDelivery!Commit(m)
<1> DEFINE u == ToSending(jobs, m)
<1>1. /\ pc = "commit" /\ m \in FirstOf(todo) /\ MaySend(jobs[m], Lease, Horizon) /\ todo' = todo
      /\ jobs' = u /\ handed' = handed
  BY DEF MarkSending, OwnTransaction, historyVars
<1>2. jobs \in Table /\ m \in Keys /\ m \in Msgs /\ jobs[m].state = "claimed" /\ todo \in SUBSET Keys
  BY <1>1, HoldFacts, MsgFacts DEF TableTypes, WorkTypes, MaySend
<1>3. StatusOf(jobs)[m] = "open" /\ StatusOf(u) = [StatusOf(jobs) EXCEPT ![m] = "closed"]
  BY <1>2, ToSendingCloses
<1>4. \A k \in Keys : u[k].due = jobs[k].due /\ u[k].id = jobs[k].id
  BY <1>2, ToSendingRow DEF SameOrigin
<1> HIDE DEF u
<1>5. FirstOf(todo)' = {m}
  <2>1. FirstOf(todo)' = FirstIn(u, todo) /\ FirstOf(todo) = FirstIn(jobs, todo)
    BY <1>1 DEF FirstOf, FirstIn
  <2>2. FirstIn(u, todo) = FirstIn(jobs, todo)
    BY <1>2, <1>4, FirstIsSame
  <2> QED
    BY <1>1, <1>2, <2>1, <2>2, FirstIsOne
<1>6. MayHand' = [MayHand EXCEPT ![m] = TRUE]
  <2>1. MayHand = [n \in Msgs |-> FALSE]
    BY <1>1, HoldMapping
  <2>2. MayHand' = [n \in Msgs |-> n = m]
    BY <1>5 DEF MayHand
  <2> QED
    BY <1>2, <2>1, <2>2
<1>7. StatusOf(jobs)' = [StatusOf(jobs) EXCEPT ![m] = "closed"]
  BY <1>1, <1>3 DEF StatusOf
<1> QED
  BY <1>1, <1>2, <1>3, <1>6, <1>7, HoldMapping DEF HoldDelivery!Commit, MayHand

\* The hand-over is the delivery, and ends the permission.
LEMMA FinishMaps ==
  ASSUME HoldInv, NEW m \in todo, FinishReleased(m)
  PROVE  HoldDelivery!Deliver(m)
<1>1. /\ pc = "finish" /\ pc' = "commit" /\ m \in FirstOf(todo)
      /\ handed' = [handed EXCEPT ![m] = @ + 1]
      /\ jobs' = ToFinished(jobs, m, "done") \/ jobs' = jobs
  BY DEF FinishReleased, Statement, dbVars
<1>2. jobs \in Table /\ m \in Keys /\ m \in Msgs /\ todo \in SUBSET Keys /\ jobs[m].state = "sending"
  BY <1>1, HoldFacts, MsgFacts DEF TableTypes, WorkTypes, HoldInv, PlaceInv
<1>3. MayHand[m] /\ MayHand' = [MayHand EXCEPT ![m] = FALSE]
  <2>1. \A n \in FirstOf(todo) : n = m
    BY <1>1, <1>2, FirstIsOne DEF FirstOf, FirstIn
  <2>2. MayHand = [n \in Msgs |-> n = m]
    BY <1>1, <2>1 DEF MayHand
  <2>3. MayHand' = [n \in Msgs |-> FALSE]
    BY <1>1, HoldMapping
  <2> QED
    BY <1>2, <2>2, <2>3
<1>4. StatusOf(jobs)' = StatusOf(jobs)
  <2>1. CASE jobs' = ToFinished(jobs, m, "done")
    <3> DEFINE r == SetState(jobs[m], "done", NoLease)
    <3>1. jobs[m] \in Row /\ "done" \in RowStates /\ NoLease \in Nat
      BY <1>2 DEF Table, RowStates, NoLease
    <3>2. r.state = "done"
      BY <3>1, SetStateRow
    <3>3. jobs' = [jobs EXCEPT ![m] = r]
      BY <1>2, <2>1 DEF ToFinished, Table
    <3> HIDE DEF r
    <3>4. jobs'[m].state = "done" /\ \A k \in Keys \ {m} : jobs'[k] = jobs[k]
      BY <1>2, <3>2, <3>3 DEF Table
    <3>5. AbstractStatus(jobs'[m]) = AbstractStatus(jobs[m])
      BY <1>2, <3>4 DEF AbstractStatus
    <3> QED
      BY <3>4, <3>5 DEF StatusOf
  <2>2. CASE jobs' = jobs
    BY <2>2 DEF StatusOf
  <2> QED
    BY <1>1, <2>1, <2>2
<1> QED
  BY <1>1, <1>2, <1>3, <1>4, HoldMapping DEF HoldDelivery!Deliver, MayHand

\* hold_live accepts the message as a new job, or leaves the one there is.
LEMMA HoldLiveMaps ==
  ASSUME HoldInv, NEW m \in todo, HoldLive(m)
  PROVE  HoldDelivery!Accept(m) \/ UNCHANGED HoldDelivery!vars
<1> DEFINE u == WithHeld(m)
<1>1. pc = "hold" /\ pc' \in {"hold", "turn"} /\ handed' = handed /\ jobs' = u
  BY DEF HoldLive, Statement, WithHeld, historyVars
<1>2. jobs \in Table /\ m \in Keys /\ m \in Msgs
  BY HoldFacts, MsgFacts DEF TableTypes, WorkTypes
<1>3. /\ \A k \in Keys \ {m} : u[k] = jobs[k]
      /\ u # jobs => u[m].state = "pending" /\ jobs[m].state = "absent"
  BY <1>2, WithHeldIs
<1> HIDE DEF u
<1>4. MayHand' = MayHand
  BY <1>1, HoldMapping
<1>5. CASE u = jobs
  BY <1>1, <1>4, <1>5, HoldStutter DEF StatusOf
<1>6. CASE u # jobs
  <2>1. AbstractStatus(jobs[m]) = "absent" /\ AbstractStatus(u[m]) = "open"
    BY <1>3, <1>6 DEF AbstractStatus
  <2>2. StatusOf(jobs)[m] = "absent" /\ StatusOf(jobs)' = [StatusOf(jobs) EXCEPT ![m] = "open"]
    BY <1>1, <1>2, <1>3, <2>1 DEF StatusOf
  <2> QED
    BY <1>1, <1>4, <2>2, HoldMapping DEF HoldDelivery!Accept, MayHand
<1> QED
  BY <1>5, <1>6

\* What is not on disk may be lost: only the status of messages that may not be and were not handed over.
LEMMA LostIsRevocable ==
  ASSUME HoldInv, jobs' = disk
  PROVE  HoldDelivery!TakeBack
<1>1. StatusOf(disk) \in [Keys -> {"absent", "open", "closed"}]
  BY HoldFacts, StatusType DEF TableTypes
<1>2. ASSUME NEW m \in Msgs, AbstractStatus(disk[m]) # AbstractStatus(jobs[m])
      PROVE  ~MayHand[m] /\ handed[m] = 0 /\ AbstractStatus(disk[m]) # "closed"
  <2>1. pc # "finish"
    BY <1>2 DEF HoldInv, PlaceInv
  <2>2. ~(handed[m] > 0) /\ handed[m] \in Nat
    BY <1>2, HoldFacts DEF HoldInv, AnswerInv, Shut, CountTypes
  <2>3. AbstractStatus(disk[m]) # "closed"
    BY <1>2 DEF HoldInv, TableInv
  <2>4. ~MayHand[m]
    BY <1>2, <2>1 DEF MayHand
  <2>5. handed[m] = 0
    BY <2>2
  <2> QED
    BY <2>3, <2>4, <2>5
<1>3. [m \in Msgs |-> AbstractStatus(jobs'[m])] = StatusOf(disk)
  BY MsgFacts DEF StatusOf
<1> QED
  BY <1>1, <1>2, <1>3, MsgFacts DEF HoldDelivery!TakeBack, HoldDelivery!Revocable, MayHand

\* What happens around the daemon takes back uncommitted statements, or does not show.
LEMMA WorldMaps ==
  ASSUME HoldInv, World
  PROVE  HoldDelivery!Next \/ UNCHANGED HoldDelivery!vars
<1>1. CASE Crash
  <2>1. jobs' = disk /\ handed' = handed /\ pc' # "finish"
    BY <1>1 DEF Crash
  <2>2. HoldDelivery!TakeBack
    BY <2>1, LostIsRevocable
  <2>3. MayHand' = [m \in Msgs |-> FALSE]
    BY <2>1, HoldMapping
  <2> QED
    BY <2>1, <2>2, <2>3 DEF HoldDelivery!Crash, HoldDelivery!Next, MayHand
<1>2. CASE ~Crash
  <2>1. /\ pc' = pc /\ todo' = todo /\ handed' = handed
        /\ jobs' \in {jobs, disk, OlderRows(jobs)}
        /\ jobs' = jobs \/ pc # "finish" \/ jobs' = disk
    BY <1>2 DEF World, Arrive, OwnerWrites, ModelFlips, Foreign, ForeignBegin, ForeignEnd, Tick,
                dbVars, releaseVars, historyVars
  <2>2. MayHand' = MayHand
    <3>1. CASE pc # "finish"
      BY <2>1, <3>1, HoldMapping
    <3>2. CASE pc = "finish"
      <4>1. jobs' = jobs
        BY <2>1, <3>2 DEF HoldInv, PlaceInv
      <4> QED
        BY <2>1, <4>1 DEF MayHand, FirstOf, Before
    <3> QED
      BY <3>1, <3>2
  <2>3. CASE jobs' = disk
    BY <2>1, <2>2, <2>3, LostIsRevocable DEF HoldDelivery!Revoke, HoldDelivery!Next, MayHand
  <2>4. CASE jobs' = jobs
    BY <2>1, <2>2, <2>4, HoldStutter DEF StatusOf
  <2>5. CASE jobs' = OlderRows(jobs)
    <3>1. \A k \in Keys : jobs'[k].state = jobs[k].state
      BY <2>5, HoldFacts, OlderRow DEF TableTypes
    <3>2. StatusOf(jobs)' = StatusOf(jobs)
      BY <3>1 DEF StatusOf, AbstractStatus
    <3> QED
      BY <2>1, <2>2, <3>2, HoldStutter
  <2> QED
    BY <2>1, <2>3, <2>4, <2>5
<1> QED
  BY <1>1, <1>2

\* Every step of the daemon and its surroundings maps to an abstract step or a stutter.
LEMMA HoldStepMaps ==
  HoldInv /\ [Next]_vars => [HoldDelivery!Next]_(HoldDelivery!vars)
<1> SUFFICES ASSUME HoldInv, [Next]_vars
             PROVE  HoldDelivery!Next \/ UNCHANGED HoldDelivery!vars
  OBVIOUS
<1>1. todo \subseteq Msgs
  BY HoldFacts DEF WorkTypes
<1>2. CASE QuietDaemon /\ ~(\E m \in todo : FinishReleased(m))
  BY <1>2, QuietMaps DEF HoldDelivery!Next
<1>3. ASSUME NEW m \in todo, FinishReleased(m) PROVE HoldDelivery!Next
  BY <1>1, <1>3, FinishMaps DEF HoldDelivery!Next
<1>4. ASSUME NEW m \in todo, MarkSending(m), pc' = "finish" PROVE HoldDelivery!Next
  BY <1>1, <1>4, MarkSendingMaps DEF HoldDelivery!Next
<1>5. ASSUME NEW m \in todo, HoldLive(m) PROVE HoldDelivery!Next \/ UNCHANGED HoldDelivery!vars
  BY <1>1, <1>5, HoldLiveMaps DEF HoldDelivery!Next
<1>6. CASE World
  BY <1>6, WorldMaps
<1>7. CASE UNCHANGED vars
  <2>1. jobs' = jobs /\ pc' = pc /\ todo' = todo /\ handed' = handed
    BY <1>7 DEF vars, dbVars, releaseVars, historyVars
  <2> QED
    BY <2>1, HoldStutter DEF StatusOf, MayHand, FirstOf, Before
<1>8. Daemon => QuietDaemon \/ (\E m \in todo : HoldLive(m) \/ (MarkSending(m) /\ pc' = "finish"))
  BY DEF Daemon, Release, Turns, QuietDaemon
<1> QED
  BY <1>2, <1>3, <1>4, <1>5, <1>6, <1>7, <1>8 DEF Next

\* The hold keeps the queue's promise: its loop, with crashes, rollbacks and the model coming and going,
\* hands a held message to a turn at most once.
THEOREM HoldHandsOverAtMostOnce == Spec => HandsOverAtMostOnce
<1>1. Init => HoldDelivery!Init
  <2> SUFFICES ASSUME Init PROVE HoldDelivery!Init
    OBVIOUS
  <2>1. pc # "finish" /\ \A m \in Msgs : AbstractStatus(jobs[m]) = "absent"
    BY MsgFacts DEF Init, EmptyTable, Absent, AbstractStatus
  <2> QED
    BY <2>1 DEF HoldDelivery!Init, Init
<1>2. HoldInv /\ [Next]_vars => [HoldDelivery!Next]_(HoldDelivery!vars)
  BY HoldStepMaps
<1> QED
  BY <1>1, <1>2, HoldInvariant, PTL DEF Spec, HoldDelivery!Spec, HandsOverAtMostOnce

----------------------------------------------------------------------------
\* The parts of TrackInv.
NumberInv == Numbered(jobs) /\ Numbered(disk)
RoomInv   == pc \in ClaimPCs => Cardinality(held) + Cardinality(todo) <= Slots
HeldInv   == \A m \in held : \E d \in 1..Cardinality(held) : ring[Back(d)] = m
OutInv    == \A m \in InBatch : Out(m) => \E i \in 0..Slots - 1 : ring[i] = m

\* They are TrackInv, before and after a step.
LEMMA TrackParts ==
  /\ TrackInv <=> NumberInv /\ RoomInv /\ HeldInv /\ OutInv
  /\ TrackInv' <=> NumberInv' /\ RoomInv' /\ HeldInv' /\ OutInv'
BY DEF TrackInv, NumberInv, RoomInv, HeldInv, OutInv, ClaimPCs, Back

\* A step that changes no row's number, adds none and puts nothing in flight.
Unsent ==
  /\ NumberInv'
  /\ \A m \in Msgs : Out(m)' => Out(m)

\* A steady step is one, ...
LEMMA SteadyUnsent ==
  ASSUME HoldInv, NumberInv, SteadyStep
  PROVE  Unsent
<1>1. /\ OnlyWithdraws(jobs, jobs') /\ NoneSent(jobs, jobs') /\ SameOrigin(jobs, jobs')
      /\ disk' = disk \/ disk' = jobs'
  BY DEF SteadyStep, Steady
<1>2. Numbered(jobs')
  <2>1. \A k \in Keys : /\ jobs'[k].id = jobs[k].id
                        /\ jobs'[k].state = "absent" <=> jobs[k].state = "absent"
    BY <1>1, WithdrawsStatus DEF SameOrigin
  <2> QED
    BY <2>1, SameNumbered DEF NumberInv
<1>3. NumberInv'
  BY <1>1, <1>2 DEF NumberInv
<1>4. \A m \in Msgs : Out(m)' => Out(m)
  BY <1>1, MsgFacts DEF NoneSent, Out
<1> QED
  BY <1>3, <1>4 DEF Unsent

\* ... and so are a rollback, a commit, a crash and the passing of time.
LEMMA WorldUnsent ==
  ASSUME HoldInv, NumberInv, World
  PROVE  Unsent
<1>1. CASE ~Tick
  <2>1. jobs' \in {jobs, disk} /\ disk' \in {jobs, disk}
    BY <1>1 DEF World, Arrive, OwnerWrites, ModelFlips, Foreign, ForeignBegin, ForeignEnd, Crash, dbVars
  <2> QED
    BY <2>1 DEF Unsent, NumberInv, Out
<1>2. CASE Tick
  <2>1. jobs' = OlderRows(jobs) /\ disk' = OlderRows(disk)
    BY <1>2 DEF Tick
  <2>2. \A k \in Keys : /\ jobs'[k].state = jobs[k].state /\ jobs'[k].id = jobs[k].id
                        /\ disk'[k].state = disk[k].state /\ disk'[k].id = disk[k].id
    BY <2>1, HoldFacts, OlderRow DEF TableTypes
  <2>3. Numbered(jobs') /\ Numbered(disk')
    BY <2>2, SameNumbered DEF NumberInv
  <2>4. NumberInv'
    BY <2>3 DEF NumberInv
  <2>5. \A m \in Msgs : Out(m)' => Out(m)
    BY <2>2, MsgFacts DEF Out
  <2> QED
    BY <2>4, <2>5 DEF Unsent
<1> QED
  BY <1>1, <1>2

\* During a release no message of the batch has a row.
LEMMA BatchIsFresh ==
  /\ HoldInv /\ pc \in ReleasePCs => \A m \in InBatch : ~Out(m)
  /\ HoldInv' /\ pc' \in ReleasePCs => \A m \in InBatch' : ~Out(m)'
<1>1. HoldInv /\ pc \in ReleasePCs => \A m \in InBatch : ~Out(m)
  <2> SUFFICES ASSUME HoldInv, pc \in ReleasePCs, NEW m \in InBatch, Out(m) PROVE FALSE
    OBVIOUS
  <2>1. m \in Msgs /\ m \in Nat
    BY HoldFacts, MsgFacts
  <2>2. HasRow(m)
    BY DEF Out, HasRow
  <2>3. m < m
    BY <2>1, <2>2 DEF HoldInv, PlaceInv
  <2> QED
    BY <2>1, <2>3
<1>2. HoldInv' /\ pc' \in ReleasePCs => \A m \in InBatch' : ~Out(m)'
  <2> SUFFICES ASSUME HoldInv', pc' \in ReleasePCs, NEW m \in InBatch', Out(m)' PROVE FALSE
    OBVIOUS
  <2>1. m \in Msgs /\ m \in Nat
    <3>1. batch' \in Seq(Msgs)
      BY DEF HoldInv, TypeOK
    <3>2. m \in Msgs
      BY <3>1 DEF InBatch, MsgsOf
    <3> QED
      BY <3>2, MsgFacts
  <2>2. HasRow(m)'
    BY DEF Out, HasRow
  <2>3. m < m
    BY <2>1, <2>2 DEF HoldInv, PlaceInv
  <2> QED
    BY <2>1, <2>3
<1> QED
  BY <1>1, <1>2

\* A release's lists are finite, and its ring has as many slots as they may have messages.
LEMMA TrackFacts ==
  ASSUME HoldInv
  PROVE  /\ IsFiniteSet(held) /\ Cardinality(held) \in Nat
         /\ IsFiniteSet(todo) /\ Cardinality(todo) \in Nat
         /\ Slots \in Nat /\ Slots >= 1 /\ Slots >= PollMax /\ PollMax \in Nat /\ ReleaseMax \in Nat
         /\ ringNext \in Nat /\ ringNext < Slots
<1>1. held \subseteq Msgs /\ todo \subseteq Msgs /\ ringNext \in 0..Slots - 1
  BY HoldFacts DEF WorkTypes, RingTypes
<1>2. IsFiniteSet(held) /\ IsFiniteSet(todo)
  BY <1>1, MsgFacts, FS_Subset
<1> QED
  BY <1>1, <1>2, FS_CardinalityType, HoldLimits

\* A step that leaves the ring and the released messages alone.
LEMMA KeepTrack ==
  ASSUME HoldInv, HoldInv', TrackInv, Unsent, ring' = ring, ringNext' = ringNext,
         held' = held \/ held' = {},
         pc' \in ClaimPCs => pc \in ClaimPCs /\ todo' \subseteq todo,
         InBatch' \subseteq InBatch \/ pc' \in ReleasePCs
  PROVE  TrackInv'
<1>1. NumberInv' /\ NumberInv /\ RoomInv /\ HeldInv /\ OutInv
  BY TrackParts DEF Unsent
<1>2. RoomInv'
  <2> SUFFICES ASSUME pc' \in ClaimPCs PROVE Cardinality(held') + Cardinality(todo') <= Slots
    BY DEF RoomInv
  <2>1. pc \in ClaimPCs /\ todo' \subseteq todo
    OBVIOUS
  <2>2. Cardinality(held) + Cardinality(todo) <= Slots
    BY <1>1, <2>1 DEF RoomInv
  <2>3. Cardinality(todo') \in Nat /\ Cardinality(todo') <= Cardinality(todo)
    BY <2>1, TrackFacts, FS_Subset, FS_CardinalityType
  <2>4. Cardinality(held') \in Nat /\ Cardinality(held') <= Cardinality(held)
    BY TrackFacts, FS_EmptySet
  <2> QED
    BY <2>2, <2>3, <2>4, TrackFacts
<1>3. HeldInv'
  BY <1>1 DEF HeldInv, Back
<1>4. OutInv'
  <2>1. CASE pc' \in ReleasePCs
    BY <2>1, BatchIsFresh DEF OutInv
  <2>2. CASE InBatch' \subseteq InBatch
    <3>1. InBatch \subseteq Msgs
      BY HoldFacts
    <3> QED
      BY <1>1, <2>2, <3>1 DEF OutInv, Unsent
  <2> QED
    BY <2>1, <2>2
<1> QED
  BY <1>1, <1>2, <1>3, <1>4, TrackParts

\* claim_due: it selects no more rows than the batch has room for, and the ring has a slot for each.
LEMMA ClaimTracks ==
  ASSUME HoldInv, HoldInv', TrackInv, Unsent, ClaimHolds
  PROVE  TrackInv'
<1> DEFINE t == Requeue(jobs, Horizon)
           S == SelectDue(t, {"inbound_hold"}, Horizon, ReleaseCap)
<1>1. pc = "claim" /\ held' = held /\ ring' = ring /\ ringNext' = ringNext /\ batch' = batch
  BY DEF ClaimHolds, processVars
<1>2. held = {}
  BY <1>1 DEF HoldInv, PlaceInv
<1>3. CASE todo' = S /\ pc' = "decode"
  <2>1. Cardinality(S) <= Slots
    <3>1. jobs \in Table /\ Numbered(jobs)
      BY HoldFacts DEF TableTypes, TrackInv
    <3>2. Steady(jobs, t)
      BY <3>1, RequeueSteady
    <3>3. t \in Table /\ OnlyWithdraws(jobs, t) /\ SameOrigin(jobs, t)
      BY <3>2 DEF Steady
    <3> DEFINE cap == ReleaseCap
    <3>4. cap \in Int /\ cap <= Slots
      <4>1. Len(batch) \in Nat
        BY HoldFacts DEF WorkTypes
      <4> QED
        BY <4>1, TrackFacts DEF ReleaseCap
    <3>5. S = SelectDue(t, {"inbound_hold"}, Horizon, cap)
      OBVIOUS
    <3> HIDE DEF t, S, cap
    <3>6. Numbered(t)
      <4>1. \A k \in Keys : t[k].id = jobs[k].id /\ (t[k].state = "absent" <=> jobs[k].state = "absent")
        BY <3>3, WithdrawsStatus DEF SameOrigin
      <4> QED
        BY <3>1, <4>1, SameNumbered
    <3> QED
      BY <3>3, <3>4, <3>5, <3>6, TrackFacts, SelectBound
  <2>2. Cardinality(held') = 0
    BY <1>1, <1>2, FS_EmptySet
  <2>3. Cardinality(todo') \in Nat
    <3>1. todo' \subseteq Msgs
      BY DEF HoldInv, TypeOK
    <3> QED
      BY <3>1, MsgFacts, FS_Subset, FS_CardinalityType
  <2> HIDE DEF S, t
  <2>4. RoomInv'
    BY <1>3, <2>1, <2>2, <2>3, TrackFacts DEF RoomInv
  <2>5. HeldInv'
    BY <1>1, <1>2 DEF HeldInv
  <2>6. OutInv'
    BY <1>3, BatchIsFresh DEF OutInv, ReleasePCs, ClaimPCs
  <2> QED
    BY <2>4, <2>5, <2>6, TrackParts DEF Unsent
<1>4. CASE pc' = "turn"
  BY <1>1, <1>4, KeepTrack DEF ClaimPCs, InBatch
<1> QED
  BY <1>3, <1>4 DEF ClaimHolds

\* Writing the next slot of the ring moves the slots written before one further back.
LEMMA BackMoves ==
  ASSUME HoldInv, ringNext' = (ringNext + 1) % Slots, NEW d \in 1..Slots - 1
  PROVE  /\ Back(d + 1)' = Back(d) /\ Back(1)' = ringNext
         /\ Back(d) \in 0..Slots - 1 /\ Back(d) # ringNext
<1>1. ringNext' = IF ringNext + 1 < Slots THEN ringNext + 1 ELSE 0
  <2>1. CASE ringNext + 1 < Slots
    BY <2>1, TrackFacts
  <2>2. CASE ~(ringNext + 1 < Slots)
    <3>1. ringNext + 1 = Slots
      BY <2>2, TrackFacts
    <3> QED
      BY <2>2, <3>1, TrackFacts
  <2> QED
    BY <2>1, <2>2
<1> QED
  BY <1>1, TrackFacts DEF Back

\* The slot written last, also of a ring of one.
LEMMA BackOne ==
  ASSUME HoldInv, ringNext' = (ringNext + 1) % Slots
  PROVE  Back(1)' = ringNext
<1>1. CASE Slots >= 2
  <2>1. 1 \in 1..Slots - 1
    BY <1>1, TrackFacts
  <2> QED
    BY <2>1, BackMoves
<1>2. CASE Slots = 1
  <2>1. ringNext = 0 /\ ringNext' = 0
    BY <1>2, TrackFacts
  <2> QED
    BY <1>2, <2>1 DEF Back
<1> QED
  BY <1>1, <1>2, TrackFacts

\* The hand-over: the message is in the slot written last, the others one further back.
LEMMA FinishTracks ==
  ASSUME HoldInv, HoldInv', TrackInv, Unsent, NEW m \in todo, FinishReleased(m)
  PROVE  TrackInv'
<1>1. /\ pc = "finish" /\ pc' = "commit" /\ m \in FirstOf(todo)
      /\ ring' = [ring EXCEPT ![ringNext] = m] /\ ringNext' = (ringNext + 1) % Slots
      /\ held' = held \cup {m} /\ todo' = todo \ {m}
  BY DEF FinishReleased
<1>2. m \notin held
  BY <1>1 DEF HoldInv, PlaceInv
<1> DEFINE h == Cardinality(held)
           n == Cardinality(todo)
<1>3. /\ h \in Nat /\ n \in Nat /\ n >= 1 /\ h + n <= Slots
      /\ Cardinality(held') = h + 1 /\ Cardinality(todo') = n - 1
  <2>1. Cardinality(held') = h + 1 /\ Cardinality(todo') = n - 1
    BY <1>1, <1>2, TrackFacts, FS_AddElement, FS_RemoveElement
  <2>2. n # 0
    BY TrackFacts, FS_EmptySet
  <2>3. h + n <= Slots
    BY <1>1 DEF TrackInv, ClaimPCs
  <2> QED
    BY <2>1, <2>2, <2>3, TrackFacts
<1>4. RoomInv'
  <2> HIDE DEF h, n
  <2> QED
    BY <1>3, TrackFacts DEF RoomInv
<1>5. HeldInv'
  <2> SUFFICES ASSUME NEW k \in held' PROVE \E d \in 1..Cardinality(held') : ring'[Back(d)'] = k
    BY DEF HeldInv
  <2>0. ring \in [0..Slots - 1 -> 0..LastMsg] /\ ringNext \in 0..Slots - 1
    BY HoldFacts DEF RingTypes
  <2>1. CASE k = m
    <3>1. Back(1)' = ringNext /\ ring'[ringNext] = m
      BY <1>1, <2>0, BackOne
    <3>2. 1 \in 1..Cardinality(held')
      BY <1>3
    <3> QED
      BY <2>1, <3>1, <3>2
  <2>2. CASE k \in held
    <3>1. PICK d \in 1..h : ring[Back(d)] = k
      BY <2>2, TrackParts DEF HeldInv
    <3>2. d \in 1..Slots - 1 /\ d + 1 \in 1..Cardinality(held')
      BY <1>3, <3>1, TrackFacts
    <3>3. Back(d + 1)' = Back(d) /\ Back(d) \in 0..Slots - 1 /\ Back(d) # ringNext
      BY <1>1, <3>2, BackMoves
    <3>4. ring'[Back(d)] = k
      BY <1>1, <2>0, <3>1, <3>3
    <3> QED
      BY <3>2, <3>3, <3>4
  <2> QED
    BY <1>1, <2>1, <2>2
<1>6. OutInv'
  BY <1>1, BatchIsFresh DEF OutInv, ReleasePCs, ClaimPCs
<1> QED
  BY <1>4, <1>5, <1>6, TrackParts DEF Unsent

\* The splice: the slots of the released messages are slots of the ring.
LEMMA SpliceTracks ==
  ASSUME HoldInv, HoldInv', TrackInv, Unsent, Splice
  PROVE  TrackInv'
<1>1. pc = "commit" /\ pc' = "turn" /\ held' = {} /\ ring' = ring /\ ringNext' = ringNext
  BY DEF Splice, processVars
<1>2. PICK q \in InOrder(held) : batch' = q \o batch
  BY DEF Splice
<1>3. InBatch' = MsgsOf(q) \cup InBatch /\ MsgsOf(q) \subseteq held
  <2>1. q \in Seq(Msgs) /\ Ascending(q) /\ MsgsOf(q) \subseteq held /\ batch \in Seq(Msgs) /\ Ascending(batch)
    BY HoldFacts, InOrderIs DEF WorkTypes
  <2>2. \A k \in MsgsOf(q) : \A j \in MsgsOf(batch) : k < j
    BY <2>1 DEF HoldInv, BatchInv, InBatch
  <2> QED
    BY <1>2, <2>1, <2>2, ConcatIs DEF InBatch
<1>4. \A m \in held : \E i \in 0..Slots - 1 : ring[i] = m
  <2> SUFFICES ASSUME NEW m \in held PROVE \E i \in 0..Slots - 1 : ring[i] = m
    OBVIOUS
  <2>1. PICK d \in 1..Cardinality(held) : ring[Back(d)] = m
    BY TrackParts DEF HeldInv
  <2>2. Cardinality(held) <= Slots
    BY <1>1, TrackFacts DEF TrackInv, ClaimPCs
  <2>3. Back(d) \in 0..Slots - 1
    BY <2>2, TrackFacts DEF Back
  <2> QED
    BY <2>1, <2>3
<1>5. RoomInv' /\ HeldInv'
  BY <1>1 DEF RoomInv, HeldInv, ClaimPCs
<1>6. OutInv'
  <2> SUFFICES ASSUME NEW m \in InBatch', Out(m)' PROVE \E i \in 0..Slots - 1 : ring'[i] = m
    BY DEF OutInv
  <2>1. CASE m \in held
    BY <1>1, <1>4, <2>1
  <2>2. CASE m \in InBatch
    <3>1. ~Out(m) /\ m \in Msgs
      BY <1>1, <2>2, BatchIsFresh, HoldFacts DEF ReleasePCs, ClaimPCs
    <3> QED
      BY <3>1 DEF Unsent
  <2> QED
    BY <1>3, <2>1, <2>2
<1> QED
  BY <1>5, <1>6, TrackParts DEF Unsent

\* take_reinjected forgets the messages of the failed turn only.
LEMMA TurnTracks ==
  ASSUME HoldInv, HoldInv', TrackInv, Unsent, NEW n \in 1..Len(batch),
         DedupSkip(n) \/ TurnSilent(n) \/ TurnReplies(n) \/ TurnFails(n)
  PROVE  TrackInv'
<1>1. /\ pc = "turn" /\ pc' \in {"turn", "mark", "hold"} /\ batch' = Rest(n) /\ held' = held
      /\ ring' = ring \/ ring' = Forget(TurnMsgs(n))
  BY DEF DedupSkip, TurnSilent, TurnReplies, TurnFails, releaseVars, processVars
<1>2. held = {}
  BY <1>1 DEF HoldInv, PlaceInv
<1>3. RoomInv' /\ HeldInv'
  BY <1>1, <1>2 DEF RoomInv, HeldInv, ClaimPCs
<1>4. OutInv'
  <2> SUFFICES ASSUME NEW m \in InBatch', Out(m)' PROVE \E i \in 0..Slots - 1 : ring'[i] = m
    BY DEF OutInv
  <2>1. m \in InBatch /\ m \notin TurnMsgs(n) /\ m \in Msgs
    BY <1>1, TurnIs, HoldFacts DEF InBatch
  <2>2. Out(m)
    BY <2>1 DEF Unsent
  <2>3. PICK i \in 0..Slots - 1 : ring[i] = m
    BY <2>1, <2>2 DEF TrackInv
  <2>4. ring'[i] = m
    BY <1>1, <2>1, <2>3 DEF Forget
  <2> QED
    BY <2>4
<1> QED
  BY <1>3, <1>4, TrackParts DEF Unsent

\* mark_sending: nothing of the batch gets in flight.
LEMMA SendTracks ==
  ASSUME HoldInv, HoldInv', TrackInv, NEW m \in todo, MarkSending(m), pc' = "finish"
  PROVE  TrackInv'
<1> DEFINE u == ToSending(jobs, m)
<1>1. /\ pc = "commit" /\ todo' = todo /\ held' = held /\ ring' = ring /\ ringNext' = ringNext
      /\ jobs[m].state = "claimed" /\ jobs' = u /\ disk' = u
  BY DEF MarkSending, MaySend, OwnTransaction, processVars
<1>2. jobs \in Table /\ m \in Keys
  BY HoldFacts, MsgFacts DEF TableTypes, WorkTypes
<1>3. SameOrigin(jobs, u) /\ OnlyWithdraws(jobs, u)
  BY <1>1, <1>2, ToSendingRow, ToSendingCloses
<1> HIDE DEF u
<1>4. Numbered(u)
  <2>1. \A k \in Keys : u[k].id = jobs[k].id /\ (u[k].state = "absent" <=> jobs[k].state = "absent")
    BY <1>3, WithdrawsStatus DEF SameOrigin
  <2> QED
    BY <2>1, SameNumbered DEF TrackInv
<1>5. NumberInv'
  BY <1>1, <1>4 DEF NumberInv
<1>6. RoomInv' /\ HeldInv'
  BY <1>1, TrackParts DEF RoomInv, HeldInv, Back, ClaimPCs
<1>7. OutInv'
  BY BatchIsFresh DEF OutInv, ReleasePCs, ClaimPCs
<1> QED
  BY <1>5, <1>6, <1>7, TrackParts

\* hold_live: the new row takes the next number, and is of no message of the batch.
LEMMA HoldLiveTracks ==
  ASSUME HoldInv, HoldInv', TrackInv, NEW m \in todo, HoldLive(m)
  PROVE  TrackInv'
<1> DEFINE u == WithHeld(m)
<1>1. /\ pc = "hold" /\ pc' \in {"hold", "turn"} /\ jobs' = u /\ (disk' = disk \/ disk' = u)
      /\ UNCHANGED <<held, ring, ringNext, batch>>
  BY DEF HoldLive, Statement, WithHeld, processVars
<1>2. jobs \in Table /\ m \in Keys /\ m \in Msgs /\ m \notin InBatch /\ held = {}
  BY <1>1, HoldFacts, MsgFacts DEF TableTypes, WorkTypes, HoldInv, PlaceInv
<1>3. /\ \A k \in Keys \ {m} : u[k] = jobs[k]
      /\ jobs[m].state # "absent" => u = jobs
      /\ u # jobs => u[m].state = "pending" /\ u[m].id = Cardinality(Present(jobs)) + 1
  BY <1>2, WithHeldIs
<1> HIDE DEF u
<1>4. Numbered(jobs) /\ Numbered(disk)
  BY DEF TrackInv
<1>5. Numbered(u)
  <2>1. CASE u = jobs
    BY <1>4, <2>1
  <2>2. CASE u # jobs
    <3>1. jobs[m].state = "absent" /\ u[m].state # "absent"
      BY <1>3, <2>2
    <3> QED
      BY <1>2, <1>3, <1>4, <2>2, <3>1, NextNumbered
  <2> QED
    BY <2>1, <2>2
<1>6. NumberInv'
  BY <1>1, <1>4, <1>5 DEF NumberInv
<1>7. RoomInv' /\ HeldInv'
  BY <1>1, <1>2 DEF RoomInv, HeldInv, ClaimPCs
<1>8. OutInv'
  <2> SUFFICES ASSUME NEW k \in InBatch, Out(k)' PROVE \E i \in 0..Slots - 1 : ring[i] = k
    BY <1>1 DEF OutInv, InBatch
  <2>1. k \in Keys /\ k # m
    BY <1>2, HoldFacts, MsgFacts
  <2>2. Out(k)
    BY <1>1, <1>3, <2>1 DEF Out
  <2> QED
    BY <2>2 DEF TrackInv
<1> QED
  BY <1>6, <1>7, <1>8, TrackParts

\* Every step keeps the track of the released messages.
LEMMA StepTracks == HoldInv /\ HoldInv' /\ TrackInv /\ [Next]_vars => TrackInv'
<1> SUFFICES ASSUME HoldInv, HoldInv', TrackInv, [Next]_vars PROVE TrackInv'
  OBVIOUS
<1>0. NumberInv
  BY TrackParts
<1>1. QuietDaemon => Unsent
  BY <1>0, QuietIsSteady, SteadyUnsent
<1>2. CASE \/ Start \/ Poll \/ ExpireLive \/ Gate \/ CheckOwner \/ BatchDone \/ MarkReplied
           \/ \E m \in todo : \/ DecodeFails(m) \/ Defer(m) \/ Cancel(m)
                              \/ (MarkSending(m) /\ pc' # "finish")
  <2>1. QuietDaemon
    BY <1>2 DEF QuietDaemon
  <2>2. /\ ring' = ring /\ ringNext' = ringNext /\ held' = held
        /\ pc' \in ClaimPCs => pc \in ClaimPCs /\ todo' \subseteq todo
    BY <1>2 DEF Start, Poll, ExpireLive, Gate, CheckOwner, BatchDone, MarkReplied, DecodeFails, Defer, Cancel,
                MarkSending, releaseVars, processVars, ClaimPCs
  <2>3. CASE ~Poll
    <3>1. batch' = batch
      BY <1>2, <2>3 DEF Start, ExpireLive, Gate, CheckOwner, BatchDone, MarkReplied, DecodeFails, Defer, Cancel,
                MarkSending
    <3>2. InBatch' = InBatch
      BY <3>1 DEF InBatch
    <3> QED
      BY <1>1, <2>1, <2>2, <3>2, KeepTrack
  <2>4. CASE Poll
    <3>1. OutInv'
      <4> SUFFICES ASSUME NEW m \in InBatch', Out(m)' PROVE FALSE
        BY DEF OutInv
      <4>1. PICK new \in Deliverable : batch' \in InOrder(new)
        BY <2>4 DEF Poll
      <4>2. new \subseteq cursor + 1..PollUpTo /\ PollUpTo = cursor' /\ UNCHANGED dbVars
        BY <2>4, <4>1 DEF Deliverable, Poll
      <4>3. cursor' \in 0..arrived' /\ arrived' \in 0..LastMsg /\ cursor \in Nat /\ LastMsg \in Nat
        BY HoldFacts, HoldKeys DEF HoldInv, TypeOK
      <4>4. cursor' \in Nat /\ cursor' <= LastMsg
        BY <4>3
      <4>5. new \subseteq Msgs /\ \A k \in new : ~(k <= cursor)
        BY <4>2, <4>3, <4>4 DEF Msgs
      <4>6. m \in new
        BY <4>1, <4>5, InOrderIs DEF InBatch
      <4>7. ~HasRow(m)
        BY <4>5, <4>6 DEF HoldInv, CursorInv
      <4> QED
        BY <4>2, <4>7 DEF Out, HasRow, dbVars
    <3>2. RoomInv'
      BY <2>4 DEF Poll, RoomInv, ClaimPCs
    <3>3. HeldInv'
      BY <2>2, TrackParts DEF HeldInv, Back
    <3> QED
      BY <1>1, <2>1, <3>1, <3>2, <3>3, TrackParts DEF Unsent
  <2> QED
    BY <2>3, <2>4
<1>3. CASE ClaimHolds
  BY <1>1, <1>3, ClaimTracks DEF QuietDaemon
<1>4. CASE Splice
  BY <1>1, <1>4, SpliceTracks DEF QuietDaemon
<1>5. ASSUME NEW m \in todo, FinishReleased(m) PROVE TrackInv'
  BY <1>1, <1>5, FinishTracks DEF QuietDaemon
<1>6. ASSUME NEW n \in 1..Len(batch), DedupSkip(n) \/ TurnSilent(n) \/ TurnReplies(n) \/ TurnFails(n)
      PROVE  TrackInv'
  BY <1>1, <1>6, TurnTracks DEF QuietDaemon
<1>7. ASSUME NEW m \in todo, (MarkSending(m) /\ pc' = "finish") \/ HoldLive(m) PROVE TrackInv'
  BY <1>7, SendTracks, HoldLiveTracks
<1>8. CASE World
  <2>1. Unsent
    BY <1>0, <1>8, WorldUnsent
  <2>2. CASE Crash
    <3>1. held' = {} /\ InBatch' = {} /\ pc' = "down"
      BY <2>2 DEF Crash, InBatch, MsgsOf
    <3>2. RoomInv' /\ HeldInv' /\ OutInv'
      BY <3>1 DEF RoomInv, HeldInv, OutInv, ClaimPCs
    <3> QED
      BY <2>1, <3>2, TrackParts DEF Unsent
  <2>3. CASE ~Crash
    <3>1. UNCHANGED <<ring, ringNext, held, todo, pc, batch>>
      BY <1>8, <2>3 DEF World, Arrive, OwnerWrites, ModelFlips, Foreign, Tick, releaseVars, processVars
    <3>2. InBatch' = InBatch
      BY <3>1 DEF InBatch
    <3> QED
      BY <2>1, <3>1, <3>2, KeepTrack
  <2> QED
    BY <2>2, <2>3
<1>9. CASE UNCHANGED vars
  <2>1. UNCHANGED <<jobs, disk, ring, ringNext, held, todo, pc, batch>>
    BY <1>9 DEF vars, dbVars, releaseVars, processVars
  <2>2. Unsent /\ InBatch' = InBatch
    BY <1>0, <2>1 DEF Unsent, NumberInv, Out, InBatch
  <2> QED
    BY <2>1, <2>2, KeepTrack
<1> QED
  BY <1>2, <1>3, <1>4, <1>5, <1>6, <1>7, <1>8, <1>9 DEF Next, Daemon, Release, Turns

\* A released message is in the ring until its turn is over: a release hands over no more messages than the
\* ring has slots, and writes no slot while released messages wait in the batch.
THEOREM HoldReleasedIsTracked == Spec => []ReleasedIsTracked
<1>1. Init => TrackInv
  <2> SUFFICES ASSUME Init PROVE TrackInv
    OBVIOUS
  <2>1. Present(jobs) = {} /\ jobs = disk
    BY DEF Init, EmptyTable, Absent, Present
  <2>2. NumberInv
    BY <2>1 DEF NumberInv, Numbered
  <2>3. RoomInv /\ HeldInv /\ OutInv
    BY DEF Init, RoomInv, HeldInv, OutInv, InBatch, MsgsOf, ClaimPCs
  <2> QED
    BY <2>2, <2>3, TrackParts
<1>2. HoldInv /\ HoldInv' /\ TrackInv /\ [Next]_vars => TrackInv'
  BY StepTracks
<1>3. HoldInv /\ TrackInv => ReleasedIsTracked
  <2> SUFFICES ASSUME HoldInv, TrackInv, NEW m \in ToSet(batch) \cup held, jobs[m].state \in {"sending", "done"}
               PROVE  \E i \in 0..Slots - 1 : ring[i] = m
    BY DEF ReleasedIsTracked
  <2>1. ToSet(batch) = InBatch
    BY HoldFacts DEF ToSet, InBatch, MsgsOf, WorkTypes
  <2>2. CASE m \in InBatch
    BY <2>2 DEF TrackInv, Out
  <2>3. CASE m \in held
    <3>1. PICK d \in 1..Cardinality(held) : ring[Back(d)] = m
      BY <2>3 DEF TrackInv
    <3>2. pc \in ClaimPCs
      BY <2>3 DEF HoldInv, PlaceInv, ClaimPCs
    <3>3. Cardinality(held) <= Slots
      BY <3>2, TrackFacts DEF TrackInv, ClaimPCs
    <3>4. Back(d) \in 0..Slots - 1
      BY <3>3, TrackFacts DEF Back
    <3> QED
      BY <3>1, <3>4
  <2> QED
    BY <2>1, <2>2, <2>3
<1> QED
  BY <1>1, <1>2, <1>3, HoldInvariant, PTL DEF Spec
=============================================================================
