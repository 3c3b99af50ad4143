------------------------------ MODULE Memory_proofs ------------------------------
(***************************************************************************)
(* Theorems of Memory, for any sessions, agent names, tasks and bounds.    *)
(* The invariant adds to the properties that item ids only grow, and that  *)
(* whatever a cursor or an observation has passed over is remembered, or   *)
(* lost by a failure of the file system or a deletion.                     *)
(***************************************************************************)
EXTENDS Memory, SequenceTheorems, FiniteSetTheorems, WellFoundedInduction, TLAPS

USE MemoryAssumption DEF MemoryAssumption

(* Items are in the order of their ids, and an output comes after its call. *)
Increasing(s) == \A i, j \in DOMAIN s : i < j => s[i].id < s[j].id
Paired(s)     == \A i \in DOMAIN s : s[i].type = "output" =>
                   \E j \in 1..i - 1 : s[j].type = "call" /\ s[j].id = s[i].call

(* An id that nothing names that is committed, or that a task has read. *)
NewTo(id) ==
  /\ \A s \in Sessions : /\ \A i \in DOMAIN items[s] : items[s][i].id < id
                         /\ cursor[s] # None => cursor[s] < id
  /\ \A t \in Tasks : /\ task[t].seen # None => task[t].seen < id
                      /\ \A i \in DOMAIN task[t].batch : task[t].batch[i].id < id

IdsOK ==
  /\ NewTo(last + 1)
  /\ \A s \in Sessions : Increasing(items[s]) /\ Paired(items[s])

(* A run keeps items that are committed, and adds new ones. *)
RunOK ==
  run # NoRun =>
    /\ run.session \in Sessions /\ run.name \in Names
    /\ run.items # <<>> /\ Increasing(run.items) /\ Paired(run.items)
    /\ \A i \in DOMAIN run.items :
         /\ run.items[i].id <= last
         /\ run.items[i].id \in IdsOf(items[run.session]) \/ NewTo(run.items[i].id)

(* What a task has read in each of its phases. *)
TaskOK(job) ==
  /\ job.phase \in {"scheduled", "waiting", "observing"} => job.session \in Sessions
  /\ job.phase \in {"waiting", "observing", "toReflect", "reflecting"} => job.name \in Names
  /\ job.phase = "observing" => job.batch # <<>>
  /\ job.phase # "observing" => ~job.blind
TasksOK == \A t \in Tasks : TaskOK(task[t])

(* The items up to an id are remembered, except for those that are going   *)
(* to be.                                                                  *)
Remembered(mem, id)       == \E n \in Names : \E rev \in 0..MaxEdits : [id |-> id, rev |-> rev] \in mem[n]
Upto(rows, mem, id, soon) ==
  \A i \in DOMAIN rows : rows[i].id <= id => rows[i].id \in soon \/ Remembered(mem, rows[i].id)

(* What each memory stands for, or has lost; it only grows. *)
Kept == [n \in Names |-> memory[n] \union lost[n]]

CursorsOK == \A s \in Sessions : cursor[s] # None => Upto(items[s], Kept, cursor[s], {})
SeenOK    == \A t \in Tasks :
               task[t].phase = "waiting" /\ task[t].seen # None =>
                 Upto(items[task[t].session], Kept, task[t].seen, {})
BatchesOK == \A t \in Tasks :
               task[t].phase = "observing" =>
                 LET batch == task[t].batch
                 IN Upto(items[task[t].session], Kept, batch[Len(batch)].id, IdsOf(batch))

IInv ==
  /\ TypeOK /\ IdsOK /\ RunOK /\ TasksOK /\ NoLostUpdate
  /\ CursorsOK /\ SeenOK /\ BatchesOK

-------------------------------------------------------------------------------
(* Items.                                                                  *)

JobRows == [phase : Phases, session : Sessions \union {None}, name : Names \union {None},
            forced : BOOLEAN, seen : 1..MaxItems \union {None}, batch : Seq(ItemRows),
            read : SUBSET Texts, blind : BOOLEAN]

(* What is known of a row of a sequence of items. *)
LEMMA RowType ==
  ASSUME NEW s \in Seq(ItemRows), NEW i \in DOMAIN s
  PROVE  /\ s[i] \in ItemRows /\ i \in Nat /\ i > 0 /\ i <= Len(s)
         /\ s[i].id \in 1..MaxItems /\ s[i].id \in Nat /\ s[i].rev \in 0..MaxEdits
         /\ s[i].type \in {"user", "text", "call", "output"}
<1>1. s[i] \in ItemRows /\ i \in 1..Len(s)
  OBVIOUS
<1> QED
  BY <1>1 DEF ItemRows

(* The items behind a cursor are a tail; those before it have ids up to it. *)
LEMMA TailType ==
  ASSUME NEW s \in Seq(ItemRows), NEW c
  PROVE  /\ FirstBehind(s, c) \in 1..Len(s) + 1
         /\ Unobserved(s, c) \in Seq(ItemRows)
         /\ Len(Unobserved(s, c)) = Len(s) - FirstBehind(s, c) + 1
         /\ \A i \in DOMAIN Unobserved(s, c) : Unobserved(s, c)[i] = s[i + FirstBehind(s, c) - 1]
<1>1. FirstBehind(s, c) \in 1..Len(s) + 1
  BY DEF FirstBehind, IdsOf
<1> DEFINE f == FirstBehind(s, c)
<1>2. f \in 1..Len(s) + 1
  BY <1>1
<1> HIDE DEF f
<1>3. /\ SubSeq(s, f, Len(s)) \in Seq(ItemRows)
      /\ Len(SubSeq(s, f, Len(s))) = Len(s) - f + 1
      /\ \A i \in DOMAIN SubSeq(s, f, Len(s)) : SubSeq(s, f, Len(s))[i] = s[i + f - 1]
  BY <1>2
<1> QED
  BY <1>1, <1>3 DEF Unobserved, f

(* An item has an id up to the cursor, or is behind it. *)
LEMMA TailCovers ==
  ASSUME NEW s \in Seq(ItemRows), NEW c, Increasing(s), NEW i \in DOMAIN s
  PROVE  \/ c \in IdsOf(s) /\ s[i].id <= c
         \/ /\ Unobserved(s, c) # <<>>
            /\ s[i].id \in IdsOf(Unobserved(s, c))
<1> DEFINE f == FirstBehind(s, c)
<1>1. CASE i < f
  <2>1. c \in IdsOf(s)
    BY <1>1 DEF FirstBehind
  <2>2. PICK j \in DOMAIN s : s[j].id = c /\ f = j + 1
    BY <2>1 DEF FirstBehind, IdsOf
  <2>3. i = j \/ s[i].id < s[j].id
    BY <1>1, <2>2, RowType DEF Increasing
  <2> QED
    BY <2>1, <2>2, <2>3, RowType
<1>2. CASE i >= f
  <2>1. i - f + 1 \in DOMAIN Unobserved(s, c) /\ Unobserved(s, c)[i - f + 1] = s[i]
    BY <1>2, TailType
  <2> QED
    BY <2>1 DEF IdsOf
<1> QED
  BY <1>1, <1>2, TailType

(* What is covered stays so while the memory grows and rows get new ids.   *)
LEMMA UptoStays ==
  ASSUME NEW rows \in Seq(ItemRows), NEW rows2 \in Seq(ItemRows),
         NEW mem, NEW mem2, NEW id \in Nat, NEW soon,
         Upto(rows, mem, id, soon),
         \A n \in Names : mem[n] \subseteq mem2[n],
         \A i \in DOMAIN rows2 : rows2[i].id \in IdsOf(rows) \/ id < rows2[i].id
  PROVE  Upto(rows2, mem2, id, soon)
<1> SUFFICES ASSUME NEW i \in DOMAIN rows2, rows2[i].id <= id, rows2[i].id \notin soon
             PROVE  Remembered(mem2, rows2[i].id)
  BY DEF Upto
<1>1. rows2[i].id \in Nat
  BY RowType
<1>2. PICK j \in DOMAIN rows : rows[j].id = rows2[i].id
  BY <1>1 DEF IdsOf
<1>3. Remembered(mem, rows2[i].id)
  BY <1>2 DEF Upto
<1> QED
  BY <1>3 DEF Remembered

-------------------------------------------------------------------------------
(* Rows of a run.                                                          *)

(* An item with a new id can be added, an output behind its call. *)
LEMMA AddItem ==
  ASSUME NEW s \in Seq(ItemRows), Increasing(s), Paired(s), NEW x \in ItemRows,
         \A i \in DOMAIN s : s[i].id < x.id,
         x.type = "output" => \E i \in DOMAIN s : s[i].type = "call" /\ s[i].id = x.call
  PROVE  /\ Append(s, x) \in Seq(ItemRows) /\ Append(s, x) # <<>>
         /\ Increasing(Append(s, x)) /\ Paired(Append(s, x))
         /\ \A i \in DOMAIN Append(s, x) : (i \in DOMAIN s /\ Append(s, x)[i] = s[i]) \/ Append(s, x)[i] = x
<1> DEFINE a == Append(s, x)
<1>1. /\ a \in Seq(ItemRows) /\ Len(a) = Len(s) + 1 /\ DOMAIN a = 1..Len(s) + 1 /\ DOMAIN s = 1..Len(s)
      /\ \A i \in DOMAIN s : i \in DOMAIN a /\ a[i] = s[i]
      /\ a[Len(s) + 1] = x /\ Len(s) \in Nat
  OBVIOUS
<1> HIDE DEF a
<1>2. a # <<>>
  BY <1>1
<1>3. Increasing(a)
  BY <1>1, RowType DEF Increasing
<1>4. Paired(a)
  <2> SUFFICES ASSUME NEW i \in DOMAIN a, a[i].type = "output"
               PROVE  \E j \in 1..i - 1 : a[j].type = "call" /\ a[j].id = a[i].call
    BY DEF Paired
  <2>1. CASE i = Len(s) + 1
    BY <1>1, <2>1
  <2>2. CASE i \in DOMAIN s
    <3>1. PICK j \in 1..i - 1 : s[j].type = "call" /\ s[j].id = s[i].call
      BY <1>1, <2>2 DEF Paired
    <3>2. j \in DOMAIN s
      BY <1>1, <2>2, <3>1
    <3> QED
      BY <1>1, <2>2, <3>1, <3>2
  <2> QED
    BY <1>1, <2>1, <2>2
<1>5. \A i \in DOMAIN a : (i \in DOMAIN s /\ a[i] = s[i]) \/ a[i] = x
  BY <1>1
<1> QED
  BY <1>1, <1>2, <1>3, <1>4, <1>5 DEF a

(* An edit keeps the items up to a message, and gives that another text. *)
LEMMA CutRows ==
  ASSUME NEW s \in Seq(ItemRows), Increasing(s), Paired(s), NEW i \in DOMAIN s, s[i].rev < MaxEdits
  PROVE  LET cut == [SubSeq(s, 1, i) EXCEPT ![i].rev = @ + 1]
         IN /\ cut \in Seq(ItemRows) /\ cut # <<>> /\ Increasing(cut) /\ Paired(cut)
            /\ \A j \in DOMAIN cut : j \in DOMAIN s /\ cut[j].id = s[j].id
<1> DEFINE new == [s[i] EXCEPT !.rev = @ + 1]
           cut == [SubSeq(s, 1, i) EXCEPT ![i].rev = @ + 1]
<1>1. /\ SubSeq(s, 1, i) \in Seq(ItemRows) /\ Len(SubSeq(s, 1, i)) = i /\ i \in Nat
      /\ \A j \in 1..i : SubSeq(s, 1, i)[j] = s[j]
      /\ DOMAIN s = 1..Len(s) /\ Len(s) \in Nat /\ i \in 1..Len(s)
  OBVIOUS
<1>2. /\ new \in ItemRows /\ new.id = s[i].id
      /\ new.type = s[i].type /\ new.call = s[i].call
  <2>1. s[i] \in ItemRows /\ s[i].rev + 1 \in 0..MaxEdits
    BY RowType
  <2>2. \A row \in ItemRows : row.rev + 1 \in 0..MaxEdits =>
          LET row2 == [row EXCEPT !.rev = @ + 1]
          IN /\ row2 \in ItemRows /\ row2.id = row.id
             /\ row2.type = row.type /\ row2.call = row.call
    BY DEF ItemRows
  <2> QED
    BY <2>1, <2>2
<1>3. cut = [SubSeq(s, 1, i) EXCEPT ![i] = new]
  <2> DEFINE p == SubSeq(s, 1, i)
  <2>1. p[i] = s[i]
    BY <1>1
  <2> HIDE DEF p
  <2>2. [p EXCEPT ![i].rev = @ + 1] = [p EXCEPT ![i] = [s[i] EXCEPT !.rev = @ + 1]]
    BY <2>1
  <2> QED
    BY <2>2 DEF p
<1> HIDE DEF new, cut
<1>4. /\ cut \in Seq(ItemRows) /\ Len(cut) = i /\ DOMAIN cut = 1..i
      /\ \A j \in 1..i : cut[j] = IF j = i THEN new ELSE s[j]
  <2> DEFINE p == SubSeq(s, 1, i)
             q == [p EXCEPT ![i] = new]
  <2>1. p \in Seq(ItemRows) /\ Len(p) = i /\ i \in 1..Len(p) /\ (\A j \in 1..i : p[j] = s[j])
    BY <1>1
  <2>2. cut = q
    BY <1>3
  <2> HIDE DEF p
  <2>3. /\ q \in Seq(ItemRows) /\ Len(q) = Len(p)
        /\ \A j \in 1..Len(p) : q[j] = IF j = i THEN new ELSE p[j]
    BY <1>2, <2>1, ExceptSeq
  <2> HIDE DEF q
  <2> QED
    BY <1>1, <2>1, <2>2, <2>3
<1>5. \A j \in 1..i : /\ j \in DOMAIN s /\ cut[j].id = s[j].id
                      /\ cut[j].type = s[j].type /\ cut[j].call = s[j].call
  BY <1>1, <1>2, <1>4
<1>6. cut # <<>>
  BY <1>1, <1>4
<1>7. Increasing(cut)
  BY <1>4, <1>5 DEF Increasing
<1>8. Paired(cut)
  <2> SUFFICES ASSUME NEW k \in DOMAIN cut, cut[k].type = "output"
               PROVE  \E j \in 1..k - 1 : cut[j].type = "call" /\ cut[j].id = cut[k].call
    BY DEF Paired
  <2>1. PICK j \in 1..k - 1 : s[j].type = "call" /\ s[j].id = s[k].call
    BY <1>4, <1>5 DEF Paired
  <2>2. j \in 1..i
    BY <1>1, <1>4, <2>1
  <2> QED
    BY <1>4, <1>5, <2>1, <2>2
<1> QED
  BY <1>4, <1>5, <1>6, <1>7, <1>8 DEF cut

(* What a turn adds. *)
LEMMA AddTurn ==
  ASSUME NEW s \in Seq(ItemRows), Increasing(s), Paired(s),
         TypeOK, \A i \in DOMAIN s : s[i].id <= last,
         NEW new \in TurnItems, last + Len(new) <= MaxItems
  PROVE  /\ s \o new \in Seq(ItemRows) /\ s \o new # <<>>
         /\ Increasing(s \o new) /\ Paired(s \o new)
         /\ last + Len(new) \in Nat /\ Len(new) > 0
         /\ \A i \in DOMAIN (s \o new) :
              \/ i \in DOMAIN s /\ (s \o new)[i].id = s[i].id
              \/ last < (s \o new)[i].id /\ (s \o new)[i].id <= last + Len(new)
<1> DEFINE text   == Item(last + 1, "text", 0)
           call   == Item(last + 1, "call", 0)
           output == Item(last + 2, "output", last + 1)
<1>1. last \in Nat
  BY DEF TypeOK
<1>2. /\ text.id = last + 1 /\ text.type = "text" /\ call.id = last + 1 /\ call.type = "call"
      /\ output.id = last + 2 /\ output.type = "output" /\ output.call = last + 1
  BY DEF Item
<1>3. /\ last + 1 <= MaxItems => text \in ItemRows /\ call \in ItemRows
      /\ last + 2 <= MaxItems => output \in ItemRows
  BY <1>1 DEF Item, ItemRows
<1>4. new = <<text>> \/ new = <<call>> \/ new = <<call, output>>
  BY DEF TurnItems
<1> HIDE DEF text, call, output
<1>5. \A i \in DOMAIN s : s[i].id < last + 1
  BY <1>1, RowType
<1>6. ASSUME NEW x \in {text, call}, new = <<x>>
      PROVE  /\ s \o new = Append(s, x) /\ Len(new) = 1 /\ x \in ItemRows
             /\ x.id = last + 1 /\ x.type # "output"
  BY <1>1, <1>2, <1>3, <1>6
<1>7. ASSUME NEW x \in {text, call}, new = <<x>>
      PROVE  /\ s \o new \in Seq(ItemRows) /\ s \o new # <<>>
             /\ Increasing(s \o new) /\ Paired(s \o new)
             /\ \A i \in DOMAIN (s \o new) :
                  (i \in DOMAIN s /\ (s \o new)[i] = s[i]) \/ (s \o new)[i] = x
  <2>1. /\ s \o new = Append(s, x) /\ x \in ItemRows
        /\ x.id = last + 1 /\ x.type # "output"
    BY <1>6, <1>7
  <2>2. \A i \in DOMAIN s : s[i].id < x.id
    BY <1>5, <2>1
  <2> HIDE DEF text, call
  <2> QED
    BY <2>1, <2>2, AddItem
<1>8. CASE new = <<text>> \/ new = <<call>>
  BY <1>1, <1>6, <1>7, <1>8
<1>9. CASE new = <<call, output>>
  <2> DEFINE a == Append(s, call)
             b == Append(a, output)
  <2>1. Len(new) = 2 /\ call \in ItemRows /\ output \in ItemRows
    BY <1>1, <1>3, <1>9
  <2>2. /\ a \in Seq(ItemRows) /\ Increasing(a) /\ Paired(a)
        /\ \A i \in DOMAIN a : (i \in DOMAIN s /\ a[i] = s[i]) \/ a[i] = call
    BY <1>2, <1>5, <2>1, AddItem
  <2>3. a[Len(s) + 1] = call /\ Len(s) + 1 \in DOMAIN a
    BY <2>1
  <2>4. s \o new = b
    BY <1>9, <2>1
  <2> HIDE DEF a, b
  <2>5. \A i \in DOMAIN a : a[i].id < output.id
    BY <1>1, <1>2, <1>5, <2>2, RowType
  <2>6. /\ b \in Seq(ItemRows) /\ b # <<>> /\ Increasing(b) /\ Paired(b)
        /\ \A i \in DOMAIN b : (i \in DOMAIN a /\ b[i] = a[i]) \/ b[i] = output
    <3>1. \E i \in DOMAIN a : a[i].type = "call" /\ a[i].id = output.call
      BY <1>2, <2>3
    <3> QED
      BY <2>1, <2>2, <2>5, <3>1, AddItem DEF b
  <2>7. \A i \in DOMAIN b :
          \/ i \in DOMAIN s /\ b[i].id = s[i].id
          \/ last < b[i].id /\ b[i].id <= last + Len(new)
    <3> SUFFICES ASSUME NEW i \in DOMAIN b
                 PROVE  \/ i \in DOMAIN s /\ b[i].id = s[i].id
                        \/ last < b[i].id /\ b[i].id <= last + Len(new)
      OBVIOUS
    <3>1. (i \in DOMAIN s /\ b[i] = s[i]) \/ b[i] = call \/ b[i] = output
      BY <2>2, <2>6
    <3> QED
      BY <1>1, <1>2, <2>1, <3>1
  <2> QED
    BY <1>1, <2>1, <2>4, <2>6, <2>7
<1> QED
  BY <1>4, <1>8, <1>9

-------------------------------------------------------------------------------
(* What a task does.                                                       *)

(* A task is a record of a job. *)
LEMMA JobType == TypeOK => task \in [Tasks -> JobRows] /\ Idle \in JobRows
BY DEF TypeOK, JobRows, Idle, Phases

(* The task does not get a lock: it is over, waits, or was scheduled. *)
Settles(t, to) ==
  /\ UNCHANGED <<cursor, memory, lost, lock>>
  /\ to.phase \notin {"observing", "reflecting"} /\ TaskOK(to)
  /\ to.batch = <<>>
  /\ to.seen = None \/ (to.session \in Sessions /\ to.seen = cursor[to.session])

(* It gets the lock, and reads the memory and the items behind a cursor. *)
Locks(t, to) ==
  /\ UNCHANGED <<cursor, memory, lost>>
  /\ to.phase \in {"observing", "reflecting"} /\ TaskOK(to)
  /\ lock[to.name] = None /\ lock' = [lock EXCEPT ![to.name] = t]
  /\ to.read = memory[to.name] \/ to.blind
  /\ to.seen = None \/ to.seen = task[t].seen
  /\ to.phase = "reflecting" => to.batch = task[t].batch
  /\ to.phase = "observing" =>
       \E seen : /\ to.batch = Unobserved(items[to.session], seen)
                 /\ \/ seen = cursor[to.session]
                    \/ task[t].phase = "waiting" /\ task[t].session = to.session /\ task[t].seen = seen

(* It releases the lock; it may have written, or cut a memory, and an      *)
(* observation may have moved the cursor.                                  *)
Returns(t, to) ==
  /\ task[t].phase \in {"observing", "reflecting"} /\ Release(task[t].name)
  /\ to.phase \in {"idle", "toReflect"} /\ TaskOK(to)
  /\ to.batch = <<>> /\ to.seen = None
  /\ \/ UNCHANGED <<memory, lost, cursor>>
     \/ UNCHANGED cursor /\ \E part \in SUBSET Texts : Lose(task[t].name, part)
     \/ /\ \/ task[t].blind /\ Lose(task[t].name, Written(task[t]))
           \/ ~task[t].blind /\ Put(task[t].name, Written(task[t]))
        /\ \/ UNCHANGED cursor
           \/ /\ task[t].phase = "observing"
              /\ cursor' = [cursor EXCEPT ![task[t].session] = task[t].batch[Len(task[t].batch)].id]

(* What a task writes is texts, and so is a front part of it. *)
LEMMA WrittenType ==
  ASSUME TypeOK, NEW t \in Tasks
  PROVE  /\ Written(task[t]) \in SUBSET Texts /\ \A part \in Fronts(task[t]) : part \in SUBSET Texts
         /\ task[t].phase = "reflecting" /\ task[t].batch = <<>> => Written(task[t]) = task[t].read
<1>1. task[t].batch \in Seq(ItemRows) /\ task[t].read \in SUBSET Texts
  BY JobType DEF JobRows
<1>2. TextsOf(task[t].batch) \in SUBSET Texts
  BY <1>1, RowType DEF TextsOf, Text, Texts
<1>3. task[t].batch = <<>> => TextsOf(task[t].batch) = {}
  BY DEF TextsOf
<1> QED
  BY <1>1, <1>2, <1>3 DEF Written, Fronts

NothingVanishes == \A n \in Names : memory[n] \union lost[n] \subseteq memory'[n] \union lost'[n]
OthersStay(n)   == \A m \in Names \ {n} : memory'[m] = memory[m]

(* A memory that loses something, or gets more: what it stood for is kept  *)
(* or lost, and the others stay as they are.                               *)
LEMMA FilesStep ==
  ASSUME TypeOK, NEW n \in Names, NEW content \in SUBSET Texts,
         Lose(n, content) \/ (Put(n, content) /\ memory[n] \subseteq content)
  PROVE  /\ memory' \in [Names -> SUBSET Texts] /\ lost' \in [Names -> SUBSET Texts]
         /\ NothingVanishes /\ OthersStay(n)
<1>1. memory \in [Names -> SUBSET Texts] /\ lost \in [Names -> SUBSET Texts]
  BY DEF TypeOK
<1>2. CASE Lose(n, content)
  <2>1. /\ memory' = [memory EXCEPT ![n] = content]
        /\ lost' = [lost EXCEPT ![n] = (lost[n] \union memory[n]) \ content]
    BY <1>2 DEF Lose
  <2>2. (lost[n] \union memory[n]) \ content \in SUBSET Texts
    BY <1>1
  <2> QED
    BY <1>1, <2>1, <2>2 DEF NothingVanishes, OthersStay
<1>3. CASE Put(n, content) /\ memory[n] \subseteq content
  <2>1. /\ memory' = [memory EXCEPT ![n] = content]
        /\ lost' = [lost EXCEPT ![n] = lost[n] \ content]
    BY <1>3 DEF Put
  <2>2. lost[n] \ content \in SUBSET Texts
    BY <1>1
  <2> QED
    BY <1>1, <1>3, <2>1, <2>2 DEF NothingVanishes, OthersStay
<1> QED
  BY <1>2, <1>3

TaskSteps(t) == \E to \in JobRows : SetTask(t, to) /\ (Settles(t, to) \/ Locks(t, to) \/ Returns(t, to))

(* A task that is given up settles. *)
LEMMA IdleSettles ==
  ASSUME TypeOK, NEW t \in Tasks, SetTask(t, Idle), UNCHANGED <<cursor, memory, lost, lock>>
  PROVE  TaskSteps(t)
<1>1. Settles(t, Idle)
  BY DEF Settles, Idle, TaskOK
<1> QED
  BY <1>1, JobType DEF TaskSteps

(* A task that has read its rows, and finds the lock free. *)
LEMMA WithLockSteps ==
  ASSUME TypeOK, NEW t \in Tasks, NEW job \in JobRows,
         job.session \in Sessions, job.name \in Names, lock[job.name] = None,
         \/ job.seen = cursor[job.session]
         \/ task[t].phase = "waiting" /\ task[t].session = job.session /\ task[t].seen = job.seen,
         WithLock(t, job), UNCHANGED <<cursor, memory, lost>>
  PROVE  TaskSteps(t)
<1> DEFINE batch == Unobserved(items[job.session], job.seen)
           to(blind) == [Idle EXCEPT !.phase = "observing", !.session = job.session,
                                     !.name = job.name, !.batch = batch, !.blind = blind,
                                     !.read = IF blind THEN {} ELSE memory[job.name]]
<1>1. CASE UNCHANGED lock /\ SetTask(t, Idle)
  BY <1>1, IdleSettles
<1>2. ASSUME NEW blind \in BOOLEAN,
             batch # <<>> /\ SetTask(t, to(blind)) /\ lock' = [lock EXCEPT ![job.name] = t]
      PROVE  TaskSteps(t)
  <2>1. items[job.session] \in Seq(ItemRows) /\ memory[job.name] \in SUBSET Texts
    BY DEF TypeOK
  <2>2. batch \in Seq(ItemRows)
    BY <2>1, TailType
  <2> HIDE DEF batch
  <2> DEFINE next == to(blind)
  <2>3. next \in JobRows
    BY <2>1, <2>2 DEF JobRows, Idle, Phases
  <2>4. /\ next.phase = "observing" /\ next.session = job.session /\ next.name = job.name
        /\ next.read = memory[job.name] \/ next.blind
        /\ next.seen = None /\ next.batch = batch
    BY DEF Idle
  <2>e. SetTask(t, next)
    BY <1>2
  <2> HIDE DEF to, next
  <2>5. \E seen : /\ next.batch = Unobserved(items[next.session], seen)
                  /\ \/ seen = cursor[next.session]
                     \/ task[t].phase = "waiting" /\ task[t].session = next.session /\ task[t].seen = seen
    BY <2>4 DEF batch
  <2>6. Locks(t, next)
    BY <1>2, <2>4, <2>5 DEF Locks, TaskOK
  <2> QED
    BY <2>3, <2>6, <2>e DEF TaskSteps
<1> QED
  BY <1>1, <1>2 DEF WithLock

(* An observation that begins is over, waits, or gets the lock. *)
LEMMA BeginSteps ==
  ASSUME TypeOK, NEW t \in Tasks, NEW s \in Sessions, NEW forced \in BOOLEAN,
         Begin(t, s, forced), UNCHANGED <<cursor, memory, lost>>
  PROVE  TaskSteps(t)
<1> DEFINE job == [Idle EXCEPT !.session = s, !.name = name[s], !.forced = forced, !.seen = cursor[s]]
           to  == [job EXCEPT !.phase = "waiting"]
<1> SUFFICES ASSUME name[s] # None PROVE TaskSteps(t)
  BY IdleSettles DEF Begin
<1>1. name[s] \in Names /\ cursor[s] \in 1..MaxItems \union {None}
  BY DEF TypeOK
<1>2. /\ job \in JobRows /\ job.session = s /\ job.name = name[s] /\ job.seen = cursor[s]
      /\ job.batch = <<>> /\ ~job.blind
  <2>1. Idle \in JobRows /\ Idle.batch = <<>> /\ ~Idle.blind
    BY JobType DEF Idle
  <2> QED
    BY <1>1, <2>1 DEF JobRows
<1>3. /\ to \in JobRows /\ to.phase = "waiting" /\ to.session = s /\ to.name = name[s]
      /\ to.seen = cursor[s] /\ to.batch = <<>> /\ ~to.blind
  <2> HIDE DEF job
  <2> QED
    BY <1>2 DEF JobRows, Phases
<1>4. \/ UNCHANGED lock /\ SetTask(t, Idle)
      \/ UNCHANGED lock /\ SetTask(t, to)
      \/ lock[job.name] = None /\ WithLock(t, job)
  BY DEF Begin
<1> HIDE DEF job, to
<1>5. CASE UNCHANGED lock /\ SetTask(t, to)
  <2>1. Settles(t, to)
    BY <1>1, <1>3, <1>5 DEF Settles, TaskOK
  <2> QED
    BY <1>3, <1>5, <2>1 DEF TaskSteps
<1>6. CASE lock[job.name] = None /\ WithLock(t, job)
  BY <1>1, <1>2, <1>6, WithLockSteps
<1> QED
  BY <1>4, <1>5, <1>6, IdleSettles

(* Whatever a task does next is one of these. *)
LEMMA TaskCases ==
  ASSUME TypeOK, TasksOK, NEW t \in Tasks, Proceed(t) \/ \E s \in Sessions : Summarize(t, s)
  PROVE  TaskSteps(t) /\ UNCHANGED <<name, items, deleting, run, last>>
<1> SUFFICES TaskSteps(t)
  BY DEF Proceed, Summarize, Observe, Acquire, ObservationFails, ObservationReturns, Reflect,
     ReflectionReturns, files
<1>t. task[t] \in JobRows /\ TaskOK(task[t]) /\ Idle \in JobRows
  BY JobType DEF TasksOK
<1>1. ASSUME NEW s \in Sessions, Summarize(t, s) PROVE TaskSteps(t)
  BY <1>1, BeginSteps DEF Summarize, files
<1>2. CASE Observe(t)
  BY <1>2, <1>t, BeginSteps DEF Observe, TaskOK, files
<1>3. CASE Acquire(t)
  BY <1>3, <1>t, WithLockSteps DEF Acquire, TaskOK, files
<1>4. CASE ObservationFails(t)
  <2>1. Returns(t, Idle)
    <3>1. UNCHANGED <<memory, lost>> \/ \E part \in SUBSET Texts : Lose(task[t].name, part)
      BY <1>4, WrittenType DEF ObservationFails, CutWrite
    <3> QED
      BY <1>4, <3>1 DEF ObservationFails, Returns, Idle, TaskOK
  <2> QED
    BY <1>4, <1>t, <2>1 DEF ObservationFails, TaskSteps
<1>5. CASE ObservationReturns(t)
  <2> DEFINE to == [Idle EXCEPT !.phase = "toReflect", !.name = task[t].name]
  <2>1. /\ task[t].phase = "observing" /\ Release(task[t].name) /\ task[t].name \in Names
        /\ \/ task[t].blind /\ Lose(task[t].name, Written(task[t]))
           \/ ~task[t].blind /\ Put(task[t].name, Written(task[t]))
    BY <1>5, <1>t DEF ObservationReturns, TaskOK
  <2>2. \/ /\ run = NoRun /\ SetTask(t, to)
           /\ cursor' = [cursor EXCEPT ![task[t].session] = task[t].batch[Len(task[t].batch)].id]
        \/ SetTask(t, Idle) /\ UNCHANGED cursor
    BY <1>5 DEF ObservationReturns
  <2>3. /\ to \in JobRows /\ to.phase = "toReflect" /\ to.batch = <<>> /\ to.seen = None
        /\ to.name \in Names /\ ~to.blind
    <3>1. Idle \in JobRows /\ Idle.batch = <<>> /\ Idle.seen = None /\ ~Idle.blind
      BY JobType DEF Idle
    <3> QED
      BY <2>1, <3>1 DEF JobRows, Phases
  <2>4. Idle.phase = "idle" /\ Idle.batch = <<>> /\ Idle.seen = None /\ ~Idle.blind
    BY DEF Idle
  <2> HIDE DEF to
  <2>5. CASE SetTask(t, Idle) /\ UNCHANGED cursor
    <3>1. Returns(t, Idle)
      BY <2>1, <2>4, <2>5 DEF Returns, TaskOK
    <3> QED
      BY <1>t, <2>5, <3>1 DEF TaskSteps
  <2>6. CASE /\ run = NoRun /\ SetTask(t, to)
             /\ cursor' = [cursor EXCEPT ![task[t].session] = task[t].batch[Len(task[t].batch)].id]
    <3>1. Returns(t, to)
      BY <2>1, <2>3, <2>6 DEF Returns, TaskOK
    <3> QED
      BY <2>3, <2>6, <3>1 DEF TaskSteps
  <2> QED
    BY <2>2, <2>5, <2>6
<1>6. CASE Reflect(t)
  <2> DEFINE to == [task[t] EXCEPT !.phase = "reflecting", !.read = memory[task[t].name]]
  <2>1. task[t].name \in Names /\ memory[task[t].name] \in SUBSET Texts
    BY <1>6, <1>t DEF Reflect, TaskOK, TypeOK
  <2>2. /\ to \in JobRows /\ to.phase = "reflecting" /\ to.name = task[t].name
        /\ to.read = memory[task[t].name] /\ to.seen = task[t].seen /\ to.batch = task[t].batch
        /\ ~to.blind
    <3>1. ~task[t].blind
      BY <1>6, <1>t DEF Reflect, TaskOK
    <3> QED
      BY <1>t, <2>1, <3>1 DEF JobRows, Phases
  <2>3. /\ UNCHANGED <<cursor, memory, lost>> /\ lock[task[t].name] = None
        /\ \/ SetTask(t, to) /\ lock' = [lock EXCEPT ![task[t].name] = t]
           \/ SetTask(t, Idle) /\ UNCHANGED lock
    BY <1>6 DEF Reflect, files
  <2> HIDE DEF to
  <2>4. CASE SetTask(t, to) /\ lock' = [lock EXCEPT ![task[t].name] = t]
    <3>1. Locks(t, to)
      BY <2>1, <2>2, <2>3, <2>4 DEF Locks, TaskOK
    <3> QED
      BY <2>2, <2>4, <3>1 DEF TaskSteps
  <2> QED
    BY <2>3, <2>4, IdleSettles
<1>7. CASE ReflectionReturns(t)
  <2>1. Returns(t, Idle)
    <3>1. \/ UNCHANGED <<memory, lost>>
          \/ \E part \in SUBSET Texts : Lose(task[t].name, part)
          \/ Put(task[t].name, Written(task[t]))
      BY <1>7, WrittenType DEF ReflectionReturns, CutWrite
    <3>2. UNCHANGED cursor /\ task[t].phase = "reflecting" /\ Release(task[t].name)
      BY <1>7 DEF ReflectionReturns
    <3>3. ~task[t].blind
      BY <1>t, <3>2 DEF TaskOK, JobRows
    <3>4. Idle.phase = "idle" /\ Idle.batch = <<>> /\ Idle.seen = None /\ TaskOK(Idle)
      BY DEF Idle, TaskOK
    <3> QED
      BY <3>1, <3>2, <3>3, <3>4 DEF Returns
  <2> QED
    BY <1>7, <1>t, <2>1 DEF ReflectionReturns, TaskSteps
<1> QED
  BY <1>1, <1>2, <1>3, <1>4, <1>5, <1>6, <1>7 DEF Proceed

-------------------------------------------------------------------------------
(* What a run does.                                                        *)

RunRows == [session : Sessions \union {None}, name : Names \union {None}, items : Seq(ItemRows)]

(* The rows of a run are in order, and new to what is committed or kept from it. *)
RunRowsOK(row, upto) ==
  /\ row \in RunRows /\ row.session \in Sessions /\ row.name \in Names
  /\ row.items # <<>> /\ Increasing(row.items) /\ Paired(row.items)
  /\ \A i \in DOMAIN row.items :
       /\ row.items[i].id <= upto
       /\ row.items[i].id \in IdsOf(items[row.session]) \/ NewTo(row.items[i].id)

(* A run starts or goes on. *)
GoesOn ==
  /\ UNCHANGED <<name, items, cursor, memory, lost, deleting, lock>>
  /\ last' \in 0..MaxItems /\ last <= last'
  /\ RunRowsOK(run', last')
  /\ UNCHANGED task \/ \E t \in Tasks, to \in JobRows : SetTask(t, to) /\ Settles(t, to)

(* The rows of a run that is going are in order. *)
LEMMA RunRowType ==
  ASSUME TypeOK, RunOK, run # NoRun
  PROVE  RunRowsOK(run, last)
BY DEF TypeOK, RunOK, RunRowsOK, RunRows

(* What is above a new id is new. *)
LEMMA NewLater ==
  ASSUME TypeOK, NEW a \in Nat, NEW b \in Nat, NewTo(a), a <= b
  PROVE  NewTo(b)
<1>1. ASSUME NEW s \in Sessions
      PROVE  /\ \A i \in DOMAIN items[s] : items[s][i].id < b
             /\ cursor[s] # None => cursor[s] < b
  <2>1. items[s] \in Seq(ItemRows) /\ cursor[s] \in 1..MaxItems \union {None}
    BY DEF TypeOK
  <2>2. /\ \A i \in DOMAIN items[s] : items[s][i].id \in Nat /\ items[s][i].id < a
        /\ cursor[s] # None => cursor[s] < a
    BY <2>1, RowType DEF NewTo
  <2> QED
    BY <2>1, <2>2
<1>2. ASSUME NEW t \in Tasks
      PROVE  /\ task[t].seen # None => task[t].seen < b
             /\ \A i \in DOMAIN task[t].batch : task[t].batch[i].id < b
  <2>1. task[t].batch \in Seq(ItemRows) /\ task[t].seen \in 1..MaxItems \union {None}
    BY DEF TypeOK
  <2>2. /\ \A i \in DOMAIN task[t].batch : task[t].batch[i].id \in Nat /\ task[t].batch[i].id < a
        /\ task[t].seen # None => task[t].seen < a
    BY <2>1, RowType DEF NewTo
  <2> QED
    BY <2>1, <2>2
<1> QED
  BY <1>1, <1>2 DEF NewTo
(* A run that starts with the committed items and one that is new. *)
LEMMA StartGoes ==
  ASSUME IInv, NEW s \in Sessions, NEW n \in Names, NEW x \in ItemRows, x.id = last + 1,
         x.type = "output" => \E i \in DOMAIN items[s] : items[s][i].type = "call" /\ items[s][i].id = x.call,
         last < MaxItems, last' = last + 1,
         run' = [session |-> s, name |-> n, items |-> Append(items[s], x)],
         UNCHANGED <<name, items, cursor, files, task, lock>>
  PROVE  GoesOn
<1>1. /\ items[s] \in Seq(ItemRows) /\ last \in 0..MaxItems /\ last + 1 \in Nat
      /\ Increasing(items[s]) /\ Paired(items[s]) /\ NewTo(last + 1)
  BY DEF IInv, TypeOK, IdsOK
<1>2. \A i \in DOMAIN items[s] : items[s][i].id < last + 1
  BY <1>1 DEF NewTo
<1> DEFINE rows == Append(items[s], x)
<1>3. /\ rows \in Seq(ItemRows) /\ rows # <<>> /\ Increasing(rows) /\ Paired(rows)
      /\ \A i \in DOMAIN rows : (i \in DOMAIN items[s] /\ rows[i] = items[s][i]) \/ rows[i] = x
  BY <1>1, <1>2, AddItem
<1> HIDE DEF rows
<1>4. \A i \in DOMAIN rows : rows[i].id <= last + 1 /\ (rows[i].id \in IdsOf(items[s]) \/ NewTo(rows[i].id))
  BY <1>1, <1>2, <1>3, RowType DEF IdsOf
<1> DEFINE row == [session |-> s, name |-> n, items |-> rows]
<1>5. run' = row /\ last' = last + 1
  BY DEF rows
<1>6. RunRowsOK(row, last + 1)
  BY <1>3, <1>4 DEF RunRowsOK, RunRows
<1> HIDE DEF row
<1>7. RunRowsOK(run', last')
  BY <1>5, <1>6
<1>8. last' \in 0..MaxItems /\ last <= last'
  BY <1>1
<1> QED
  BY <1>7, <1>8 DEF GoesOn, files

(* A user message starts a run. *)
LEMMA ChatGoes == ASSUME IInv, NEW s \in Sessions, NEW n \in Names, StartChat(s, n) PROVE GoesOn
<1> DEFINE x == Item(last + 1, "user", 0)
<1>1. x \in ItemRows /\ x.id = last + 1 /\ x.type # "output"
  BY DEF StartChat, IInv, TypeOK, Item, ItemRows
<1>2. /\ last < MaxItems /\ last' = last + 1
      /\ run' = [session |-> s, name |-> n, items |-> Append(items[s], x)]
      /\ UNCHANGED <<name, items, cursor, files, task, lock>>
  BY DEF StartChat
<1> HIDE DEF x
<1> QED
  BY <1>1, <1>2, StartGoes

(* So does an answer to the call that was left open. *)
LEMMA DeliveryGoes == ASSUME IInv, NEW s \in Sessions, StartDelivery(s) PROVE GoesOn
<1> DEFINE x == Item(last + 1, "output", items[s][Len(items[s])].id)
<1>1. items[s] \in Seq(ItemRows) /\ name[s] \in Names /\ last \in 0..MaxItems
  BY DEF IInv, TypeOK, StartDelivery
<1>2. /\ last < MaxItems /\ last' = last + 1 /\ OpenCall(items[s])
      /\ run' = [session |-> s, name |-> name[s], items |-> Append(items[s], x)]
      /\ UNCHANGED <<name, items, cursor, files, task, lock>>
  BY DEF StartDelivery
<1>3. Len(items[s]) \in DOMAIN items[s] /\ items[s][Len(items[s])].type = "call"
  BY <1>1, <1>2 DEF OpenCall
<1>4. x \in ItemRows /\ x.id = last + 1 /\ x.call = items[s][Len(items[s])].id
  <2>1. items[s][Len(items[s])].id \in 1..MaxItems
    BY <1>1, <1>3, RowType
  <2> QED
    BY <1>1, <1>2, <2>1 DEF Item, ItemRows
<1> HIDE DEF x
<1> QED
  BY <1>1, <1>2, <1>3, <1>4, StartGoes

(* So does an edit. *)
LEMMA EditGoes ==
  ASSUME IInv, NEW s \in Sessions, NEW i \in DOMAIN items[s], StartEdit(s, i)
  PROVE  GoesOn
<1>1. /\ items[s] \in Seq(ItemRows) /\ name[s] \in Names /\ last \in 0..MaxItems
      /\ Increasing(items[s]) /\ Paired(items[s]) /\ NewTo(last + 1)
  BY DEF IInv, TypeOK, IdsOK, StartEdit
<1> DEFINE rows == [SubSeq(items[s], 1, i) EXCEPT ![i].rev = @ + 1]
<1>2. items[s][i].rev < MaxEdits
  BY DEF StartEdit
<1>3. /\ rows \in Seq(ItemRows) /\ rows # <<>> /\ Increasing(rows) /\ Paired(rows)
      /\ \A j \in DOMAIN rows : j \in DOMAIN items[s] /\ rows[j].id = items[s][j].id
  BY <1>1, <1>2, CutRows
<1>4. /\ run' = [session |-> s, name |-> name[s], items |-> rows]
      /\ UNCHANGED <<name, items, cursor, files, task, lock, last>>
  BY DEF StartEdit
<1> HIDE DEF rows
<1>5. \A j \in DOMAIN rows : rows[j].id <= last /\ rows[j].id \in IdsOf(items[s])
  <2>1. \A j \in DOMAIN items[s] :
          items[s][j].id \in Nat /\ items[s][j].id < last + 1 /\ items[s][j].id \in IdsOf(items[s])
    BY <1>1, RowType DEF NewTo, IdsOf
  <2> QED
    BY <1>1, <1>3, <2>1
<1>6. RunRowsOK(run', last')
  BY <1>1, <1>3, <1>4, <1>5 DEF RunRowsOK, RunRows
<1> QED
  BY <1>1, <1>4, <1>6 DEF GoesOn, files

(* A turn that completes keeps the run's rows in order. *)
LEMMA TurnGoes == ASSUME IInv, CompleteTurn PROVE GoesOn
<1>1. PICK new \in TurnItems :
        /\ last + Len(new) <= MaxItems /\ last' = last + Len(new)
        /\ run' = [run EXCEPT !.items = @ \o new]
  BY DEF CompleteTurn
<1>2. RunRowsOK(run, last) /\ last \in 0..MaxItems /\ NewTo(last + 1) /\ TypeOK
  BY RunRowType DEF CompleteTurn, IInv, TypeOK, IdsOK
<1> DEFINE old == run.items
           rows == old \o new
<1>3. /\ old \in Seq(ItemRows) /\ Increasing(old) /\ Paired(old)
      /\ \A i \in DOMAIN old : old[i].id <= last /\ (old[i].id \in IdsOf(items[run.session]) \/ NewTo(old[i].id))
  BY <1>2 DEF RunRowsOK, RunRows
<1> HIDE DEF old
<1>4. /\ rows \in Seq(ItemRows) /\ rows # <<>> /\ Increasing(rows) /\ Paired(rows)
      /\ last + Len(new) \in Nat /\ Len(new) > 0
      /\ \A i \in DOMAIN rows :
           \/ i \in DOMAIN old /\ rows[i].id = old[i].id
           \/ last < rows[i].id /\ rows[i].id <= last + Len(new)
  BY <1>1, <1>2, <1>3, AddTurn
<1> HIDE DEF rows
<1>5. \A i \in DOMAIN rows :
        /\ rows[i].id <= last + Len(new)
        /\ rows[i].id \in IdsOf(items[run.session]) \/ NewTo(rows[i].id)
  <2> SUFFICES ASSUME NEW i \in DOMAIN rows
               PROVE  /\ rows[i].id <= last + Len(new)
                      /\ rows[i].id \in IdsOf(items[run.session]) \/ NewTo(rows[i].id)
    OBVIOUS
  <2>1. rows[i].id \in Nat
    BY <1>4, RowType
  <2>2. CASE i \in DOMAIN old /\ rows[i].id = old[i].id
    BY <1>2, <1>3, <1>4, <2>1, <2>2
  <2>3. CASE last < rows[i].id /\ rows[i].id <= last + Len(new)
    <3>1. last + 1 \in Nat /\ last + 1 <= rows[i].id
      BY <1>2, <2>1, <2>3
    <3> QED
      BY <1>2, <2>1, <2>3, <3>1, NewLater
  <2> QED
    BY <1>4, <2>2, <2>3
<1>6. /\ run'.items = rows /\ run'.session = run.session /\ run'.name = run.name /\ run' \in RunRows
  BY <1>1, <1>2, <1>4 DEF RunRowsOK, RunRows, rows, old
<1>7. RunRowsOK(run', last') /\ last' \in 0..MaxItems /\ last <= last'
  <2>1. last' = last + Len(new) /\ last' \in 0..MaxItems /\ last <= last'
    BY <1>1, <1>2, <1>4
  <2>2. run.session \in Sessions /\ run.name \in Names
    BY <1>2 DEF RunRowsOK
  <2> QED
    BY <1>4, <1>5, <1>6, <2>1, <2>2 DEF RunRowsOK
<1>8. UNCHANGED task \/ \E t \in Tasks, to \in JobRows : SetTask(t, to) /\ Settles(t, to)
  <2>1. run.session \in Sessions
    BY <1>2 DEF RunRowsOK
  <2> DEFINE to == [Idle EXCEPT !.phase = "scheduled", !.session = run.session]
  <2>2. /\ to \in JobRows /\ to.phase = "scheduled" /\ to.session = run.session
        /\ to.batch = <<>> /\ to.seen = None /\ ~to.blind
    <3>1. Idle \in JobRows /\ Idle.batch = <<>> /\ Idle.seen = None /\ ~Idle.blind
      BY <1>2, JobType DEF Idle
    <3> QED
      BY <2>1, <3>1 DEF JobRows, Phases
  <2>3. UNCHANGED <<cursor, memory, lost, lock>> /\ (UNCHANGED task \/ \E t \in Tasks : SetTask(t, to))
    BY DEF CompleteTurn, SetTask, files
  <2> HIDE DEF to
  <2>4. \A t \in Tasks : Settles(t, to)
    BY <2>1, <2>2, <2>3 DEF Settles, TaskOK
  <2> QED
    BY <2>2, <2>3, <2>4
<1> QED
  BY <1>7, <1>8 DEF GoesOn, CompleteTurn, files

-------------------------------------------------------------------------------
(* Every step preserves the invariant.                                     *)

TaskGoesOn == \E t \in Tasks : TaskSteps(t) /\ UNCHANGED <<name, items, deleting, run, last>>

Deletes == \E n \in Names : DeleteRows(n) \/ DeleteFolder(n)

(* Every step is one of these. *)
LEMMA StepCases ==
  IInv /\ [Next]_vars =>
    TaskGoesOn \/ GoesOn \/ CommitRun \/ RollbackRun \/ Deletes \/ Restart \/ UNCHANGED vars
<1> SUFFICES ASSUME IInv, Next
             PROVE  TaskGoesOn \/ GoesOn \/ CommitRun \/ RollbackRun \/ Deletes \/ Restart
  OBVIOUS
<1>1. ASSUME NEW t \in Tasks, Proceed(t) \/ \E s \in Sessions : Summarize(t, s) PROVE TaskGoesOn
  BY <1>1, TaskCases DEF TaskGoesOn, IInv
<1> QED
  BY <1>1, ChatGoes, DeliveryGoes, EditGoes, TurnGoes DEF Next, Deletes

(* What a task returns with does not take away what it has not read; its   *)
(* lock makes reading, asking the model and writing one step.              *)
LEMMA ReturnsKeep ==
  ASSUME IInv, NEW t \in Tasks, NEW to, Returns(t, to)
  PROVE  \/ UNCHANGED <<memory, lost>>
         \/ \E content \in SUBSET Texts :
              \/ Lose(task[t].name, content)
              \/ Put(task[t].name, content) /\ memory[task[t].name] \subseteq content
<1>1. Written(task[t]) \in SUBSET Texts /\ task[t].read \subseteq Written(task[t])
  BY WrittenType DEF IInv, Written
<1>2. ~task[t].blind => memory[task[t].name] \subseteq Written(task[t])
  BY <1>1 DEF Returns, IInv, NoLostUpdate
<1> QED
  BY <1>1, <1>2 DEF Returns

(* When the server is killed at a write, the memory loses something. *)
LEMMA RestartFiles ==
  ASSUME IInv, Restart
  PROVE  /\ memory' \in [Names -> SUBSET Texts] /\ lost' \in [Names -> SUBSET Texts]
         /\ NothingVanishes
<1>1. CASE UNCHANGED <<memory, lost>>
  BY <1>1 DEF IInv, TypeOK, NothingVanishes
<1>2. ASSUME NEW t \in Tasks, task[t].phase \in {"observing", "reflecting"}, CutWrite(t)
      PROVE  /\ memory' \in [Names -> SUBSET Texts] /\ lost' \in [Names -> SUBSET Texts]
             /\ NothingVanishes
  <2>1. task[t].name \in Names
    BY <1>2 DEF IInv, TasksOK, TaskOK
  <2>2. PICK part \in SUBSET Texts : Lose(task[t].name, part)
    BY <1>2, WrittenType DEF CutWrite, IInv
  <2>3. TypeOK
    BY DEF IInv
  <2> QED
    BY <2>1, <2>2, <2>3, FilesStep
<1> QED
  BY <1>1, <1>2 DEF Restart

(* A step keeps the types, and what a task has read. *)
LEMMA TypeStep == IInv /\ [Next]_vars => TypeOK' /\ TasksOK'
<1> SUFFICES ASSUME IInv, [Next]_vars PROVE TypeOK' /\ TasksOK'
  OBVIOUS
<1>t. TypeOK /\ TasksOK /\ task \in [Tasks -> JobRows] /\ Idle \in JobRows
  BY JobType DEF IInv
<1>j. ASSUME task' \in [Tasks -> JobRows],
             name' \in [Sessions -> Names \union {None}], items' \in [Sessions -> Seq(ItemRows)],
             cursor' \in [Sessions -> 1..MaxItems \union {None}], memory' \in [Names -> SUBSET Texts],
             lost' \in [Names -> SUBSET Texts], deleting' \in SUBSET Names,
             run' \in RunRows, lock' \in [Names -> Tasks \union {None}], last' \in 0..MaxItems
      PROVE  TypeOK'
  BY <1>j DEF TypeOK, JobRows, RunRows
<1>u. /\ name \in [Sessions -> Names \union {None}] /\ items \in [Sessions -> Seq(ItemRows)]
      /\ lost \in [Names -> SUBSET Texts] /\ deleting \in SUBSET Names
      /\ cursor \in [Sessions -> 1..MaxItems \union {None}] /\ memory \in [Names -> SUBSET Texts]
      /\ run \in RunRows /\ lock \in [Names -> Tasks \union {None}] /\ last \in 0..MaxItems
  BY <1>t DEF TypeOK, RunRows
<1>s. ASSUME NEW t \in Tasks, NEW to \in JobRows, SetTask(t, to), TaskOK(to)
      PROVE  task' \in [Tasks -> JobRows] /\ TasksOK'
  BY <1>t, <1>s DEF SetTask, TasksOK
<1>n. NoRun \in RunRows
  BY DEF NoRun, RunRows
<1>1. CASE TaskGoesOn
  <2>1. PICK t \in Tasks, to \in JobRows :
          SetTask(t, to) /\ (Settles(t, to) \/ Locks(t, to) \/ Returns(t, to))
    BY <1>1 DEF TaskGoesOn, TaskSteps
  <2>2. TaskOK(to)
    BY <2>1 DEF Settles, Locks, Returns
  <2>3. task' \in [Tasks -> JobRows] /\ TasksOK'
    BY <1>s, <2>1, <2>2
  <2>4. UNCHANGED <<name, items, deleting, run, last>>
    BY <1>1 DEF TaskGoesOn
  <2>5. CASE Settles(t, to)
    BY <1>j, <1>u, <2>3, <2>4, <2>5 DEF Settles
  <2>6. CASE Locks(t, to)
    BY <1>j, <1>u, <2>3, <2>4, <2>6 DEF Locks
  <2>7. CASE Returns(t, to)
    <3>1. /\ task[t].batch \in Seq(ItemRows) /\ task[t].name \in Names
          /\ task[t].phase = "observing" => task[t].batch # <<>>
      BY <1>t, <2>7 DEF JobRows, TasksOK, TaskOK, Returns
    <3>2. Written(task[t]) \in SUBSET Texts
      BY <1>t, WrittenType
    <3>3. task[t].phase = "observing" => task[t].batch[Len(task[t].batch)].id \in 1..MaxItems
      <4>1. task[t].phase = "observing" => Len(task[t].batch) \in DOMAIN task[t].batch
        BY <3>1
      <4> QED
        BY <3>1, <4>1, RowType
    <3>4. memory' \in [Names -> SUBSET Texts] /\ lost' \in [Names -> SUBSET Texts]
      <4> QED
        BY <1>t, <1>u, <2>7, <3>1, ReturnsKeep, FilesStep DEF IInv
    <3>5. cursor' \in [Sessions -> 1..MaxItems \union {None}]
      BY <1>u, <2>7, <3>3 DEF Returns
    <3>6. lock' \in [Names -> Tasks \union {None}]
      BY <1>u, <2>7 DEF Returns, Release
    <3> QED
      BY <1>j, <1>u, <2>3, <2>4, <3>4, <3>5, <3>6
  <2> QED
    BY <2>1, <2>5, <2>6, <2>7
<1>2. CASE GoesOn
  <2>1. task' \in [Tasks -> JobRows] /\ TasksOK'
    <3>1. CASE UNCHANGED task
      BY <1>t, <3>1 DEF TasksOK
    <3>2. ASSUME NEW t \in Tasks, NEW to \in JobRows, SetTask(t, to) /\ Settles(t, to)
          PROVE  task' \in [Tasks -> JobRows] /\ TasksOK'
      BY <1>s, <3>2 DEF Settles
    <3> QED
      BY <1>2, <3>1, <3>2 DEF GoesOn
  <2> QED
    BY <1>2, <1>j, <1>u, <2>1 DEF GoesOn, RunRowsOK
<1>3. CASE CommitRun
  <2>1. run.session \in Sessions /\ run.name \in Names /\ run.items \in Seq(ItemRows)
    BY <1>3, <1>t, RunRowType DEF CommitRun, IInv, RunRowsOK, RunRows
  <2> QED
    BY <1>3, <1>j, <1>n, <1>t, <1>u, <2>1 DEF CommitRun, TasksOK, files
<1>4. CASE RollbackRun
  BY <1>4, <1>j, <1>n, <1>t, <1>u DEF RollbackRun, TasksOK, files
<1>5. CASE Restart
  <2>1. Idle.phase = "idle" /\ ~Idle.blind
    BY DEF Idle
  <2>2. TaskOK(Idle) /\ task' = [t \in Tasks |-> Idle]
    BY <1>5, <2>1 DEF TaskOK, Restart
  <2>3. task' \in [Tasks -> JobRows] /\ TasksOK'
    BY <1>t, <2>2 DEF TasksOK
  <2>4. memory' \in [Names -> SUBSET Texts] /\ lost' \in [Names -> SUBSET Texts]
    BY <1>5, <1>u, RestartFiles DEF IInv
  <2> QED
    BY <1>5, <1>j, <1>n, <1>u, <2>3, <2>4 DEF Restart
<1>7. CASE Deletes
  <2>1. PICK n \in Names : DeleteRows(n) \/ DeleteFolder(n)
    BY <1>7 DEF Deletes
  <2>2. task' \in [Tasks -> JobRows] /\ TasksOK'
    BY <1>t, <2>1 DEF DeleteRows, DeleteFolder, TasksOK
  <2>3. CASE DeleteRows(n)
    BY <1>j, <1>u, <2>2, <2>3 DEF DeleteRows
  <2>4. CASE DeleteFolder(n)
    <3>1. memory' \in [Names -> SUBSET Texts] /\ lost' \in [Names -> SUBSET Texts]
      BY <1>t, <2>4, FilesStep DEF DeleteFolder
    <3> QED
      BY <1>j, <1>u, <2>2, <2>4, <3>1 DEF DeleteFolder
  <2> QED
    BY <2>1, <2>3, <2>4
<1>6. CASE UNCHANGED vars
  BY <1>6, <1>j, <1>t, <1>u DEF vars, TasksOK
<1> QED
  BY <1>1, <1>2, <1>3, <1>4, <1>5, <1>6, <1>7, StepCases

(* What a memory stands for is kept, or lost by one of the known ways.     *)
LEMMA MemoryStep == IInv /\ [Next]_vars => NothingVanishes
<1> SUFFICES ASSUME IInv, [Next]_vars PROVE NothingVanishes
  OBVIOUS
<1>u. UNCHANGED <<memory, lost>> => NothingVanishes
  BY DEF NothingVanishes
<1>1. CASE TaskGoesOn
  <2>1. PICK t \in Tasks, to \in JobRows :
          SetTask(t, to) /\ (Settles(t, to) \/ Locks(t, to) \/ Returns(t, to))
    BY <1>1 DEF TaskGoesOn, TaskSteps
  <2>2. CASE Returns(t, to)
    <3>1. task[t].name \in Names
      BY <2>2 DEF Returns, IInv, TasksOK, TaskOK
    <3>2. TypeOK
      BY DEF IInv
    <3>4. ASSUME NEW content \in SUBSET Texts,
                 \/ Lose(task[t].name, content)
                 \/ Put(task[t].name, content) /\ memory[task[t].name] \subseteq content
          PROVE  NothingVanishes
      BY <3>1, <3>2, <3>4, FilesStep
    <3> QED
      BY <1>u, <2>2, <3>4, ReturnsKeep
  <2> QED
    BY <1>u, <2>1, <2>2 DEF Settles, Locks
<1>2. CASE Restart
  BY <1>2, RestartFiles
<1>3. CASE Deletes
  <2>1. PICK n \in Names : DeleteRows(n) \/ DeleteFolder(n)
    BY <1>3 DEF Deletes
  <2>2. TypeOK
    BY DEF IInv
  <2>3. CASE DeleteRows(n)
    BY <1>u, <2>3 DEF DeleteRows
  <2>4. CASE DeleteFolder(n)
    <3>1. Lose(n, {}) /\ {} \in SUBSET Texts
      BY <2>4 DEF DeleteFolder
    <3> QED
      BY <2>2, <3>1, FilesStep
  <2> QED
    BY <2>1, <2>3, <2>4
<1> QED
  BY <1>1, <1>2, <1>3, <1>u, StepCases DEF GoesOn, CommitRun, RollbackRun, vars, files

(* The same of all memories together. *)
LEMMA KeptStep ==
  IInv /\ [Next]_vars => \A n \in Names : Kept[n] \subseteq Kept'[n]
BY MemoryStep DEF Kept, NothingVanishes

(* The lock of a name stays with the task that works on it. *)
LEMMA LockStep == IInv /\ [Next]_vars => NoLostUpdate'
<1> SUFFICES ASSUME IInv, [Next]_vars PROVE NoLostUpdate'
  OBVIOUS
<1>t. /\ task \in [Tasks -> JobRows] /\ lock \in [Names -> Tasks \union {None}]
      /\ memory \in [Names -> SUBSET Texts]
      /\ NoLostUpdate /\ \A t \in Tasks : TaskOK(task[t])
  BY JobType DEF IInv, TypeOK, TasksOK
<1>s. ASSUME NEW t \in Tasks, NEW to \in JobRows, SetTask(t, to), Settles(t, to) PROVE NoLostUpdate'
  BY <1>s, <1>t DEF SetTask, Settles, NoLostUpdate
<1>1. CASE TaskGoesOn
  <2>1. PICK t \in Tasks, to \in JobRows :
          SetTask(t, to) /\ (Settles(t, to) \/ Locks(t, to) \/ Returns(t, to))
    BY <1>1 DEF TaskGoesOn, TaskSteps
  <2>2. CASE Locks(t, to)
    BY <1>t, <2>1, <2>2 DEF SetTask, Locks, TaskOK, NoLostUpdate
  <2>3. CASE Returns(t, to)
    <3>1. \A u \in Tasks \ {t} : task[u].phase \in {"observing", "reflecting"} => task[u].name # task[t].name
      BY <1>t, <2>3 DEF Returns, NoLostUpdate
    <3>2. \A n \in Names \ {task[t].name} : lock'[n] = lock[n] /\ memory'[n] = memory[n]
      <4>1. task[t].name \in Names
        BY <1>t, <2>3 DEF Returns, TaskOK
      <4>2. \A n \in Names \ {task[t].name} : memory'[n] = memory[n]
        <5>1. TypeOK
          BY DEF IInv
        <5>2. ASSUME NEW content \in SUBSET Texts,
                     \/ Lose(task[t].name, content)
                     \/ Put(task[t].name, content) /\ memory[task[t].name] \subseteq content
              PROVE  OthersStay(task[t].name)
          BY <4>1, <5>1, <5>2, FilesStep
        <5> QED
          BY <2>3, <5>2, ReturnsKeep DEF OthersStay
      <4> QED
        BY <1>t, <2>3, <4>2 DEF Returns, Release
    <3>3. to.phase \notin {"observing", "reflecting"}
      BY <2>3 DEF Returns
    <3> QED
      BY <1>t, <2>1, <3>1, <3>2, <3>3 DEF SetTask, TaskOK, NoLostUpdate
  <2> QED
    BY <1>s, <2>1, <2>2, <2>3
<1>2. CASE GoesOn
  BY <1>2, <1>s, <1>t DEF GoesOn, NoLostUpdate
<1>3. CASE Restart
  BY <1>3 DEF Restart, Idle, NoLostUpdate
<1>4. CASE CommitRun \/ RollbackRun \/ UNCHANGED vars
  BY <1>4, <1>t DEF CommitRun, RollbackRun, vars, files, NoLostUpdate
<1>5. CASE Deletes
  <2>1. PICK n \in Names : DeleteRows(n) \/ DeleteFolder(n)
    BY <1>5 DEF Deletes
  <2>2. CASE DeleteRows(n)
    BY <1>t, <2>2 DEF DeleteRows, NoLostUpdate
  <2>3. CASE DeleteFolder(n)
    <3>1. UNCHANGED <<task, lock>> /\ Lose(n, {})
      BY <2>3 DEF DeleteFolder
    <3>2. \A m \in Names : memory'[m] \in {memory[m], {}}
      BY <1>t, <3>1 DEF Lose
    <3> QED
      BY <1>t, <3>1, <3>2 DEF NoLostUpdate, TaskOK
  <2> QED
    BY <2>1, <2>2, <2>3
<1> QED
  BY <1>1, <1>2, <1>3, <1>4, <1>5, StepCases

(* An id that is new stays so, unless an item with it is committed. *)
LEMMA NewStep ==
  IInv /\ [Next]_vars =>
    \A id \in Nat :
      NewTo(id) /\ (\A s \in Sessions : \A i \in DOMAIN items'[s] : items'[s][i].id < id) => NewTo(id)'
<1> SUFFICES ASSUME IInv, [Next]_vars, NEW id \in Nat, NewTo(id),
                    \A s \in Sessions : \A i \in DOMAIN items'[s] : items'[s][i].id < id
             PROVE  NewTo(id)'
  OBVIOUS
<1>t. /\ task \in [Tasks -> JobRows] /\ items \in [Sessions -> Seq(ItemRows)]
      /\ cursor \in [Sessions -> 1..MaxItems \union {None}] /\ TasksOK
  BY JobType DEF IInv, TypeOK
<1>n. /\ \A s \in Sessions : /\ \A i \in DOMAIN items[s] : items[s][i].id < id
                             /\ cursor[s] # None => cursor[s] < id
      /\ \A t \in Tasks : /\ task[t].seen # None => task[t].seen < id
                          /\ \A i \in DOMAIN task[t].batch : task[t].batch[i].id < id
  BY DEF NewTo
<1>1. \A s \in Sessions : cursor'[s] # None => cursor'[s] < id
  <2>1. ASSUME NEW t \in Tasks, NEW to \in JobRows, Returns(t, to)
        PROVE  \A s \in Sessions : cursor'[s] # None => cursor'[s] < id
    <3>1. task[t].phase = "observing" => task[t].batch[Len(task[t].batch)].id < id
      <4>1. task[t].batch \in Seq(ItemRows) /\ (task[t].phase = "observing" => task[t].batch # <<>>)
        BY <1>t DEF JobRows, TasksOK, TaskOK
      <4>2. task[t].phase = "observing" => Len(task[t].batch) \in DOMAIN task[t].batch
        BY <4>1
      <4> QED
        BY <1>n, <4>2
    <3> QED
      BY <1>n, <1>t, <2>1, <3>1 DEF Returns
  <2>2. CASE UNCHANGED cursor
    BY <1>n, <2>2
  <2> QED
    BY <2>1, <2>2, StepCases
    DEF TaskGoesOn, TaskSteps, Settles, Locks, GoesOn, CommitRun, RollbackRun, Restart, vars,
        Deletes, DeleteRows, DeleteFolder
<1>2. ASSUME NEW to \in JobRows, NEW t \in Tasks, Settles(t, to) \/ Locks(t, to) \/ Returns(t, to)
      PROVE  /\ to.seen # None => to.seen < id
             /\ \A i \in DOMAIN to.batch : to.batch[i].id < id
  <2>1. CASE Settles(t, to) \/ Returns(t, to)
    BY <1>n, <2>1 DEF Settles, Returns
  <2>2. CASE Locks(t, to)
    <3>1. to.seen # None => to.seen < id
      BY <1>n, <2>2 DEF Locks
    <3>2. CASE to.phase = "reflecting"
      BY <1>n, <2>2, <3>1, <3>2 DEF Locks
    <3>3. CASE to.phase = "observing"
      <4>1. to.session \in Sessions
        BY <2>2, <3>3 DEF Locks, TaskOK
      <4>2. PICK seen : to.batch = Unobserved(items[to.session], seen)
        BY <2>2, <3>3 DEF Locks
      <4> DEFINE s == items[to.session]
                 f == FirstBehind(s, seen)
      <4>3. /\ s \in Seq(ItemRows) /\ \A i \in DOMAIN s : s[i].id < id
        BY <1>n, <1>t, <4>1
      <4> HIDE DEF s
      <4>4. /\ f \in 1..Len(s) + 1 /\ Unobserved(s, seen) \in Seq(ItemRows)
            /\ Len(Unobserved(s, seen)) = Len(s) - f + 1
            /\ \A i \in DOMAIN Unobserved(s, seen) : Unobserved(s, seen)[i] = s[i + f - 1]
        BY <4>3, TailType
      <4> HIDE DEF f
      <4>5. \A i \in DOMAIN Unobserved(s, seen) : Unobserved(s, seen)[i].id < id
        BY <4>3, <4>4
      <4> QED
        BY <3>1, <4>2, <4>5 DEF s
    <3> QED
      BY <2>2, <3>2, <3>3 DEF Locks
  <2> QED
    BY <1>2, <2>1, <2>2
<1>3. \A t \in Tasks : /\ task'[t].seen # None => task'[t].seen < id
                       /\ \A i \in DOMAIN task'[t].batch : task'[t].batch[i].id < id
  <2>1. CASE UNCHANGED task
    BY <1>n, <2>1
  <2>2. ASSUME NEW t \in Tasks, NEW to \in JobRows, SetTask(t, to),
               Settles(t, to) \/ Locks(t, to) \/ Returns(t, to)
        PROVE  \A u \in Tasks : /\ task'[u].seen # None => task'[u].seen < id
                                /\ \A i \in DOMAIN task'[u].batch : task'[u].batch[i].id < id
    <3>1. \A u \in Tasks : task'[u] = to \/ task'[u] = task[u]
      BY <1>t, <2>2 DEF SetTask
    <3>2. /\ to.seen # None => to.seen < id
          /\ \A i \in DOMAIN to.batch : to.batch[i].id < id
      BY <1>2, <2>2
    <3> QED
      BY <1>n, <3>1, <3>2
  <2>3. CASE Restart
    BY <2>3 DEF Restart, Idle
  <2> QED
    BY <2>1, <2>2, <2>3, StepCases
    DEF TaskGoesOn, TaskSteps, GoesOn, CommitRun, RollbackRun, vars, Deletes, DeleteRows, DeleteFolder
<1> QED
  BY <1>1, <1>3 DEF NewTo

(* A commit brings what it has kept, and what is new. *)
LEMMA RowsStep ==
  IInv /\ [Next]_vars =>
    \/ UNCHANGED items
    \/ /\ CommitRun /\ RunRowsOK(run, last) /\ last' = last
       /\ \A s \in Sessions : items'[s] = items[s] \/ (s = run.session /\ items'[s] = run.items)
<1> SUFFICES ASSUME IInv, [Next]_vars, CommitRun
             PROVE  /\ RunRowsOK(run, last) /\ last' = last
                    /\ \A s \in Sessions : items'[s] = items[s] \/ (s = run.session /\ items'[s] = run.items)
  BY StepCases DEF TaskGoesOn, GoesOn, RollbackRun, Restart, vars, Deletes, DeleteRows, DeleteFolder
<1>1. RunRowsOK(run, last) /\ last' = last /\ items' = [items EXCEPT ![run.session] = run.items]
  BY RunRowType DEF CommitRun, IInv
<1> QED
  BY <1>1 DEF IInv, TypeOK

(* The ids of committed items only grow. *)
LEMMA IdsStep == IInv /\ [Next]_vars => IdsOK'
<1> SUFFICES ASSUME IInv, [Next]_vars PROVE IdsOK'
  OBVIOUS
<1>t. /\ items \in [Sessions -> Seq(ItemRows)] /\ last \in Nat /\ TypeOK /\ NewTo(last + 1)
      /\ \A s \in Sessions : Increasing(items[s]) /\ Paired(items[s])
  BY DEF IInv, TypeOK, IdsOK
<1>1. last' \in Nat /\ last <= last'
  BY <1>t, StepCases
  DEF TaskGoesOn, GoesOn, CommitRun, RollbackRun, Restart, vars, Deletes, DeleteRows, DeleteFolder
<1>2. NewTo(last' + 1)
  BY <1>1, <1>t, NewLater
<1>3. \A s \in Sessions : /\ Increasing(items'[s]) /\ Paired(items'[s])
                          /\ \A i \in DOMAIN items'[s] : items'[s][i].id < last' + 1
  <2>1. CASE UNCHANGED items
    BY <1>2, <1>t, <2>1 DEF NewTo
  <2>2. CASE /\ RunRowsOK(run, last) /\ last' = last
             /\ \A s \in Sessions : items'[s] = items[s] \/ (s = run.session /\ items'[s] = run.items)
    <3>1. /\ Increasing(run.items) /\ Paired(run.items) /\ run.items \in Seq(ItemRows)
          /\ \A i \in DOMAIN run.items : run.items[i].id <= last
      BY <2>2 DEF RunRowsOK, RunRows
    <3>2. \A i \in DOMAIN run.items : run.items[i].id < last + 1
      BY <1>t, <3>1, RowType
    <3>3. \A s \in Sessions : \A i \in DOMAIN items[s] : items[s][i].id < last + 1
      BY <1>t DEF NewTo
    <3> QED
      BY <1>t, <2>2, <3>1, <3>2, <3>3
  <2> QED
    BY <2>1, <2>2, RowsStep
<1>4. last' + 1 \in Nat
  <2>1. \A n \in Nat : n + 1 \in Nat
    OBVIOUS
  <2> QED
    BY <1>1, <2>1
<1> DEFINE next == last' + 1
<1>5. ASSUME NEW n \in Nat, n = next PROVE NewTo(n)'
  BY <1>2, <1>3, <1>5, NewStep
<1> QED
  BY <1>3, <1>4, <1>5 DEF IdsOK

(* What a run adds stays new until it is committed. *)
LEMMA RunStep == IInv /\ [Next]_vars => RunOK'
<1> SUFFICES ASSUME IInv, [Next]_vars, run' # NoRun PROVE RunRowsOK(run, last)'
  BY DEF RunOK, RunRowsOK
<1>t. TypeOK /\ items \in [Sessions -> Seq(ItemRows)] /\ last \in Nat
  BY DEF IInv, TypeOK
<1>1. RunRowsOK(run', last') /\ UNCHANGED items
  <2>1. CASE GoesOn
    BY <2>1 DEF GoesOn
  <2>2. CASE UNCHANGED <<items, run, last>>
    BY <2>2, RunRowType DEF IInv
  <2> QED
    BY <2>1, <2>2, StepCases
    DEF TaskGoesOn, CommitRun, RollbackRun, Restart, vars, Deletes, DeleteRows, DeleteFolder
<1>2. \A id \in Nat : NewTo(id) => NewTo(id)'
  <2>1. \A id \in Nat : NewTo(id) => \A s \in Sessions : \A i \in DOMAIN items'[s] : items'[s][i].id < id
    BY <1>1 DEF NewTo
  <2> QED
    BY <2>1, NewStep
<1>3. /\ run'.items \in Seq(ItemRows)
      /\ \A i \in DOMAIN run'.items :
           run'.items[i].id \in IdsOf(items[run'.session]) \/ NewTo(run'.items[i].id)
  BY <1>1 DEF RunRowsOK, RunRows
<1>4. \A i \in DOMAIN run'.items : run'.items[i].id \in Nat
  BY <1>3, RowType
<1> QED
  BY <1>1, <1>2, <1>3, <1>4 DEF RunRowsOK

(* What is covered up to an id that is not new stays covered. *)
LEMMA UptoStep ==
  ASSUME IInv, [Next]_vars, NEW s \in Sessions, NEW id \in Nat, NEW soon,
         Upto(items[s], Kept, id, soon), \A n \in Nat : NewTo(n) => id < n
  PROVE  Upto(items'[s], Kept', id, soon)
<1>1. \A n \in Names : Kept[n] \subseteq Kept'[n]
  BY KeptStep
<1>2. items[s] \in Seq(ItemRows) /\ items'[s] \in Seq(ItemRows)
  BY TypeStep DEF IInv, TypeOK
<1>3. \A i \in DOMAIN items'[s] : items'[s][i].id \in IdsOf(items[s]) \/ id < items'[s][i].id
  <2>1. CASE items'[s] = items[s]
    BY <2>1 DEF IdsOf
  <2>2. CASE RunRowsOK(run, last) /\ s = run.session /\ items'[s] = run.items
    BY <1>2, <2>2, RowType DEF RunRowsOK
  <2> QED
    BY <2>1, <2>2, RowsStep
<1> QED
  BY <1>1, <1>2, <1>3, UptoStays

(* The ids of a batch, and the last one. *)
LEMMA BatchIds ==
  ASSUME IInv, NEW t \in Tasks, task[t].phase = "observing"
  PROVE  LET b == task[t].batch[Len(task[t].batch)].id
         IN b \in Nat /\ \A n \in Nat : NewTo(n) => b < n
<1>1. task[t].batch \in Seq(ItemRows) /\ task[t].batch # <<>>
  BY JobType DEF IInv, JobRows, TasksOK, TaskOK
<1>2. Len(task[t].batch) \in DOMAIN task[t].batch
  BY <1>1
<1> QED
  BY <1>1, <1>2, RowType DEF NewTo

(* A cursor moves to the end of a batch once that is written. *)
LEMMA CursorsStep == IInv /\ [Next]_vars => CursorsOK'
<1> SUFFICES ASSUME IInv, [Next]_vars, NEW s \in Sessions, cursor'[s] # None
             PROVE  Upto(items'[s], Kept', cursor'[s], {})
  BY DEF CursorsOK
<1>t. /\ cursor \in [Sessions -> 1..MaxItems \union {None}] /\ memory \in [Names -> SUBSET Texts]
      /\ TypeOK /\ TasksOK
  BY DEF IInv, TypeOK
<1>1. CASE cursor'[s] = cursor[s]
  <2>1. Upto(items[s], Kept, cursor[s], {}) /\ cursor[s] \in Nat /\ \A n \in Nat : NewTo(n) => cursor[s] < n
    BY <1>1, <1>t DEF IInv, CursorsOK, NewTo
  <2> QED
    BY <1>1, <2>1, UptoStep
<1>2. CASE cursor'[s] # cursor[s]
  <2>1. PICK t \in Tasks, to \in JobRows : Returns(t, to) /\ UNCHANGED items
    BY <1>2, StepCases
    DEF TaskGoesOn, TaskSteps, Settles, Locks, GoesOn, CommitRun, RollbackRun, Restart, vars,
        Deletes, DeleteRows, DeleteFolder
  <2> DEFINE batch == task[t].batch
             b     == batch[Len(batch)].id
  <2>2. /\ task[t].phase = "observing" /\ cursor' = [cursor EXCEPT ![task[t].session] = b]
        /\ Lose(task[t].name, Written(task[t])) \/ Put(task[t].name, Written(task[t]))
    BY <1>2, <2>1 DEF Returns
  <2>3. s = task[t].session /\ cursor'[s] = b
    BY <1>2, <1>t, <2>2
  <2>4. Upto(items[s], Kept, b, IdsOf(batch))
    BY <2>2, <2>3 DEF IInv, BatchesOK
  <2>5. task[t].name \in Names /\ batch \in Seq(ItemRows)
    BY <1>t, <2>2, JobType DEF TasksOK, TaskOK, JobRows
  <2>6. TextsOf(batch) \subseteq Kept'[task[t].name]
    <3>1. memory'[task[t].name] = Written(task[t])
      BY <1>t, <2>2, <2>5 DEF Lose, Put
    <3> QED
      BY <2>5, <3>1 DEF Written, Kept
  <2> HIDE DEF batch, b
  <2>7. \A id \in IdsOf(batch) : Remembered(Kept', id)
    <3> SUFFICES ASSUME NEW i \in DOMAIN batch PROVE Remembered(Kept', batch[i].id)
      BY DEF IdsOf
    <3>1. Text(batch[i]) \in Kept'[task[t].name]
      BY <2>6 DEF TextsOf
    <3> QED
      BY <2>5, <3>1, RowType DEF Text, Remembered
  <2>8. \A n \in Names : Kept[n] \subseteq Kept'[n]
    BY KeptStep
  <2> QED
    BY <2>1, <2>3, <2>4, <2>7, <2>8 DEF Upto, Remembered
<1> QED
  BY <1>1, <1>2

(* How the tasks change: one of them at a time, and the rows of no session with it. *)
LEMMA TasksStep ==
  IInv /\ [Next]_vars =>
    \A u \in Tasks :
      \/ task'[u] = task[u] \/ task'[u] = Idle
      \/ /\ UNCHANGED <<items, memory, lost>> /\ task'[u] \in JobRows
         /\ Settles(u, task'[u]) \/ Locks(u, task'[u])
      \/ task'[u].phase \in {"idle", "toReflect"}
<1> SUFFICES ASSUME IInv, [Next]_vars, NEW u \in Tasks
             PROVE  \/ task'[u] = task[u] \/ task'[u] = Idle
                    \/ /\ UNCHANGED <<items, memory, lost>> /\ task'[u] \in JobRows
                       /\ Settles(u, task'[u]) \/ Locks(u, task'[u])
                    \/ task'[u].phase \in {"idle", "toReflect"}
  OBVIOUS
<1>t. task \in [Tasks -> JobRows]
  BY JobType DEF IInv
<1>1. CASE UNCHANGED task
  BY <1>1
<1>2. CASE Restart
  BY <1>2 DEF Restart
<1>3. ASSUME NEW t \in Tasks, NEW to \in JobRows, SetTask(t, to), UNCHANGED items,
             Settles(t, to) \/ Locks(t, to) \/ Returns(t, to)
      PROVE  \/ task'[u] = task[u]
             \/ /\ UNCHANGED <<items, memory, lost>> /\ task'[u] \in JobRows
                /\ Settles(u, task'[u]) \/ Locks(u, task'[u])
             \/ task'[u].phase \in {"idle", "toReflect"}
  <2>1. task'[u] = task[u] \/ (t = u /\ task'[u] = to)
    BY <1>3, <1>t DEF SetTask
  <2>2. Settles(t, to) \/ Locks(t, to) => UNCHANGED <<memory, lost>>
    BY DEF Settles, Locks
  <2>3. Returns(t, to) => to.phase \in {"idle", "toReflect"}
    BY DEF Returns
  <2> QED
    BY <1>3, <2>1, <2>2, <2>3
<1> QED
  BY <1>1, <1>2, <1>3, StepCases
  DEF TaskGoesOn, TaskSteps, GoesOn, CommitRun, RollbackRun, vars, Deletes, DeleteRows, DeleteFolder

(* A task that waits has read a cursor that was right, and that stays so. *)
LEMMA SeenStep == IInv /\ [Next]_vars => SeenOK'
<1> SUFFICES ASSUME IInv, [Next]_vars, NEW u \in Tasks, task'[u].phase = "waiting", task'[u].seen # None
             PROVE  Upto(items'[task'[u].session], Kept', task'[u].seen, {})
  BY DEF SeenOK
<1>1. CASE task'[u] = task[u]
  <2>1. task[u].session \in Sessions /\ task[u].seen \in Nat
    BY <1>1, JobType DEF IInv, TasksOK, TaskOK, JobRows
  <2>2. Upto(items[task[u].session], Kept, task[u].seen, {}) /\ \A n \in Nat : NewTo(n) => task[u].seen < n
    BY <1>1 DEF IInv, SeenOK, NewTo
  <2> QED
    BY <1>1, <2>1, <2>2, UptoStep
<1>2. CASE UNCHANGED <<items, memory, lost>> /\ Settles(u, task'[u])
  BY <1>2 DEF Settles, IInv, CursorsOK, Kept
<1>3. ~Locks(u, task'[u]) /\ task'[u] # Idle
  BY DEF Locks, Idle
<1> QED
  BY <1>1, <1>2, <1>3, TasksStep

(* A batch reaches back to what is remembered. *)
LEMMA BatchesStep == IInv /\ [Next]_vars => BatchesOK'
<1> SUFFICES ASSUME IInv, [Next]_vars, NEW u \in Tasks, task'[u].phase = "observing"
             PROVE  Upto(items'[task'[u].session], Kept', task'[u].batch[Len(task'[u].batch)].id,
                         IdsOf(task'[u].batch))
  BY DEF BatchesOK
<1>1. CASE task'[u] = task[u]
  <2>1. /\ task[u].session \in Sessions
        /\ Upto(items[task[u].session], Kept, task[u].batch[Len(task[u].batch)].id, IdsOf(task[u].batch))
    BY <1>1 DEF IInv, TasksOK, TaskOK, BatchesOK
  <2>2. LET b == task[u].batch[Len(task[u].batch)].id
        IN b \in Nat /\ \A n \in Nat : NewTo(n) => b < n
    BY <1>1, BatchIds
  <2> QED
    BY <1>1, <2>1, <2>2, UptoStep
<1>2. CASE UNCHANGED <<items, memory, lost>> /\ task'[u] \in JobRows /\ Locks(u, task'[u])
  <2> DEFINE s == task'[u].session
             c == cursor[s]
  <2>1. s \in Sessions
    BY <1>2 DEF Locks, TaskOK
  <2>2. PICK seen : /\ task'[u].batch = Unobserved(items[s], seen)
                    /\ \/ seen = cursor[s]
                       \/ task[u].phase = "waiting" /\ task[u].session = s /\ task[u].seen = seen
    BY <1>2 DEF Locks
  <2>3. items[s] \in Seq(ItemRows) /\ Increasing(items[s])
    BY <2>1 DEF IInv, TypeOK, IdsOK
  <2>4. seen # None => Upto(items[s], Kept, seen, {})
    BY <2>1, <2>2 DEF IInv, CursorsOK, SeenOK
  <2> HIDE DEF s
  <2>5. seen \in IdsOf(items[s]) => seen # None
    BY <2>3, RowType DEF IdsOf
  <2>6. ASSUME NEW i \in DOMAIN items[s]
        PROVE  items[s][i].id \in IdsOf(task'[u].batch) \/ Remembered(Kept, items[s][i].id)
    <3>1. \/ seen \in IdsOf(items[s]) /\ items[s][i].id <= seen
          \/ items[s][i].id \in IdsOf(Unobserved(items[s], seen))
      BY <2>3, TailCovers
    <3> QED
      BY <2>2, <2>4, <2>5, <3>1 DEF Upto
  <2> QED
    BY <1>2, <2>6 DEF Upto, s, Kept
<1>3. ~Settles(u, task'[u]) /\ task'[u] # Idle
  BY DEF Settles, Idle
<1> QED
  BY <1>1, <1>2, <1>3, TasksStep

(* The invariant holds at the start. *)
LEMMA InitIInv == Init => IInv
<1> SUFFICES ASSUME Init PROVE IInv
  OBVIOUS
<1>1. TypeOK
  BY DEF Init, TypeOK, NoRun, Idle, Phases
<1>2. IdsOK
  BY DEF Init, IdsOK, NewTo, Idle, Increasing, Paired
<1>3. RunOK /\ CursorsOK
  BY DEF Init, RunOK, CursorsOK
<1>4. TasksOK /\ NoLostUpdate /\ SeenOK /\ BatchesOK
  BY DEF Init, TasksOK, TaskOK, NoLostUpdate, SeenOK, BatchesOK, Idle
<1> QED
  BY <1>1, <1>2, <1>3, <1>4 DEF IInv

(* Every step keeps it. *)
LEMMA NextIInv == IInv /\ [Next]_vars => IInv'
<1> SUFFICES ASSUME IInv, [Next]_vars PROVE IInv'
  OBVIOUS
<1> QED
  BY TypeStep, IdsStep, RunStep, LockStep, CursorsStep, SeenStep, BatchesStep DEF IInv

-------------------------------------------------------------------------------
(* The prompt of a run.                                                    *)

(* A set of numbers has a least one: the intervals from 1 to its elements  *)
(* have one that is smallest by inclusion.                                 *)
LEMMA LeastNumber ==
  ASSUME NEW T \in SUBSET Nat, T # {}
  PROVE  \E x \in T : \A y \in T : x <= y
<1> DEFINE U == {1..x : x \in T}
           R == StrictSubsetOrdering(Nat)
<1>1. IsWellFoundedOn(R, FiniteSubsetsOf(Nat))
  BY FS_StrictSubsetOrderingWellFounded
<1>2. U \subseteq FiniteSubsetsOf(Nat) /\ U # {}
  <2>1. ASSUME NEW x \in T PROVE 1..x \in FiniteSubsetsOf(Nat)
    <3>1. 1..x \subseteq Nat /\ IsFiniteSet(1..x)
      BY FS_Interval
    <3> QED
      BY <3>1 DEF FiniteSubsetsOf
  <2> QED
    BY <2>1
<1>3. \E u \in U : \A v \in U : ~ (<<v, u>> \in R)
  <2> HIDE DEF U, R
  <2> QED
    BY <1>1, <1>2, WFMin
<1>4. PICK x \in T : \A y \in T : ~ (<<1..y, 1..x>> \in R)
  BY <1>3
<1>5. ASSUME NEW y \in T, y < x PROVE FALSE
  <2>1. 1..y \subseteq 1..x /\ x \in 1..x /\ x \notin 1..y
    BY <1>5
  <2>2. <<1..y, 1..x>> \in R
    BY <2>1 DEF StrictSubsetOrdering
  <2> QED
    BY <1>4, <2>2
<1> QED
  BY <1>5

(* The least element of a set of numbers. *)
LEMMA MinProperty ==
  ASSUME NEW S \in SUBSET Nat, S # {}
  PROVE  Min(S) \in S /\ \A x \in S : Min(S) <= x
<1>1. \E x \in S : \A y \in S : x <= y
  BY LeastNumber
<1> QED
  BY <1>1 DEF Min

(* The greatest element of a set of numbers that has a bound. *)
LEMMA MaxProperty ==
  ASSUME NEW S \in SUBSET Nat, S # {}, NEW n \in Nat, \A x \in S : x <= n
  PROVE  Max(S) \in S /\ \A x \in S : x <= Max(S)
<1> DEFINE Bounds == {b \in Nat : \A x \in S : x <= b}
<1>1. PICK b \in Bounds : \A c \in Bounds : b <= c
  <2>1. Bounds \in SUBSET Nat /\ Bounds # {}
    OBVIOUS
  <2> HIDE DEF Bounds
  <2> QED
    BY <2>1, LeastNumber
<1>2. b \in S
  <2> SUFFICES ASSUME b \notin S PROVE FALSE
    OBVIOUS
  <2>1. \A x \in S : x <= b - 1
    BY <1>1
  <2>2. b - 1 \in Nat
    <3>1. PICK x \in S : TRUE
      OBVIOUS
    <3>2. x \in Nat /\ x <= b - 1 /\ b \in Nat
      BY <1>1, <2>1
    <3> QED
      BY <3>2
  <2>3. b - 1 \in Bounds
    BY <2>1, <2>2
  <2> QED
    BY <1>1, <2>2, <2>3
<1>3. \E x \in S : \A y \in S : x >= y
  BY <1>1, <1>2
<1>4. Max(S) \in S /\ \A y \in S : Max(S) >= y
  BY <1>3 DEF Max
<1> QED
  BY <1>4

(* The nearest place before from whose tail has no orphan. *)
Nearest(s, from) == Max({i \in 1..from : Orphans(s, i) = {}})

CallsOf(s, from) ==
  {j \in 1..from - 1 : s[j].type = "call" /\ s[j].id = s[Min(Orphans(s, from))].call}

(* A whole transcript has no orphan. *)
LEMMA WholeHasNoOrphan ==
  ASSUME NEW s \in Seq(ItemRows), Paired(s)
  PROVE  Orphans(s, 1) = {}
BY DEF Paired, Orphans, HasCall

(* There is a nearest place, and its tail has no orphan. *)
LEMMA NearestProperty ==
  ASSUME NEW s \in Seq(ItemRows), Paired(s), NEW from \in 1..Len(s) + 1
  PROVE  /\ Nearest(s, from) \in 1..from /\ Orphans(s, Nearest(s, from)) = {}
         /\ Orphans(s, from) = {} => Nearest(s, from) = from
<1> DEFINE S == {i \in 1..from : Orphans(s, i) = {}}
<1>1. /\ S \in SUBSET Nat /\ 1 \in S /\ from \in Nat /\ (\A x \in S : x <= from)
      /\ \A x \in S : x \in 1..from /\ Orphans(s, x) = {}
      /\ Orphans(s, from) = {} => from \in S
  BY WholeHasNoOrphan
<1> HIDE DEF S
<1>2. Max(S) \in S /\ \A x \in S : x <= Max(S)
  BY <1>1, MaxProperty
<1> DEFINE m == Max(S)
<1>3. Nearest(s, from) = m
  BY DEF Nearest, S
<1> HIDE DEF m
<1>4. m \in 1..from /\ Orphans(s, m) = {} /\ (Orphans(s, from) = {} => from <= m)
  BY <1>1, <1>2 DEF m
<1>5. Orphans(s, from) = {} => m = from
  BY <1>1, <1>4
<1> QED
  BY <1>3, <1>4, <1>5

(* The first orphan has one call, in front of the tail; no tail that starts *)
(* behind the call does without an orphan.                                  *)
LEMMA OrphanMoves ==
  ASSUME NEW s \in Seq(ItemRows), Increasing(s), Paired(s), NEW from \in 1..Len(s) + 1,
         Orphans(s, from) # {}
  PROVE  /\ CallsOf(s, from) # {} /\ Max(CallsOf(s, from)) \in 1..from - 1
         /\ Nearest(s, Max(CallsOf(s, from))) = Nearest(s, from)
<1> DEFINE o == Min(Orphans(s, from))
<1>1. Orphans(s, from) \in SUBSET Nat
  BY DEF Orphans
<1>2. o \in Orphans(s, from)
  BY <1>1, MinProperty
<1> HIDE DEF o
<1>3. o \in from..Len(s) /\ o \in DOMAIN s /\ s[o].type = "output" /\ ~HasCall(s, o, from)
  BY <1>2 DEF Orphans
<1>4. PICK j \in 1..o - 1 : s[j].type = "call" /\ s[j].id = s[o].call
  BY <1>3 DEF Paired
<1>5. j \in 1..from - 1 /\ j \in DOMAIN s
  BY <1>3, <1>4 DEF HasCall
<1>6. \A i \in DOMAIN s : s[i].id = s[o].call => i = j
  <2> SUFFICES ASSUME NEW i \in DOMAIN s, s[i].id = s[j].id, i # j PROVE FALSE
    BY <1>4
  <2>1. i < j \/ j < i
    BY <1>5
  <2>2. s[i].id < s[j].id \/ s[j].id < s[i].id
    BY <1>5, <2>1 DEF Increasing
  <2> QED
    BY <1>5, <2>2, RowType
<1>7. CallsOf(s, from) = {j}
  BY <1>4, <1>5, <1>6 DEF CallsOf, o
<1>8. Max({j}) = j
  <2> DEFINE S == {j}
  <2>1. S \in SUBSET Nat /\ S # {} /\ j \in Nat /\ \A x \in S : x <= j
    BY <1>5
  <2>2. Max(S) \in S
    <3> HIDE DEF S
    <3> QED
      BY <2>1, MaxProperty
  <2> QED
    BY <2>2
<1>9. \A i \in j + 1..from : Orphans(s, i) # {}
  <2> SUFFICES ASSUME NEW i \in j + 1..from PROVE o \in Orphans(s, i)
    OBVIOUS
  <2>1. ~HasCall(s, o, i)
    BY <1>3, <1>5, <1>6 DEF HasCall
  <2> QED
    BY <1>3, <1>5, <2>1 DEF Orphans
<1>10. {i \in 1..j : Orphans(s, i) = {}} = {i \in 1..from : Orphans(s, i) = {}}
  BY <1>5, <1>9
<1> QED
  BY <1>5, <1>7, <1>8, <1>10 DEF Nearest

(* One round of _heal_orphan_tool_outputs. *)
Round(s, heal, from) ==
  IF Orphans(s, from) = {} THEN from
  ELSE LET calls == {j \in 1..from - 1 :
                       s[j].type = "call" /\ s[j].id = s[Min(Orphans(s, from))].call}
       IN IF calls = {} THEN 1 ELSE heal[Max(calls)]

(* A round stays at a tail without orphans, and else goes to the call. *)
LEMMA NearestRound ==
  ASSUME NEW s \in Seq(ItemRows), Increasing(s), Paired(s), NEW from \in 1..Len(s) + 1, NEW heal
  PROVE  /\ Orphans(s, from) = {} => Round(s, heal, from) = from
         /\ Orphans(s, from) # {} => Round(s, heal, from) = heal[Max(CallsOf(s, from))]
BY OrphanMoves DEF Round, CallsOf

(* However the items come to be cut, what is sent is the shortest tail     *)
(* from there or before in which every output has its call: the rounds     *)
(* end, and they end there.                                                *)
THEOREM HealedTailIsShortest ==
  ASSUME NEW s \in Seq(ItemRows), Increasing(s), Paired(s), NEW start \in 1..Len(s) + 1
  PROVE  Heal(s, start) = Max({i \in 1..start : Orphans(s, i) = {}})
<1> DEFINE D       == 1..Len(s) + 1
           Heals(h) == h = [from \in D |-> Round(s, h, from)]
           g       == [from \in D |-> Nearest(s, from)]
<1>1. Heals(g)
  <2>1. ASSUME NEW from \in D PROVE Nearest(s, from) = Round(s, g, from)
    <3>1. CASE Orphans(s, from) = {}
      BY <3>1, NearestProperty, NearestRound
    <3>2. CASE Orphans(s, from) # {}
      <4>1. Max(CallsOf(s, from)) \in D
        BY <3>2, OrphanMoves
      <4>2. g[Max(CallsOf(s, from))] = Nearest(s, Max(CallsOf(s, from)))
        BY <4>1
      <4> HIDE DEF g
      <4> QED
        BY <3>2, <4>2, OrphanMoves, NearestRound
    <3> QED
      BY <3>1, <3>2
  <2> DEFINE rounds == [from \in D |-> Round(s, g, from)]
  <2>2. g = rounds
    BY <2>1
  <2> QED
    BY <2>2
<1>2. ASSUME NEW h, Heals(h), NEW from \in D PROVE h[from] = Nearest(s, from)
  <2> SUFFICES ASSUME {n \in D : h[n] # Nearest(s, n)} # {} PROVE FALSE
    OBVIOUS
  <2> DEFINE T == {n \in D : h[n] # Nearest(s, n)}
  <2>1. PICK n \in T : \A m \in T : n <= m
    <3>1. T \in SUBSET Nat /\ T # {}
      OBVIOUS
    <3> HIDE DEF T
    <3> QED
      BY <3>1, LeastNumber
  <2>2. n \in D /\ h[n] # Nearest(s, n)
    BY <2>1
  <2>3. h[n] = Round(s, h, n)
    BY <1>2, <2>2
  <2>4. CASE Orphans(s, n) = {}
    BY <2>2, <2>3, <2>4, NearestProperty, NearestRound
  <2>5. CASE Orphans(s, n) # {}
    <3> DEFINE m == Max(CallsOf(s, n))
    <3>1. m \in 1..n - 1 /\ Nearest(s, m) = Nearest(s, n) /\ Round(s, h, n) = h[m]
      BY <2>2, <2>5, OrphanMoves, NearestRound
    <3> HIDE DEF m
    <3>2. m \in D /\ m \notin T
      BY <2>1, <2>2, <3>1
    <3> QED
      BY <2>2, <2>3, <3>1, <3>2
  <2> QED
    BY <2>4, <2>5
<1> DEFINE heal == CHOOSE h : Heals(h)
<1>3. Heal(s, start) = heal[start]
  BY DEF Heal, Round
<1>4. Heals(heal)
  <2> HIDE DEF Heals
  <2> QED
    BY <1>1, Zenon
<1> HIDE DEF heal, Heals
<1>5. heal[start] = Nearest(s, start)
  BY <1>2, <1>4
<1> QED
  BY <1>3, <1>5 DEF Nearest

(* What the prompt leaves out is never everything, and leaves no orphan. *)
LEMMA PromptIsPaired ==
  ASSUME TypeOK, RunOK, run # NoRun
  PROVE  LET dropped == Dropped(run.items, run.name, cursor[run.session])
         IN dropped < Len(run.items) /\ Orphans(run.items, dropped + 1) = {}
<1> DEFINE s     == run.items
           c     == cursor[run.session]
           first == FirstBehind(s, c)
           start == Heal(s, first)
<1>1. s \in Seq(ItemRows) /\ s # <<>> /\ Increasing(s) /\ Paired(s)
  BY DEF TypeOK, RunOK
<1> HIDE DEF s, c
<1>2. first \in 1..Len(s) + 1
  BY <1>1, TailType
<1> HIDE DEF first
<1>3. start = Nearest(s, first)
  BY <1>1, <1>2, HealedTailIsShortest DEF Nearest
<1>4. start \in 1..Len(s) + 1 /\ Orphans(s, start) = {}
  <2>1. Nearest(s, first) \in 1..first /\ Orphans(s, Nearest(s, first)) = {}
    BY <1>1, <1>2, NearestProperty
  <2> QED
    BY <1>2, <1>3, <2>1
<1>5. Orphans(s, 1) = {}
  BY <1>1, WholeHasNoOrphan
<1> DEFINE dropped == Dropped(s, run.name, c)
<1>6. dropped = IF memory[run.name] = {} \/ start > Len(s) THEN 0 ELSE start - 1
  BY DEF Dropped, first
<1> HIDE DEF start, dropped
<1>7. Len(s) \in Nat /\ Len(s) > 0
  BY <1>1
<1>8. dropped < Len(s) /\ Orphans(s, dropped + 1) = {}
  <2>1. CASE dropped = 0
    BY <1>5, <1>7, <2>1
  <2>2. CASE dropped = start - 1 /\ start <= Len(s)
    <3>1. start - 1 < Len(s) /\ start - 1 + 1 = start
      BY <1>4, <1>7, <2>2
    <3> QED
      BY <1>4, <2>2, <3>1
  <2> QED
    BY <1>4, <1>6, <1>7, <2>1, <2>2
<1> QED
  BY <1>8 DEF dropped, s, c

-------------------------------------------------------------------------------
(* Theorems.                                                               *)

(* The invariant holds in every state. *)
THEOREM InvariantHolds == Spec => []IInv
<1>1. Init => IInv
  BY InitIInv
<1>2. IInv /\ [Next]_vars => IInv'
  BY NextIInv
<1> QED
  BY <1>1, <1>2, PTL DEF Spec

(* Whatever a session's cursor has passed over was folded into a memory,   *)
(* and is there or was lost by a failing file or a deletion, for any       *)
(* number of sessions, names and tasks that share the memories.            *)
THEOREM CursorStaysBehind == Spec => []ObservedIsRemembered
<1>1. IInv => ObservedIsRemembered
  <2> SUFFICES ASSUME IInv, NEW s \in Sessions, cursor[s] \in IdsOf(items[s]),
                      NEW i \in 1..FirstBehind(items[s], cursor[s]) - 1
               PROVE  \E n \in Names : \E rev \in 0..MaxEdits :
                        [id |-> items[s][i].id, rev |-> rev] \in memory[n] \union lost[n]
    BY DEF IInv, ObservedIsRemembered
  <2> DEFINE rows == items[s]
             c    == cursor[s]
  <2>1. rows \in Seq(ItemRows) /\ Increasing(rows)
    BY DEF IInv, TypeOK, IdsOK
  <2>2. c \in IdsOf(rows) => c \in Nat
    BY <2>1, RowType DEF IdsOf
  <2>3. Upto(rows, Kept, c, {})
    BY <2>2 DEF IInv, CursorsOK
  <2> HIDE DEF rows
  <2>4. PICK j \in DOMAIN rows : rows[j].id = c /\ FirstBehind(rows, c) = j + 1
    BY DEF FirstBehind, IdsOf, rows
  <2>5. i \in DOMAIN rows /\ i <= j
    BY <2>1, <2>4 DEF rows
  <2>6. rows[i].id <= c
    <3>1. i = j \/ rows[i].id < rows[j].id
      BY <2>1, <2>4, <2>5 DEF Increasing
    <3> QED
      BY <2>1, <2>4, <2>5, <3>1, RowType
  <2> QED
    BY <2>3, <2>5, <2>6 DEF Upto, Remembered, rows, Kept
<1> QED
  BY <1>1, InvariantHolds, PTL

(* What a memory says when a task writes is what that has read, for any    *)
(* number of tasks, unless the agent was deleted in between or the read    *)
(* failed.                                                                 *)
THEOREM LockIsHeld == Spec => []NoLostUpdate
<1>1. IInv => NoLostUpdate
  BY DEF IInv
<1> QED
  BY <1>1, InvariantHolds, PTL

(* Nothing that a memory stands for goes but by a write after a failed     *)
(* read, a failed or killed write, or the deletion of its agent.           *)
THEOREM NothingIsForgotten == Spec => MemoryIsKept
<1>1. IInv /\ [Next]_vars => [\A n \in Names : memory[n] \subseteq memory'[n] \union lost'[n]]_vars
  BY MemoryStep DEF NothingVanishes
<1> QED
  BY <1>1, InvariantHolds, PTL DEF Spec, MemoryIsKept

(* Every prompt has the call of each of its outputs, is not empty, and     *)
(* reaches no further back from where it was cut than that takes.          *)
THEOREM PromptsStayPaired == Spec => []PromptsArePaired
<1>1. IInv => PromptsArePaired
  <2> SUFFICES ASSUME IInv, run # NoRun
               PROVE  LET dropped == Dropped(run.items, run.name, cursor[run.session])
                      IN /\ dropped < Len(run.items) /\ Orphans(run.items, dropped + 1) = {}
                         /\ \A start \in 1..Len(run.items) + 1 :
                              Heal(run.items, start) = Max({i \in 1..start : Orphans(run.items, i) = {}})
    BY DEF PromptsArePaired
  <2>1. run.items \in Seq(ItemRows) /\ Increasing(run.items) /\ Paired(run.items)
    BY DEF IInv, TypeOK, RunOK
  <2>2. \A start \in 1..Len(run.items) + 1 :
          Heal(run.items, start) = Max({i \in 1..start : Orphans(run.items, i) = {}})
    BY <2>1, HealedTailIsShortest
  <2> QED
    BY <2>2, PromptIsPaired DEF IInv
<1> QED
  BY <1>1, InvariantHolds, PTL

===============================================================================
