-------------------------------- MODULE Memory --------------------------------
(***************************************************************************)
(* Observational memory: src/app/services/memory/observe_use_case.py, the  *)
(* observer and reflector subscribers, POST /sessions/{id}/summarize, the  *)
(* lock service, and what the runner does with the memory when it builds a *)
(* provider request (_select_unobserved_items).                            *)
(*                                                                         *)
(* The memory of an agent name is a file, memory.md; it is shared by every *)
(* session whose root has that name.  A session has a cursor, the last     *)
(* item of its root that an observation has folded into a memory.  One     *)
(* run at a time holds SQLite's write lock; observations work on what is   *)
(* committed, and wait for a language model while runs come and go.        *)
(*                                                                         *)
(* What a text says is abstracted to the items that it stands for, and     *)
(* a language model keeps all of that.  The file system does not: a        *)
(* memory.md that cannot be read counts as absent, a write that fails or   *)
(* is killed leaves part of a text, and DELETE /agents/{name} removes the  *)
(* file.  The root's items are those the code distinguishes; "Wrong:" is   *)
(* as in module Runner.                                                    *)
(***************************************************************************)
EXTENDS Naturals, Sequences, FiniteSetsExt

CONSTANTS Sessions,
          Names,        \* agent names, one memory.md each
          Tasks,        \* bound: observations and reflections at a time
          None,
          MaxItems,     \* bound: items ever created
          MaxEdits      \* bound: edits of one user message

ASSUME MemoryAssumption ==
  /\ None \notin Sessions \union Names \union Tasks \union Nat
  /\ MaxItems \in Nat /\ MaxEdits \in Nat

VARIABLES name,      \* committed agent_name of each session's root agent;
                     \* None before its first run, and when its row is deleted
          items,     \* committed items of the root, by sequence
          cursor,    \* committed last_observed_item_id
          memory,    \* what each memory.md stands for
          lost,      \* what it no longer stands for, by a failure of the
                     \* file system or a deletion: a history variable
          deleting,  \* names whose rows are deleted, but not their folder
          run,       \* the run that is going: its session, and its rows
          task,      \* background tasks and summarize requests
          lock,      \* LockService: the task that holds a name's lock
          last       \* the last item id that was given out

files == <<memory, lost, deleting>>
vars  == <<name, items, cursor, memory, lost, deleting, run, task, lock, last>>

(* An item has the text of its latest edit; an output names its call. *)
Texts    == [id : 1..MaxItems, rev : 0..MaxEdits]
ItemRows == [id : 1..MaxItems, rev : 0..MaxEdits,
             type : {"user", "text", "call", "output"}, call : 0..MaxItems]

Item(id, type, call) == [id |-> id, rev |-> 0, type |-> type, call |-> call]

Text(item)  == [id |-> item.id, rev |-> item.rev]
TextsOf(s)  == {Text(s[i]) : i \in DOMAIN s}
IdsOf(s)    == {s[i].id : i \in DOMAIN s}
OpenCall(s) == s # <<>> /\ s[Len(s)].type = "call"

NoRun == [session |-> None, name |-> None, items |-> <<>>]

(* A task runs for a session under an agent name; seen is the cursor that  *)
(* it has read, batch the unobserved items, read the memory's content; it  *)
(* is blind when the file was there and could not be read.                 *)
Idle   == [phase |-> "idle", session |-> None, name |-> None, forced |-> FALSE,
           seen |-> None, batch |-> <<>>, read |-> {}, blind |-> FALSE]
Phases == {"idle", "scheduled", "waiting", "observing", "toReflect", "reflecting"}

Init ==
  /\ name   = [s \in Sessions |-> None]
  /\ items  = [s \in Sessions |-> <<>>]
  /\ cursor = [s \in Sessions |-> None]
  /\ memory = [n \in Names |-> {}]
  /\ lost   = [n \in Names |-> {}]
  /\ deleting = {}
  /\ run    = NoRun
  /\ task   = [t \in Tasks |-> Idle]
  /\ lock   = [n \in Names |-> None]
  /\ last   = 0

-------------------------------------------------------------------------------
(* The items behind a cursor.                                              *)

(* Where the items behind the cursor start; a cursor that names no item of *)
(* the list counts for nothing.                                            *)
FirstBehind(s, c) ==
  IF c \in IdsOf(s) THEN (CHOOSE i \in DOMAIN s : s[i].id = c) + 1 ELSE 1

(* _collect_unobserved. *)
Unobserved(s, c) == SubSeq(s, FirstBehind(s, c), Len(s))

HasCall(s, i, from) == \E j \in from..Len(s) : s[j].type = "call" /\ s[j].id = s[i].call
Orphans(s, from)    == {i \in from..Len(s) : s[i].type = "output" /\ ~HasCall(s, i, from)}

(* Wrong: the cut is left where it is. *)
HealNot(s, start) == start

(* _heal_orphan_tool_outputs: the start of the tail moves down to the call *)
(* of its first orphaned output, until there is no orphan.                 *)
Heal(s, start) ==
  LET heal[from \in 1..Len(s) + 1] ==
        IF Orphans(s, from) = {} THEN from
        ELSE LET calls == {j \in 1..from - 1 :
                             s[j].type = "call" /\ s[j].id = s[Min(Orphans(s, from))].call}
             IN IF calls = {} THEN 1 ELSE heal[Max(calls)]
  IN heal[start]

(* _select_unobserved_items: how many items, from the first, the prompt    *)
(* leaves out.  A prompt is never empty.                                   *)
Dropped(s, n, c) ==
  LET start == Heal(s, FirstBehind(s, c))
  IN IF memory[n] = {} \/ start > Len(s) THEN 0 ELSE start - 1

-------------------------------------------------------------------------------
(* Runs of a root agent.                                                   *)

(* A user message; the caller may name another agent.  A root whose last   *)
(* item is a call without an output was cancelled, if it does not wait.    *)
(* Nothing starts in a session whose root agent's row has been deleted.    *)
StartChat(s, n) ==
  /\ run = NoRun /\ (name[s] # None \/ items[s] = <<>>)
  /\ last < MaxItems
  /\ last' = last + 1
  /\ run' = [session |-> s, name |-> n, items |-> Append(items[s], Item(last', "user", 0))]
  /\ UNCHANGED <<name, items, cursor, files, task, lock>>

(* The answer to the call that a waiting root has left open. *)
StartDelivery(s) ==
  /\ run = NoRun /\ name[s] # None /\ OpenCall(items[s])
  /\ last < MaxItems
  /\ last' = last + 1
  /\ run' = [session |-> s, name |-> name[s],
             items |-> Append(items[s], Item(last', "output", items[s][Len(items[s])].id))]
  /\ UNCHANGED <<name, items, cursor, files, task, lock>>

(* A user message gets another text, and what is behind it is deleted. *)
StartEdit(s, i) ==
  /\ run = NoRun /\ name[s] # None
  /\ items[s][i].type = "user" /\ items[s][i].rev < MaxEdits
  /\ run' = [session |-> s, name |-> name[s],
             items |-> [SubSeq(items[s], 1, i) EXCEPT ![i].rev = @ + 1]]
  /\ UNCHANGED <<name, items, cursor, files, task, lock, last>>

(* What one turn can add: a final answer, a call with its output, a call   *)
(* that is left open.                                                      *)
TurnItems ==
  {<<Item(last + 1, "text", 0)>>, <<Item(last + 1, "call", 0)>>,
   <<Item(last + 1, "call", 0), Item(last + 2, "output", last + 1)>>}

(* A turn of the run completes, and its event schedules an observation,    *)
(* unless all of Tasks are in use.                                         *)
CompleteTurn ==
  /\ run # NoRun /\ run.items[Len(run.items)].type \in {"user", "output"}
  /\ \E new \in TurnItems :
       /\ last + Len(new) <= MaxItems
       /\ last' = last + Len(new)
       /\ run' = [run EXCEPT !.items = @ \o new]
  /\ \/ \E t \in Tasks :
          /\ task[t] = Idle
          /\ task' = [task EXCEPT ![t] = [Idle EXCEPT !.phase = "scheduled", !.session = run.session]]
     \/ (\A t \in Tasks : task[t] # Idle) /\ UNCHANGED task
  /\ UNCHANGED <<name, items, cursor, files, lock>>

(* The run has come to an end, also by failing or being cancelled. *)
CommitRun ==
  /\ run # NoRun
  /\ name'  = [name EXCEPT ![run.session] = run.name]
  /\ items' = [items EXCEPT ![run.session] = run.items]
  /\ run'   = NoRun
  /\ UNCHANGED <<cursor, files, task, lock, last>>

(* It raised, or its client disconnected. *)
RollbackRun ==
  /\ run # NoRun
  /\ run' = NoRun
  /\ UNCHANGED <<name, items, cursor, files, task, lock, last>>

-------------------------------------------------------------------------------
(* The files.                                                              *)

(* A memory.md gets a content, and by a failure it loses the rest.         *)
Put(n, content) ==
  /\ memory' = [memory EXCEPT ![n] = content]
  /\ lost'   = [lost EXCEPT ![n] = @ \ content]
Lose(n, content) ==
  /\ memory' = [memory EXCEPT ![n] = content]
  /\ lost'   = [lost EXCEPT ![n] = (@ \union memory[n]) \ content]

(* What a task writes.  write_text truncates the file first: when it fails *)
(* or is killed, the file has some front part of that.                     *)
Written(job) == job.read \union TextsOf(job.batch)
Fronts(job)  == (SUBSET job.read) \union {job.read \union part : part \in SUBSET TextsOf(job.batch)}
CutWrite(t)  == \E part \in Fronts(task[t]) : Lose(task[t].name, part)

(* DELETE /agents/{name}: the rows of the agents of that name, for which   *)
(* no run may hold the write lock, and then the folder; no memory lock is  *)
(* asked for.                                                              *)
DeleteRows(n) ==
  /\ run = NoRun /\ n \notin deleting
  /\ name' = [s \in Sessions |-> IF name[s] = n THEN None ELSE name[s]]
  /\ deleting' = deleting \union {n}
  /\ UNCHANGED <<items, cursor, memory, lost, run, task, lock, last>>

DeleteFolder(n) ==
  /\ n \in deleting
  /\ Lose(n, {})
  /\ deleting' = deleting \ {n}
  /\ UNCHANGED <<name, items, cursor, run, task, lock, last>>

-------------------------------------------------------------------------------
(* Observations.                                                           *)

SetTask(t, to) == task' = [task EXCEPT ![t] = to]
Release(n)     == lock' = [lock EXCEPT ![n] = None]

(* Somebody else may be about to take the lock: asyncio hands it to those  *)
(* that wait, and a reflection can be among them.                          *)
MayWait(n)  == \E t \in Tasks : task[t].phase \in {"waiting", "toReflect"} /\ task[t].name = n
MustWait(n) == \E t \in Tasks : task[t].phase = "waiting" /\ task[t].name = n

(* The lock is acquired: the items are listed, and compared with the       *)
(* cursor that was read before.  What counts as too few is up to the       *)
(* token counter; a forced observation takes any.  A memory.md that cannot *)
(* be read counts for one that is not there.                               *)
WithLock(t, job) ==
  LET batch == Unobserved(items[job.session], job.seen)
  IN \/ /\ batch # <<>>
        /\ lock' = [lock EXCEPT ![job.name] = t]
        /\ \E blind \in BOOLEAN :
             /\ blind => memory[job.name] # {}
             /\ SetTask(t, [Idle EXCEPT !.phase = "observing", !.session = job.session,
                                        !.name = job.name, !.batch = batch, !.blind = blind,
                                        !.read = IF blind THEN {} ELSE memory[job.name]])
     \/ /\ batch = <<>> \/ ~job.forced
        /\ SetTask(t, Idle)
        /\ UNCHANGED lock

(* Wrong: the lock is not looked at. *)
BeginUnlocked(t, s, forced) ==
  WithLock(t, [Idle EXCEPT !.session = s, !.name = name[s], !.forced = forced, !.seen = cursor[s]])

(* _execute_with_session up to the lock: the rows are read.  An agent that *)
(* is not committed, or was deleted, is skipped.                           *)
Begin(t, s, forced) ==
  LET job == [Idle EXCEPT !.session = s, !.name = name[s], !.forced = forced, !.seen = cursor[s]]
  IN \/ name[s] = None /\ SetTask(t, Idle) /\ UNCHANGED lock
     \/ /\ name[s] # None /\ lock[job.name] = None /\ ~MustWait(job.name)
        /\ WithLock(t, job)
     \/ /\ name[s] # None
        /\ IF lock[job.name] # None THEN forced ELSE MayWait(job.name)
        /\ SetTask(t, [job EXCEPT !.phase = "waiting"])
        /\ UNCHANGED lock
     \/ /\ name[s] # None /\ lock[job.name] # None /\ ~forced
        /\ SetTask(t, Idle)
        /\ UNCHANGED lock

(* POST /sessions/{id}/summarize. *)
Summarize(t, s) ==
  /\ task[t] = Idle /\ name[s] # None
  /\ Begin(t, s, TRUE)
  /\ UNCHANGED <<name, items, cursor, files, run, last>>

(* The task that a turn has scheduled gets its turn. *)
Observe(t) ==
  /\ task[t].phase = "scheduled"
  /\ Begin(t, task[t].session, FALSE)
  /\ UNCHANGED <<name, items, cursor, files, run, last>>

Acquire(t) ==
  /\ task[t].phase = "waiting" /\ lock[task[t].name] = None
  /\ WithLock(t, task[t])
  /\ UNCHANGED <<name, items, cursor, files, run, last>>

(* Wrong: the cursor is saved before the memory is written. *)
ObservationFailsLate(t) ==
  /\ task[t].phase = "observing"
  /\ run = NoRun
  /\ cursor' = [cursor EXCEPT ![task[t].session] = task[t].batch[Len(task[t].batch)].id]
  /\ SetTask(t, Idle) /\ Release(task[t].name)
  /\ UNCHANGED <<name, items, files, run, last>>

(* The model fails, or the memory cannot be read or written; it may be     *)
(* left cut.                                                               *)
ObservationFails(t) ==
  /\ task[t].phase = "observing"
  /\ UNCHANGED <<memory, lost>> \/ CutWrite(t)
  /\ SetTask(t, Idle) /\ Release(task[t].name)
  /\ UNCHANGED <<name, items, cursor, deleting, run, last>>

(* The memory is written, what was read with the new behind it: all over   *)
(* again, when it could not be read.  Then the cursor is saved.  The save  *)
(* fails when a run holds the write lock: the memory stays as written.     *)
(* The event of a success schedules a reflection.                          *)
ObservationReturns(t) ==
  /\ task[t].phase = "observing"
  /\ LET job == task[t]
     IN /\ IF job.blind THEN Lose(job.name, Written(job)) ELSE Put(job.name, Written(job))
        /\ Release(job.name)
        /\ \/ /\ run = NoRun
              /\ cursor' = [cursor EXCEPT ![job.session] = job.batch[Len(job.batch)].id]
              /\ SetTask(t, [Idle EXCEPT !.phase = "toReflect", !.name = job.name])
           \/ /\ run # NoRun
              /\ SetTask(t, Idle)
              /\ UNCHANGED cursor
  /\ UNCHANGED <<name, items, deleting, run, last>>

-------------------------------------------------------------------------------
(* Reflections.                                                            *)

(* Wrong: a reflection takes no lock. *)
ReflectUnlocked(t) ==
  /\ task[t].phase = "toReflect" /\ memory[task[t].name] # {}
  /\ SetTask(t, [task[t] EXCEPT !.phase = "reflecting", !.read = memory[task[t].name]])
  /\ UNCHANGED <<name, items, cursor, files, run, lock, last>>

(* The lock is acquired; a memory that is short, or cannot be read, is     *)
(* left alone.                                                             *)
Reflect(t) ==
  /\ task[t].phase = "toReflect" /\ lock[task[t].name] = None
  /\ \/ /\ memory[task[t].name] # {}
        /\ SetTask(t, [task[t] EXCEPT !.phase = "reflecting", !.read = memory[task[t].name]])
        /\ lock' = [lock EXCEPT ![task[t].name] = t]
     \/ /\ SetTask(t, Idle)
        /\ UNCHANGED lock
  /\ UNCHANGED <<name, items, cursor, files, run, last>>

(* The file is replaced by the shorter text, or left alone: the model      *)
(* failed, or its text is empty or no shorter.  The write may fail.        *)
ReflectionReturns(t) ==
  /\ task[t].phase = "reflecting"
  /\ Put(task[t].name, Written(task[t])) \/ UNCHANGED <<memory, lost>> \/ CutWrite(t)
  /\ SetTask(t, Idle) /\ Release(task[t].name)
  /\ UNCHANGED <<name, items, cursor, deleting, run, last>>

(* The server is killed, perhaps at a write, and started again. *)
Restart ==
  /\ \/ UNCHANGED <<memory, lost>>
     \/ \E t \in Tasks : task[t].phase \in {"observing", "reflecting"} /\ CutWrite(t)
  /\ deleting' = {}
  /\ run'  = NoRun
  /\ task' = [t \in Tasks |-> Idle]
  /\ lock' = [n \in Names |-> None]
  /\ UNCHANGED <<name, items, cursor, last>>

-------------------------------------------------------------------------------
Proceed(t) ==
  \/ Observe(t) \/ Acquire(t) \/ ObservationFails(t) \/ ObservationReturns(t)
  \/ Reflect(t) \/ ReflectionReturns(t)

Next ==
  \/ \E s \in Sessions :
       \/ \E n \in Names : StartChat(s, n)
       \/ StartDelivery(s)
       \/ \E i \in DOMAIN items[s] : StartEdit(s, i)
       \/ \E t \in Tasks : Summarize(t, s)
  \/ CompleteTurn \/ CommitRun \/ RollbackRun
  \/ \E t \in Tasks : Proceed(t)
  \/ \E n \in Names : DeleteRows(n) \/ DeleteFolder(n)
  \/ Restart

Spec == Init /\ [][Next]_vars

-------------------------------------------------------------------------------
(* Every variable has its type. *)
TypeOK ==
  /\ name \in [Sessions -> Names \union {None}]
  /\ items \in [Sessions -> Seq(ItemRows)]
  /\ cursor \in [Sessions -> 1..MaxItems \union {None}]
  /\ memory \in [Names -> SUBSET Texts] /\ lost \in [Names -> SUBSET Texts]
  /\ deleting \in SUBSET Names
  /\ run \in [session : Sessions \union {None}, name : Names \union {None}, items : Seq(ItemRows)]
  /\ task \in [Tasks -> [phase : Phases, session : Sessions \union {None},
                         name : Names \union {None}, forced : BOOLEAN,
                         seen : 1..MaxItems \union {None}, batch : Seq(ItemRows),
                         read : SUBSET Texts, blind : BOOLEAN]]
  /\ lock \in [Names -> Tasks \union {None}]
  /\ last \in 0..MaxItems

(* A session's cursor never gets ahead of the memory: every item up to it  *)
(* was folded into some memory.md, and is there, or among what that lost   *)
(* by an unreadable or cut file or its deletion; however observations,     *)
(* their failures, reflections, runs, edits and restarts come in between.  *)
ObservedIsRemembered ==
  /\ TypeOK
  /\ \A s \in Sessions : cursor[s] \in IdsOf(items[s]) =>
       \A i \in 1..FirstBehind(items[s], cursor[s]) - 1 :
         \E n \in Names : \E rev \in 0..MaxEdits :
           [id |-> items[s][i].id, rev |-> rev] \in memory[n] \union lost[n]

(* The lock makes read, model call and write of a memory.md one step: what *)
(* its holder has read is still what the file says, unless the agent was   *)
(* deleted meanwhile or the file could not be read.                        *)
NoLostUpdate ==
  \A t \in Tasks : task[t].phase \in {"observing", "reflecting"} =>
    /\ lock[task[t].name] = t
    /\ memory[task[t].name] \in {task[t].read, {}} \/ task[t].blind

(* The prompt of a turn has the call of every output in it, and it never   *)
(* leaves out the last item (a call from before the cursor may get its     *)
(* output after it).  From wherever it is cut, the tail that is sent is    *)
(* the shortest one that reaches back so far and has no orphan.            *)
PromptsArePaired ==
  run # NoRun =>
    LET dropped == Dropped(run.items, run.name, cursor[run.session])
    IN /\ dropped < Len(run.items) /\ Orphans(run.items, dropped + 1) = {}
       /\ \A start \in 1..Len(run.items) + 1 :
            Heal(run.items, start) = Max({i \in 1..start : Orphans(run.items, i) = {}})

(* What a memory stands for is kept by every step but these: a write of a  *)
(* memory.md that could not be read before, a write that fails or is       *)
(* killed, and the removal of the agent's folder.                          *)
MemoryIsKept == [][\A n \in Names : memory[n] \subseteq memory'[n] \union lost'[n]]_vars

===============================================================================
