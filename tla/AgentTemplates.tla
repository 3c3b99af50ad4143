---------------------------- MODULE AgentTemplates ----------------------------
(***************************************************************************)
(* The templates of agents: one folder <name>/<name>.agent.md per agent in *)
(* the workspace of the user, written by the routes of /agents, seeded     *)
(* from default_agents/ by every request that needs the workspace, and     *)
(* read when a chat resolves its agent; together with the rows of sessions *)
(* and root agents that the chats commit, a deletion removes and the       *)
(* session lists read.                                                     *)
(*                                                                         *)
(* The routes are plain functions: the server runs them in threads, so a   *)
(* request may stop between any two system calls.  A chat runs on the      *)
(* event loop, its run between two transactions.  SQLite has one writer: a *)
(* transaction that has flushed holds the lock until it ends.              *)
(***************************************************************************)
EXTENDS Naturals, Sequences, FiniteSets, SequencesExt

CONSTANTS
    Names,       \* names that pass _validate_name, and those of the seeds
    Default,     \* settings.DEFAULT_AGENT
    Seeds,       \* the folders of default_agents/
    Shipped,     \* what the file of a seed says
    Sessions,    \* the ids of sessions that chats may make
    Requests,    \* the requests that the server handles at a time
    Payloads,    \* what clients save: [desc |-> text or None, tools |-> texts, prompt |-> text]
    MaxInode,    \* bound on the files in use at a time
    MaxOps,      \* bound on the requests ever made
    MaxCrashes,  \* bound on the crashes of the server
    None,        \* no name, file, session or answer
    Empty,       \* the content of a file that is opened for writing
    Torn         \* the content that two writers of one file leave

ASSUME SeedsAreNamed == Seeds \subseteq Names /\ Default \in Names

\* There is a file for every name and every request: the disk is not full.
ASSUME InodesSuffice ==
    /\ IsFiniteSet(Names) /\ IsFiniteSet(Requests)
    /\ MaxInode \in Nat /\ MaxInode >= 2 * Cardinality(Names) + Cardinality(Requests)

VARIABLES
    folder,    \* the names whose folder exists
    file,      \* the file of a name: "md", the template, and "tmp"
    data,      \* the content of a file, by inode
    session,   \* a committed session: "absent", "rootless" or "rooted"
    row,       \* the agent_name of a session's root agent, if its row exists
    lock,      \* the request whose transaction holds the write lock
    req,       \* where each request is, and what it works on
    saved,     \* (history) what the last complete save of a name wrote
    clash,     \* (history) names whose files two requests worked on at a time
    late,      \* (history) names of which a run has outlasted the deletion
    ops,       \* requests made so far
    crashes    \* crashes so far

vars == <<folder, file, data, session, row, lock, req, saved, clash, late, ops, crashes>>
disk == <<folder, file, data>>
rows == <<session, row>>
bounds == <<ops, crashes>>

(***************************************************************************)
(* The file of a template.  A text is a sequence of characters: "sp" is a  *)
(* blank, "nl" a line end.  The other characters at which splitlines cuts, *)
(* and line ends in the name of a tool, are left out.                      *)
(***************************************************************************)
Quote == "dq"
Special == {":", "#", Quote, "sq", "nl", "bs"}
Escaped(c) == CASE c = Quote -> <<"bs", Quote>> [] c = "bs" -> <<"bs", "bs">>
                [] c = "nl" -> <<"bs", "n">>    [] OTHER -> <<c>>

\* _quote_if_needed: a value with a special character is escaped and quoted.
QuoteIfNeeded(v) ==
    IF ToSet(v) \intersect Special = {} THEN v
    ELSE <<Quote>> \o FlattenSeq([i \in DOMAIN v |-> Escaped(v[i])]) \o <<Quote>>

\* render_agent_frontmatter, and the prompt behind it: no description is an empty line.
Rendered(p) == [desc |-> IF p.desc = None THEN <<>> ELSE QuoteIfNeeded(p.desc),
                tools |-> p.tools, prompt |-> p.prompt]

\* str.strip
Stripped(v) == LET ink == {i \in DOMAIN v : v[i] \notin {"sp", "nl"}} IN
    IF ink = {} THEN <<>> ELSE SubSeq(v, Min(ink), Max(ink))

Quoted(v) == Len(v) >= 2 /\ v[1] = v[Len(v)] /\ v[1] \in {Quote, "sq"}

(* Wrong: \" stays as it is.                                               *)
UnquoteKeepingBackslash(v) ==
    LET s == Stripped(v) IN IF Quoted(s) THEN SubSeq(s, 2, Len(s) - 1) ELSE s

\* _unquote: only a quote of its own kind is turned back, \\ and \n are not.
Unquote(v) ==
    LET s == Stripped(v)
        inner == SubSeq(s, 2, Len(s) - 1)
        Dropped(i) == i < Len(inner) /\ inner[i] = "bs" /\ inner[i + 1] = s[1]
        Piece(i) == IF Dropped(i) THEN <<>> ELSE <<inner[i]>>
    IN IF Quoted(s) THEN FlattenSeq([i \in DOMAIN inner |-> Piece(i)]) ELSE s

\* _parse_frontmatter: a tool that is blank ends the list of the tools.
ToolsRead(ts) ==
    LET blank == {i \in DOMAIN ts : Stripped(ts[i]) = <<>>}
        end == IF blank = {} THEN Len(ts) ELSE Min(blank) - 1
    IN [i \in 1..end |-> Stripped(ts[i])]

\* "or None": an empty value is none.
Given(v) == IF v = <<>> THEN None ELSE v

\* load_agent_template on a content; an empty file is a template without any text.
Parsed(c) == IF c \in {Empty, Torn} THEN c
             ELSE [desc |-> Given(Unquote(c.desc)), tools |-> ToolsRead(c.tools),
                   prompt |-> Stripped(c.prompt)]

(***************************************************************************)
(* Requests.                                                               *)
(***************************************************************************)
Idle == [pc |-> "idle", op |-> None, name |-> None, at |-> None, text |-> None,
         todo |-> {}, fd |-> None, ses |-> None, got |-> None]

Saving == {"create", "update"}
Chats  == {"chat", "turn"}
Ops    == Saving \union Chats \union {"get", "delete", "by_agent", "list", "sessions", "detail"}

ASSUME NoneIsNothing == None \notin Names \union Sessions \union Requests \union Ops \union Nat

NoFiles == [md |-> None, tmp |-> None]
HasFile(n) == n \in folder /\ file[n].md # None
Linked == {file[n].md : n \in Names} \union {file[n].tmp : n \in Names}
Used == Linked \union {req[r].fd : r \in Requests}
NewInode == CHOOSE i \in 1..MaxInode : i \notin Used

Goto(r, pc) == req' = [req EXCEPT ![r].pc = pc]
End(r) == req' = [req EXCEPT ![r] = Idle]
Reply(r, got) == req' = [req EXCEPT ![r] = [Idle EXCEPT !.pc = "reply", !.op = req[r].op, !.got = got]]

Init ==
    /\ folder = {}
    /\ file = [n \in Names |-> NoFiles]
    /\ data = [i \in 1..MaxInode |-> Empty]
    /\ session = [s \in Sessions |-> "absent"]
    /\ row = [s \in Sessions |-> None]
    /\ lock = None
    /\ req = [r \in Requests |-> Idle]
    /\ saved = [n \in Names |-> None]
    /\ clash = {} /\ late = {}
    /\ ops = 0 /\ crashes = 0

\* A request comes in with a name and a payload that pass the validation.
Begin(r, new) ==
    /\ req[r].pc = "idle" /\ ops < MaxOps
    /\ ops' = ops + 1
    /\ req' = [req EXCEPT ![r] = new]
    /\ UNCHANGED <<disk, rows, lock, saved, clash, late, crashes>>

Ensuring(op, n) == [Idle EXCEPT !.op = op, !.pc = "ensure", !.name = n, !.todo = Seeds]
Selecting(op, s) == [Idle EXCEPT !.op = op, !.pc = "select", !.ses = s]

Save(r, op, n, p) == op \in Saving /\ Begin(r, [Ensuring(op, n) EXCEPT !.text = p])
Visit(r, op, n) == op \in {"get", "delete", "by_agent"} /\ Begin(r, Ensuring(op, n))
ListAgents(r) == Begin(r, Ensuring("list", None))
ListSessions(r) == Begin(r, Selecting("sessions", None))
ShowSession(r, s) == session[s] # "absent" /\ Begin(r, Selecting("detail", s))

\* A chat of a session with no other in it.  A chat with an agent_config names its
\* agent, one without has the default.
Chat(r, op, n, s) ==
    /\ op = "turn" => n = Default
    /\ \A o \in Requests : req[o].ses = s => req[o].op = "detail"
    /\ Begin(r, [Ensuring(op, n) EXCEPT
                   !.pc = IF session[s] = "absent" THEN "begin" ELSE "resolve", !.ses = s])

(***************************************************************************)
(* _agents_dir: the folders of the workspace, and a copy of every seed     *)
(* whose folder is absent.  copytree makes the folder, then copies the     *)
(* file; a folder that has come in between, and an error, are passed over. *)
(***************************************************************************)
AfterEnsure(r) ==
    CASE req[r].op = "list" -> "scan" [] req[r].op = "chat" -> "commit_new"
      [] req[r].op = "turn" -> "commit_new" [] OTHER -> "check"

Seed(r) ==
    /\ req[r].pc = "ensure"
    /\ \E n \in req[r].todo \ folder :
         /\ folder' = folder \union {n}
         /\ req' = [req EXCEPT ![r].todo = @ \ {n}, ![r].pc = "copy", ![r].at = n]
    /\ UNCHANGED <<file, data, rows, lock, saved, clash, late, bounds>>

\* The workspace is there, or its seeds have been tried.
Ensured(r) ==
    /\ req[r].pc = "ensure" /\ req[r].todo \subseteq folder
    /\ req' = [req EXCEPT ![r].pc = AfterEnsure(r), ![r].at = req[r].name,
                          ![r].todo = IF req[r].op = "list" THEN folder ELSE {}]
    /\ UNCHANGED <<disk, rows, lock, saved, clash, late, bounds>>

(***************************************************************************)
(* Saving.  A create, as the copy of a seed, writes the template itself,   *)
(* an update a second file that replaces it.  History: two requests clash  *)
(* on a name if one reaches its file while the other, past its checks, is  *)
(* not done with it: an update and any other save or seeding, a deletion   *)
(* and any of them.  Those that make the name, creates and seedings, do    *)
(* not clash with each other.                                              *)
(***************************************************************************)
Copying == {"copy", "copying"}
Making(o) == req[o].pc \in Copying \/ (req[o].op = "create" /\ req[o].pc \in {"open", "write"})
Working(o) == req[o].pc \in Copying \union {"open", "write", "replace", "unlink", "rmdir"}
Clash(r) ==
    clash' = clash \union {req[r].at : o \in {q \in Requests \ {r} :
                   req[q].at = req[r].at /\ Working(q) /\ ~(Making(r) /\ Making(q))}}

CheckAbsent(r) ==
    /\ req[r].pc = "check" /\ req[r].op = "create"
    /\ IF req[r].name \in folder THEN End(r) ELSE Goto(r, "mkdir")
    /\ UNCHANGED <<disk, rows, lock, saved, clash, late, bounds>>

\* mkdir(exist_ok=False): a folder that has come since the check is an error.
MakeFolder(r) ==
    /\ req[r].pc = "mkdir"
    /\ IF req[r].name \in folder THEN End(r) ELSE Goto(r, "open")
    /\ folder' = folder \union {req[r].name}
    /\ UNCHANGED <<file, data, rows, lock, saved, clash, late, bounds>>

CheckPresent(r) ==
    /\ req[r].pc = "check" /\ req[r].op \in {"update", "delete"}
    /\ IF req[r].name \notin folder THEN End(r)
       ELSE Goto(r, IF req[r].op = "update" THEN "open" ELSE "ids")
    /\ UNCHANGED <<disk, rows, lock, saved, clash, late, bounds>>

(* Wrong: an update writes the template itself.                            *)
WritesInPlace(r) == "md"

\* _write_agent_file: the file that write_text opens.
WrittenFile(r) == IF req[r].op = "update" /\ req[r].pc = "open" THEN "tmp" ELSE "md"

\* open() of write_text and of copytree: truncates what is there, fails
\* without the folder; an error ends the request, but not a seeding.
Open(r) ==
    LET n == req[r].at  k == WrittenFile(r)
        i == IF file[n][k] = None THEN NewInode ELSE file[n][k]
    IN  /\ req[r].pc \in {"copy", "open"}
        /\ IF n \in folder
           THEN /\ file' = [file EXCEPT ![n][k] = i]
                /\ data' = [data EXCEPT ![i] = Empty]
                /\ req' = [req EXCEPT ![r].fd = i,
                                      ![r].pc = IF @ = "copy" THEN "copying" ELSE "write"]
                /\ Clash(r) /\ UNCHANGED late
           ELSE /\ UNCHANGED <<file, data, clash, late>>
                /\ IF req[r].pc = "copy" THEN Goto(r, "ensure") ELSE End(r)
        /\ UNCHANGED <<folder, rows, lock, saved, bounds>>

\* The text goes to the file that was opened, whatever its name is now.
Write(r) ==
    LET i == req[r].fd
        seed == req[r].pc = "copying"
        text == IF seed THEN Shipped ELSE req[r].text
        next == IF seed THEN "ensure" ELSE IF req[r].op = "update" THEN "replace" ELSE "load"
    IN  /\ req[r].pc \in {"copying", "write"}
        /\ data' = [data EXCEPT ![i] = IF @ \in {Empty, Rendered(text)} THEN Rendered(text) ELSE Torn]
        /\ req' = [req EXCEPT ![r].pc = next, ![r].fd = None]
        /\ saved' = IF next = "replace" THEN saved ELSE [saved EXCEPT ![req[r].at] = text]
        /\ UNCHANGED <<folder, file, rows, lock, clash, late, bounds>>

\* os.replace: another update may have taken the second file away.
Replace(r) ==
    LET n == req[r].name IN
    /\ req[r].pc = "replace"
    /\ IF file[n].tmp = None
       THEN End(r) /\ UNCHANGED <<file, saved>>
       ELSE /\ file' = [file EXCEPT ![n] = [md |-> file[n].tmp, tmp |-> None]]
            /\ saved' = [saved EXCEPT ![n] = req[r].text]
            /\ Goto(r, "load")
    /\ UNCHANGED <<folder, data, rows, lock, clash, late, bounds>>

(***************************************************************************)
(* Reading: the reload that answers a save, get_template, list_templates.  *)
(***************************************************************************)
CheckFile(r) ==
    /\ req[r].pc = "check" /\ req[r].op \in {"get", "by_agent"}
    /\ IF HasFile(req[r].name) THEN Goto(r, "load") ELSE End(r)
    /\ UNCHANGED <<disk, rows, lock, saved, clash, late, bounds>>

Load(r) ==
    /\ req[r].pc = "load"
    /\ IF ~HasFile(req[r].name) THEN End(r)
       ELSE IF req[r].op = "by_agent" THEN Goto(r, "select")
       ELSE Reply(r, Parsed(data[file[req[r].name].md]))
    /\ UNCHANGED <<disk, rows, lock, saved, clash, late, bounds>>

\* One entry of the listing: a folder without its file is passed over.
ScanOne(r) ==
    /\ req[r].pc = "scan"
    /\ \/ \E n \in req[r].todo :
            req' = [req EXCEPT ![r].todo = @ \ {n},
                               ![r].got = IF HasFile(n) THEN Parsed(data[file[n].md]) ELSE @]
       \/ req[r].todo = {} /\ End(r)
    /\ UNCHANGED <<disk, rows, lock, saved, clash, late, bounds>>

(***************************************************************************)
(* Deleting: the rows of the agents of that name, in a transaction of      *)
(* their own, and then the folder, file by file.                           *)
(***************************************************************************)
Locked(r) == lock \notin {None, r}

SelectIds(r) ==
    /\ req[r].pc = "ids"
    /\ req' = [req EXCEPT ![r].pc = "rows", ![r].todo = {s \in Sessions : session[s] # "absent"}]
    /\ UNCHANGED <<disk, rows, lock, saved, clash, late, bounds>>

DeleteRows(r) ==
    /\ req[r].pc = "rows" /\ ~Locked(r)
    /\ row' = [s \in Sessions |-> IF s \in req[r].todo /\ row[s] = req[r].name THEN None ELSE row[s]]
    /\ Goto(r, "unlink")
    /\ UNCHANGED <<disk, session, lock, saved, clash, late, bounds>>

\* The names of the agents whose runs have found their template.
Running == {req[q].name : q \in {o \in Requests : req[o].pc \in {"save", "run"}}}

\* rmtree removes the files that it finds; an error leaves the rest.
\* History: a run that goes on outlasts the deletion.
Unlink(r) ==
    LET n == req[r].at IN
    /\ req[r].pc = "unlink"
    /\ \/ End(r) /\ UNCHANGED <<file, saved, clash, late>>
       \/ /\ n \in folder
          /\ file' = [file EXCEPT ![n] = NoFiles]
          /\ saved' = [saved EXCEPT ![n] = None]
          /\ Clash(r)
          /\ late' = late \union (Running \intersect {n})
          /\ Goto(r, "rmdir")
    /\ UNCHANGED <<folder, data, rows, lock, bounds>>

\* rmdir fails on a folder that has got a file again.
RemoveFolder(r) ==
    /\ req[r].pc = "rmdir"
    /\ folder' = IF file[req[r].at] = NoFiles THEN folder \ {req[r].at} ELSE folder
    /\ End(r)
    /\ UNCHANGED <<file, data, rows, lock, saved, clash, late, bounds>>

(***************************************************************************)
(* A chat.  _load_session commits a new session before its agent is known; *)
(* the row of the root agent is flushed before the run and committed after *)
(* it, so that the run holds the lock.                                     *)
(***************************************************************************)
NewSession(r) ==
    /\ req[r].pc = "begin" /\ ~Locked(r)
    /\ lock' = r
    /\ Goto(r, "ensure")
    /\ UNCHANGED <<disk, rows, saved, clash, late, bounds>>

CommitNew(r) ==
    /\ req[r].pc = "commit_new"
    /\ session' = [session EXCEPT ![req[r].ses] = "rootless"]
    /\ lock' = None
    /\ Goto(r, "resolve")
    /\ UNCHANGED <<disk, row, saved, clash, late, bounds>>

RootMissing(s) == session[s] = "rooted" /\ row[s] = None

\* _resolve_agent_config and the read of _resolve_session_root_agent: the
\* errors "Agent template not found" and "root agent not found".
Resolve(r) ==
    /\ req[r].pc = "resolve"
    /\ IF HasFile(req[r].name) /\ ~RootMissing(req[r].ses) THEN Goto(r, "save") ELSE End(r)
    /\ UNCHANGED <<disk, rows, lock, saved, clash, late, bounds>>

\* The flush of the row: an update that finds no row is an error.
SaveAgent(r) ==
    /\ req[r].pc = "save" /\ ~Locked(r)
    /\ IF RootMissing(req[r].ses) THEN End(r) /\ UNCHANGED lock
       ELSE Goto(r, "run") /\ lock' = r
    /\ UNCHANGED <<disk, rows, saved, clash, late, bounds>>

\* The names of the agents whose deletion removes no row that s gets now.
PastRows(s) ==
    {req[q].name : q \in {o \in Requests :
        req[o].pc = "unlink" \/ (req[o].pc = "rows" /\ s \notin req[o].todo)}}

\* The end of the run: commit, or rollback when an exception comes.  Only
\* an explicit config gives a root that exists another name.  History: the
\* row may come after a deletion has dealt with the rows.
EndRun(r) ==
    LET s == req[r].ses IN
    /\ req[r].pc = "run"
    /\ \/ /\ session' = [session EXCEPT ![s] = "rooted"]
          /\ row' = [row EXCEPT ![s] = IF req[r].op = "chat" \/ @ = None THEN req[r].name ELSE @]
          /\ late' = late \union (PastRows(s) \intersect {req[r].name})
       \/ UNCHANGED <<rows, late>>
    /\ lock' = None
    /\ End(r)
    /\ UNCHANGED <<disk, saved, clash, bounds>>

(* Wrong: the deletion goes on without its transaction.                    *)
LockTimeoutIgnored(r) ==
    /\ req[r].pc \in {"begin", "rows", "save"} /\ Locked(r)
    /\ IF req[r].pc = "rows" THEN Goto(r, "unlink") ELSE End(r)
    /\ UNCHANGED <<disk, rows, lock, saved, clash, late, bounds>>

\* "database is locked": the wait for the lock has an end.
LockTimeout(r) ==
    /\ req[r].pc \in {"begin", "rows", "save"} /\ Locked(r)
    /\ End(r)
    /\ UNCHANGED <<disk, rows, lock, saved, clash, late, bounds>>

(***************************************************************************)
(* The lists of sessions: one select, then each root agent.  "integrity"   *)
(* stands for a SessionQueryIntegrityError, which fails the whole list.    *)
(***************************************************************************)
Listed(r) ==
    {s \in Sessions : /\ session[s] # "absent"
                      /\ (req[r].op = "by_agent" => row[s] = req[r].name)
                      /\ (req[r].op = "detail" => s = req[r].ses)}

SelectSessions(r) ==
    /\ req[r].pc = "select"
    /\ IF \E s \in Listed(r) : session[s] = "rootless" THEN Reply(r, "integrity")
       ELSE req' = [req EXCEPT ![r].pc = "entries", ![r].todo = Listed(r)]
    /\ UNCHANGED <<disk, rows, lock, saved, clash, late, bounds>>

BuildEntry(r) ==
    /\ req[r].pc = "entries"
    /\ \/ \E s \in req[r].todo :
            IF row[s] = None THEN Reply(r, "integrity")
            ELSE req' = [req EXCEPT ![r].todo = @ \ {s}]
       \/ req[r].todo = {} /\ End(r)
    /\ UNCHANGED <<disk, rows, lock, saved, clash, late, bounds>>

Answered(r) == req[r].pc = "reply" /\ End(r) /\ UNCHANGED <<disk, rows, lock, saved, clash, late, bounds>>

\* The server dies: transactions are undone, files stay as they are.
Crash ==
    /\ crashes < MaxCrashes
    /\ crashes' = crashes + 1
    /\ req' = [r \in Requests |-> Idle]
    /\ lock' = None
    /\ UNCHANGED <<disk, rows, saved, clash, late, ops>>

\* The bound is reached and every request has been answered.
AtRest == ops = MaxOps /\ (\A r \in Requests : req[r] = Idle) /\ UNCHANGED vars

Next ==
    \/ \E r \in Requests :
         \/ \E n \in Names, op \in Saving, p \in Payloads : Save(r, op, n, p)
         \/ \E n \in Names, op \in {"get", "delete", "by_agent"} : Visit(r, op, n)
         \/ \E n \in Names, op \in Chats, s \in Sessions : Chat(r, op, n, s)
         \/ ListAgents(r) \/ ListSessions(r) \/ \E s \in Sessions : ShowSession(r, s)
         \/ Seed(r) \/ Ensured(r) \/ Open(r) \/ Write(r)
         \/ CheckAbsent(r) \/ MakeFolder(r) \/ CheckPresent(r) \/ Replace(r)
         \/ CheckFile(r) \/ Load(r) \/ ScanOne(r)
         \/ SelectIds(r) \/ DeleteRows(r) \/ Unlink(r) \/ RemoveFolder(r)
         \/ NewSession(r) \/ CommitNew(r) \/ Resolve(r) \/ SaveAgent(r) \/ EndRun(r) \/ LockTimeout(r)
         \/ SelectSessions(r) \/ BuildEntry(r) \/ Answered(r)
    \/ Crash \/ AtRest

Spec == Init /\ [][Next]_vars

(***************************************************************************)
(* Properties.                                                             *)
(***************************************************************************)
\* Folders hold what files there are, and a file has one name.
TypeOK ==
    /\ folder \subseteq Names
    /\ \A n \in Names \ folder : file[n] = NoFiles
    /\ \A n, m \in Names, k, l \in {"md", "tmp"} :
         file[n][k] # None => file[n][k] \in 1..MaxInode /\ (file[n][k] = file[m][l] => <<n, k>> = <<m, l>>)
    /\ \A s \in Sessions : row[s] # None => session[s] = "rooted"
    /\ \A r \in Requests : req[r].pc = "run" => lock = r

\* What a create, an update or a seeding has saved under a name is what its
\* file holds, whole, until the next save or the deletion: through a crash
\* in the middle of an update, creates and seedings of the name at the same
\* time and an update that fails.  Nothing is promised of a name on which an
\* update has overlapped with another update, a create or a seeding, or a
\* deletion with any of them: there an update that was answered can be lost.
SavedIsKept ==
    \A n \in Names \ clash : saved[n] # None =>
        HasFile(n) /\ data[file[n].md] = Rendered(saved[n])

\* A template but for the blanks and line ends around its texts.
Bare(p) == [desc |-> IF p.desc = None THEN <<>> ELSE Stripped(p.desc),
            tools |-> [i \in DOMAIN p.tools |-> Stripped(p.tools[i])],
            prompt |-> Stripped(p.prompt)]

\* A template comes back from its file as it was sent, but for the blanks and
\* line ends around its texts: what a save, a get or a list answers is a
\* payload that some request has saved, or, of a file in the making, nothing.
\* (Of payloads without line ends and backslashes in the description, and
\* without blank tools.)
SavedIsReadBack ==
    TypeOK /\ \A r \in Requests : req[r].op \in Saving \union {"get", "list"} =>
        \/ req[r].got \in {Empty, None} \/ (req[r].got = Torn /\ clash # {})
        \/ Bare(req[r].got) \in {Bare(p) : p \in Payloads \union {Shipped}}

\* A root agent in the database has its template: a deletion removes the rows
\* before the files, and one that fails in the database, or that the server
\* dies in, removes no files whose row is left.  Nothing is promised of a name
\* of which a run went on while a deletion removed its files, or was committed
\* after a deletion had dealt with the rows: the code keeps the row of such a
\* run although the template is gone, or goes.
RootsHaveTemplates ==
    \A s \in Sessions : row[s] \in Names \ late => HasFile(row[s])

\* frontend_mvp_sessions_api_plan.md:214 and chat_service_plan.md:254: a first
\* message makes a session that the list shows, and all of it is committed
\* before its run: no list of sessions finds one without its root agent.
SessionsAreListed ==
    \A r \in Requests : req[r].op \in {"sessions", "by_agent", "detail"} => req[r].got # "integrity"
===============================================================================
