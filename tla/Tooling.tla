------------------------------ MODULE Tooling ------------------------------
(***************************************************************************)
(* The saved tools of the platform: API connections, HTTP tools that may   *)
(* go through a connection, MCP servers with the catalogue last fetched    *)
(* from them, and the sources enabled for an agent                         *)
(* (internal/core/services/tooling).                                       *)
(*                                                                         *)
(* Every use case that changes the configuration runs in `mutate`: one     *)
(* database transaction that starts by taking one advisory lock, so each   *)
(* is one step here.  Three things happen outside that lock and make the   *)
(* interleavings of this module:                                           *)
(*   - CreateTool validates the tool, connection included, before it;      *)
(*   - RefreshMCPServer reads the server, talks to it for up to 15 s and   *)
(*     then writes the result back, all without the lock;                  *)
(*   - an import is previewed by one request and executed by a later one.  *)
(***************************************************************************)
EXTENDS Naturals, FiniteSets, Sequences, Functions

CONSTANTS
    ConnIDs, ToolIDs, ServerIDs,  \* the identifiers the database may give
    Slugs,                        \* slugs of connections and of tools
    Endpoints,                    \* URL and secret headers of an MCP server
    Admins,                       \* administrators with a request under way
    Bundles,                      \* files an administrator may import
    MaxWrites,                    \* bound on committed configuration changes
    None                          \* "no connection", a catalogue without tools

ASSUME ToolingAssumption ==
    /\ IsFiniteSet(ConnIDs) /\ IsFiniteSet(ToolIDs) /\ IsFiniteSet(ServerIDs)
    /\ MaxWrites \in Nat
    /\ None \notin ConnIDs \cup ToolIDs \cup Slugs \cup Endpoints
    /\ \A b \in Bundles :
          /\ \A i \in DOMAIN b.connections : b.connections[i].slug \in Slugs
          /\ \A i \in DOMAIN b.tools :
                /\ b.tools[i].slug \in Slugs
                /\ b.tools[i].connection \in Slugs \cup {None}

VARIABLES
    connections,  \* the rows of api_connections, by identifier
    tools,        \* the rows of tools
    servers,      \* the rows of mcp_servers
    enabled,      \* the tools and servers bound to the agent
    pending,      \* what each administrator's request holds between two steps
    issued,       \* identifiers given so far: none is given twice
    writes        \* committed configuration changes

vars == <<connections, tools, servers, enabled, pending, issued, writes>>

Idle == [step |-> "idle"]

\* A file names connections and tools by slug.  "Kind" and slug identify an
\* entry, and the decision of the administrator about it.
Keys == {"connection", "tool"} \X Slugs
Actions == {"none", "skip", "overwrite"}

Init ==
    /\ connections = <<>>
    /\ tools = <<>>
    /\ servers = <<>>
    /\ enabled = {}
    /\ pending = [a \in Admins |-> Idle]
    /\ issued = {}
    /\ writes = 0

-----------------------------------------------------------------------------
(* Rows *)

\* The row of a table with a slug, or None: slugs are unique in their table.
Saved(table, slug) ==
    IF \E id \in DOMAIN table : table[id].slug = slug
    THEN CHOOSE id \in DOMAIN table : table[id].slug = slug
    ELSE None

\* The unique index lets a row `id` take a slug.
SlugFree(table, id, slug) == Saved(table, slug) \in {None, id}

\* A foreign key: the connection is a row of api_connections, or there is none.
Exists(c) == c = None \/ c \in DOMAIN connections

Put(table, id, row) ==
    [x \in DOMAIN table \cup {id} |-> IF x = id THEN row ELSE table[x]]

\* The table with the rows new[x], written under the identifiers ids[x].
Overlay(table, ids, new) ==
    [id \in DOMAIN table \cup Range(ids) |->
        IF id \in Range(ids) THEN new[CHOOSE x \in DOMAIN ids : ids[x] = id]
        ELSE table[id]]

Without(table, id) == [x \in DOMAIN table \ {id} |-> table[x]]

Fresh(ids) == ids \ issued

Committed == writes < MaxWrites /\ writes' = writes + 1

-----------------------------------------------------------------------------
(* API connections *)

CreateAPIConnection(slug) ==
    \E id \in Fresh(ConnIDs) :
        /\ SlugFree(connections, id, slug)
        /\ connections' = Put(connections, id, [slug |-> slug, by |-> "admin"])
        /\ issued' = issued \cup {id}
        /\ Committed
        /\ UNCHANGED <<tools, servers, enabled, pending>>

UpdateAPIConnection(id, slug) ==
    /\ id \in DOMAIN connections
    /\ SlugFree(connections, id, slug)
    /\ connections' = Put(connections, id, [slug |-> slug, by |-> "admin"])
    /\ Committed
    /\ UNCHANGED <<tools, servers, enabled, pending, issued>>

\* Refused while CountToolsByAPIConnection finds a tool that uses it.
DeleteAPIConnection(id) ==
    /\ id \in DOMAIN connections
    /\ \A t \in DOMAIN tools : tools[t].connection # id
    /\ connections' = Without(connections, id)
    /\ Committed
    /\ UNCHANGED <<tools, servers, enabled, pending, issued>>

-----------------------------------------------------------------------------
(* HTTP tools *)

\* CreateTool up to mutate: validateHTTPTool has read the connection.
BeginCreateTool(a, slug, c) ==
    /\ pending[a] = Idle
    /\ Exists(c)
    /\ pending' = [pending EXCEPT ![a] =
                      [step |-> "creating", slug |-> slug, connection |-> c]]
    /\ UNCHANGED <<connections, tools, servers, enabled, issued, writes>>

\* Mutant of MayInsert: the connection is only checked before the lock.
MayInsertValidated(slug, c) == Saved(tools, slug) = None

\* The INSERT holds to the unique slug and to the foreign key, whatever was
\* validated before the lock.
MayInsert(slug, c) == Saved(tools, slug) = None /\ Exists(c)

CreateTool(a) ==
    /\ pending[a].step = "creating"
    /\ MayInsert(pending[a].slug, pending[a].connection)
    /\ \E id \in Fresh(ToolIDs) :
          /\ tools' = Put(tools, id,
                [slug |-> pending[a].slug,
                 connection |-> pending[a].connection, by |-> "admin"])
          /\ issued' = issued \cup {id}
    /\ pending' = [pending EXCEPT ![a] = Idle]
    /\ Committed
    /\ UNCHANGED <<connections, servers, enabled>>

RefuseTool(a) ==
    /\ pending[a].step = "creating"
    /\ ~ MayInsert(pending[a].slug, pending[a].connection)
    /\ pending' = [pending EXCEPT ![a] = Idle]
    /\ UNCHANGED <<connections, tools, servers, enabled, issued, writes>>

\* UpdateTool reads the row and the connection under the lock.
UpdateTool(id, slug, c) ==
    /\ id \in DOMAIN tools
    /\ SlugFree(tools, id, slug)
    /\ Exists(c)
    /\ tools' = Put(tools, id, [slug |-> slug, connection |-> c, by |-> "admin"])
    /\ Committed
    /\ UNCHANGED <<connections, servers, enabled, pending, issued>>

\* The bindings of a deleted tool go with it (ON DELETE CASCADE).
DeleteTool(id) ==
    /\ id \in DOMAIN tools
    /\ tools' = Without(tools, id)
    /\ enabled' = enabled \ {id}
    /\ Committed
    /\ UNCHANGED <<connections, servers, pending, issued>>

-----------------------------------------------------------------------------
(* MCP servers *)

CreateMCPServer(e) ==
    \E id \in Fresh(ServerIDs) :
        /\ servers' = Put(servers, id,
              [endpoint |-> e, revision |-> 1,
               catalogue |-> None, status |-> "unchecked"])
        /\ issued' = issued \cup {id}
        /\ Committed
        /\ UNCHANGED <<connections, tools, enabled, pending>>

\* A new URL or new headers: what was fetched with the old ones is dropped.
ChangedEndpoint(server, e) ==
    [endpoint |-> e, revision |-> server.revision + 1,
     catalogue |-> None, status |-> "unchecked"]

UpdateEndpoint(id, e) ==
    /\ id \in DOMAIN servers
    /\ servers' = [servers EXCEPT ![id] = ChangedEndpoint(@, e)]
    /\ Committed
    /\ UNCHANGED <<connections, tools, enabled, pending, issued>>

\* A new name or a new list of allowed tools keeps the catalogue; the revision
\* still moves, so a refresh under way is refused.
UpdateDetails(id) ==
    /\ id \in DOMAIN servers
    /\ servers' = [servers EXCEPT ![id].revision = @ + 1]
    /\ Committed
    /\ UNCHANGED <<connections, tools, enabled, pending, issued>>

DeleteMCPServer(id) ==
    /\ id \in DOMAIN servers
    /\ servers' = Without(servers, id)
    /\ enabled' = enabled \ {id}
    /\ Committed
    /\ UNCHANGED <<connections, tools, pending, issued>>

BeginRefresh(a, id) ==
    /\ pending[a] = Idle
    /\ id \in DOMAIN servers
    /\ pending' = [pending EXCEPT ![a] =
                      [step |-> "refreshing", id |-> id, server |-> servers[id]]]
    /\ UNCHANGED <<connections, tools, servers, enabled, issued, writes>>

\* The server listed its tools, or a call failed: Connect, and the catalogue read
\* before it is written back; ListTools, which leaves no tools; or Close, after
\* the tools were listed.
SyncResults(read) ==
    {[catalogue |-> read.endpoint, status |-> "ok"]} \cup
    {[catalogue |-> c, status |-> "failing"] :
         c \in {read.catalogue, None, read.endpoint}}

\* Mutant of SyncApplies: the revision is not part of the WHERE clause.
SyncAppliesAnyway(id, read) == id \in DOMAIN servers

\* UPDATE ... WHERE id = $1 AND revision = $2
SyncApplies(id, read) ==
    id \in DOMAIN servers /\ servers[id].revision = read.revision

\* RecordMCPServerSync does not move the revision.
RecordSync(a) ==
    /\ pending[a].step = "refreshing"
    /\ SyncApplies(pending[a].id, pending[a].server)
    /\ \E result \in SyncResults(pending[a].server) :
          servers' = [servers EXCEPT
              ![pending[a].id].catalogue = result.catalogue,
              ![pending[a].id].status = result.status]
    /\ pending' = [pending EXCEPT ![a] = Idle]
    /\ UNCHANGED <<connections, tools, enabled, issued, writes>>

\* The refresh is answered with a conflict: refresh again.
RefuseSync(a) ==
    /\ pending[a].step = "refreshing"
    /\ ~ SyncApplies(pending[a].id, pending[a].server)
    /\ pending' = [pending EXCEPT ![a] = Idle]
    /\ UNCHANGED <<connections, tools, servers, enabled, issued, writes>>

\* The whole set of an agent's sources is replaced by one that exists.
ReplaceAgentTools(sources) ==
    /\ sources \subseteq DOMAIN tools \cup DOMAIN servers
    /\ sources # enabled
    /\ enabled' = sources
    /\ Committed
    /\ UNCHANGED <<connections, tools, servers, pending, issued>>

-----------------------------------------------------------------------------
(* Import: the plan *)

\* Only the first entry of a slug counts; repetitions are ignored.
Duplicate(entries, i) == \E j \in 1..(i - 1) : entries[j].slug = entries[i].slug

Planned(entries) == {i \in DOMAIN entries : ~ Duplicate(entries, i)}

Entry(entries, slug) == CHOOSE i \in Planned(entries) : entries[i].slug = slug

Named(entries) == {entries[i].slug : i \in DOMAIN entries}

\* What an import makes of an entry (importStatus).
Status(valid, saved) ==
    IF ~ valid THEN "invalid" ELSE IF saved # None THEN "conflict" ELSE "new"

ConnectionStatus(b, slug) ==
    Status(b.connections[Entry(b.connections, slug)].valid,
           Saved(connections, slug))

\* Mutant of Usable: an entry of the file counts although it will be skipped.
UsableThoughSkipped(b, decisions, slug) ==
    \/ Saved(connections, slug) # None
    \/ /\ slug \in Named(b.connections)
       /\ ConnectionStatus(b, slug) # "invalid"

\* The connection of a tool is the one that will be there after the import: the
\* file's, unless that entry is skipped or invalid; then the saved one.
Usable(b, decisions, slug) ==
    \/ Saved(connections, slug) # None
    \/ /\ slug \in Named(b.connections)
       /\ decisions[<<"connection", slug>>] # "skip"
       /\ ConnectionStatus(b, slug) # "invalid"

ToolStatus(b, decisions, slug) ==
    LET entry == b.tools[Entry(b.tools, slug)]
    IN  Status(entry.valid /\ (entry.connection = None
                                 \/ Usable(b, decisions, entry.connection)),
               Saved(tools, slug))

\* Mutant of Problem: a saved row may be replaced without that word.
ProblemIfInvalid(status, action) == action # "skip" /\ status = "invalid"

\* importProblems: an entry that is not skipped is invalid, or replaces a row
\* without the administrator's word for it.
Problem(status, action) ==
    /\ action # "skip"
    /\ status = "invalid" \/ (status = "conflict" /\ action # "overwrite")

Accepted(b, decisions) ==
    /\ \A slug \in Named(b.connections) :
          ~ Problem(ConnectionStatus(b, slug), decisions[<<"connection", slug>>])
    /\ \A slug \in Named(b.tools) :
          ~ Problem(ToolStatus(b, decisions, slug), decisions[<<"tool", slug>>])

-----------------------------------------------------------------------------
(* Import: the requests *)

NoDecision == [k \in Keys |-> "none"]

\* What an administrator answers to the status the preview showed.
Answers(status) ==
    CASE status = "new"      -> {"none", "skip"}
      [] status = "conflict" -> {"overwrite", "skip"}
      [] status = "invalid"  -> {"none", "skip"}

PreviewStatus(b, k) ==
    CASE k[1] = "connection" /\ k[2] \in Named(b.connections)
              -> ConnectionStatus(b, k[2])
      [] k[1] = "tool" /\ k[2] \in Named(b.tools)
              -> ToolStatus(b, NoDecision, k[2])
      [] OTHER -> "absent"

PreviewToolImport(a, b) ==
    /\ pending[a] = Idle
    /\ \E decisions \in [Keys -> Actions] :
          /\ \A k \in Keys :
                IF PreviewStatus(b, k) = "absent" THEN decisions[k] = "none"
                ELSE decisions[k] \in Answers(PreviewStatus(b, k))
          /\ pending' = [pending EXCEPT ![a] =
                [step |-> "deciding", bundle |-> b, decisions |-> decisions]]
    /\ UNCHANGED <<connections, tools, servers, enabled, issued, writes>>

\* The slugs of the entries of one kind that an import writes.
Written(kind, entries, decisions) ==
    {slug \in Named(entries) : decisions[<<kind, slug>>] # "skip"}

\* The rows they are written to: the saved row, or a new one.
RowIDs(table, slugs, ids) ==
    {f \in [slugs -> DOMAIN table \cup Fresh(ids)] :
        /\ \A s \in slugs : IF Saved(table, s) # None THEN f[s] = Saved(table, s)
                            ELSE f[s] \in Fresh(ids)
        /\ \A s, t \in slugs : f[s] = f[t] => s = t}

\* Mutant of ConnectionOf: an imported tool loses its connection.
ConnectionLost(conns, slug) == None

\* connectionIDs: the saved connections, overlaid by those just written.
ConnectionOf(conns, slug) == IF slug = None THEN None ELSE conns[slug]

\* writeImportedTool finds the identifier of the connection the file names.
Resolved(b, decisions) ==
    \A slug \in Written("tool", b.tools, decisions) :
        LET name == b.tools[Entry(b.tools, slug)].connection
        IN  \/ name = None
            \/ Saved(connections, name) # None
            \/ name \in Written("connection", b.connections, decisions)

\* One transaction writes the connections, then the tools with the identifiers
\* of the connections that the file names.
WriteImport(b, decisions) ==
    LET cs == Written("connection", b.connections, decisions)
        ts == Written("tool", b.tools, decisions)
        kept == {connections[c].slug : c \in DOMAIN connections}
    IN  \E cid \in RowIDs(connections, cs, ConnIDs),
           tid \in RowIDs(tools, ts, ToolIDs) :
          LET conns == [s \in kept \cup cs |->
                           IF s \in cs THEN cid[s] ELSE Saved(connections, s)]
              newC == [s \in cs |-> [slug |-> s, by |-> "file"]]
              newT == [s \in ts |-> [slug |-> s, by |-> "file", connection |->
                 ConnectionOf(conns, b.tools[Entry(b.tools, s)].connection)]]
          IN  /\ connections' = Overlay(connections, cid, newC)
              /\ tools' = Overlay(tools, tid, newT)
              /\ issued' = issued \cup Range(cid) \cup Range(tid)

\* ImportTools plans again under the lock, with the decisions made on the
\* preview, and writes if no entry is a problem.
ImportTools(a) ==
    /\ pending[a].step = "deciding"
    /\ Accepted(pending[a].bundle, pending[a].decisions)
    /\ Resolved(pending[a].bundle, pending[a].decisions)
    /\ WriteImport(pending[a].bundle, pending[a].decisions)
    /\ pending' = [pending EXCEPT ![a] = Idle]
    /\ Committed
    /\ UNCHANGED <<servers, enabled>>

\* A problem, or a tool whose connection does not resolve inside the transaction:
\* nothing is written.  (A failing database, which rolls all back too, is left out.)
RefuseImport(a) ==
    /\ pending[a].step = "deciding"
    /\ \/ ~ Accepted(pending[a].bundle, pending[a].decisions)
       \/ ~ Resolved(pending[a].bundle, pending[a].decisions)
    /\ pending' = [pending EXCEPT ![a] = Idle]
    /\ UNCHANGED <<connections, tools, servers, enabled, issued, writes>>

-----------------------------------------------------------------------------
Next ==
    \/ \E s \in Slugs : CreateAPIConnection(s)
    \/ \E c \in ConnIDs, s \in Slugs : UpdateAPIConnection(c, s)
    \/ \E c \in ConnIDs : DeleteAPIConnection(c)
    \/ \E a \in Admins, s \in Slugs, c \in ConnIDs \cup {None} :
          BeginCreateTool(a, s, c)
    \/ \E a \in Admins : CreateTool(a)
    \/ \E a \in Admins : RefuseTool(a)
    \/ \E t \in ToolIDs, s \in Slugs, c \in ConnIDs \cup {None} :
          UpdateTool(t, s, c)
    \/ \E t \in ToolIDs : DeleteTool(t)
    \/ \E e \in Endpoints : CreateMCPServer(e)
    \/ \E s \in ServerIDs, e \in Endpoints : UpdateEndpoint(s, e)
    \/ \E s \in ServerIDs : UpdateDetails(s)
    \/ \E s \in ServerIDs : DeleteMCPServer(s)
    \/ \E a \in Admins, s \in ServerIDs : BeginRefresh(a, s)
    \/ \E a \in Admins : RecordSync(a)
    \/ \E a \in Admins : RefuseSync(a)
    \/ \E sources \in SUBSET (ToolIDs \cup ServerIDs) : ReplaceAgentTools(sources)
    \/ \E a \in Admins, b \in Bundles : PreviewToolImport(a, b)
    \/ \E a \in Admins : ImportTools(a)
    \/ \E a \in Admins : RefuseImport(a)

Spec == Init /\ [][Next]_vars

-----------------------------------------------------------------------------
(* Properties *)

\* Types, and what the tables hold to among themselves: a tool goes through a
\* connection that is there, although it was validated before the lock; a slug
\* names one row; what an agent is bound to exists.
TypeOK ==
    /\ DOMAIN connections \subseteq ConnIDs \cap issued
    /\ \A c \in DOMAIN connections :
          connections[c] \in [slug : Slugs, by : {"admin", "file"}]
    /\ DOMAIN tools \subseteq ToolIDs \cap issued
    /\ \A t \in DOMAIN tools :
          tools[t] \in [slug : Slugs, by : {"admin", "file"},
                        connection : DOMAIN connections \cup {None}]
    /\ \A table \in {connections, tools} : \A x, y \in DOMAIN table :
          table[x].slug = table[y].slug => x = y
    /\ DOMAIN servers \subseteq ServerIDs \cap issued
    /\ \A s \in DOMAIN servers :
          servers[s] \in [endpoint : Endpoints, revision : 1..(MaxWrites + 1),
                          catalogue : Endpoints \cup {None},
                          status : {"unchecked", "ok", "failing"}]
    /\ enabled \subseteq DOMAIN tools \cup DOMAIN servers
    /\ issued \subseteq ConnIDs \cup ToolIDs \cup ServerIDs
    /\ writes \in 0..MaxWrites

\* The catalogue of a server, which every run of a bound agent offers to the
\* model, was fetched with the URL and the headers the server has now, and a
\* server is only reported reachable with those: whatever refreshes, late or
\* failing at any of their three calls, are answered around the updates of the
\* server (RefreshMCPServer's revision, UpdateMCPServer's reset).  A failed
\* refresh may well leave no tools: that promise is not made.
CatalogueMatchesSettings ==
    \A s \in DOMAIN servers :
        /\ servers[s].catalogue \in {None, servers[s].endpoint}
        /\ servers[s].status = "ok" => servers[s].catalogue = servers[s].endpoint

\* Why an import may be refused: an entry that is not skipped is invalid, bears
\* the slug of a row the administrator did not give up, or names a connection
\* that neither is saved nor comes with it.
Refusable(b, decisions) ==
    \/ \E slug \in Written("connection", b.connections, decisions) :
          \/ ~ b.connections[Entry(b.connections, slug)].valid
          \/ /\ Saved(connections, slug) # None
             /\ decisions[<<"connection", slug>>] # "overwrite"
    \/ \E slug \in Written("tool", b.tools, decisions) :
          LET entry == b.tools[Entry(b.tools, slug)]
          IN  \/ ~ entry.valid
              \/ /\ Saved(tools, slug) # None
                 /\ decisions[<<"tool", slug>>] # "overwrite"
              \/ /\ entry.connection # None
                 /\ Saved(connections, entry.connection) = None
                 /\ entry.connection \notin
                       Written("connection", b.connections, decisions)

\* The rows the administrator gave up are the only ones an import replaces.
OnlyGivenUp(kind, old, new, decisions) ==
    \A id \in DOMAIN old :
        \/ id \in DOMAIN new /\ new[id] = old[id]
        \/ decisions[<<kind, old[id].slug>>] = "overwrite"

\* Every entry that was not skipped is there, each tool behind the connection
\* the file names.
Complete(b, decisions, conns, ts) ==
    /\ \A slug \in Written("connection", b.connections, decisions) :
          \E c \in DOMAIN conns : conns[c] = [slug |-> slug, by |-> "file"]
    /\ \A slug \in Written("tool", b.tools, decisions) :
          LET name == b.tools[Entry(b.tools, slug)].connection
          IN  \E t \in DOMAIN ts :
                 /\ ts[t].slug = slug /\ ts[t].by = "file"
                 /\ IF name = None THEN ts[t].connection = None
                    ELSE /\ ts[t].connection \in DOMAIN conns
                         /\ conns[ts[t].connection].slug = name

\* An import does all that the administrator decided on the preview, or nothing.
\* Either it is refused because the plan, made again under the lock, has a problem
\* one can act on, and leaves every row; a plan without problems is never found
\* impossible while it is written.  Or it writes every entry not skipped and
\* replaces only rows given up.  So whatever was created, renamed or deleted
\* between the preview and the import (ImportTools).
ImportsAsDecided ==
    [][\A a \in Admins :
          (pending[a].step = "deciding" /\ pending'[a] = Idle) =>
            LET b == pending[a].bundle
                decisions == pending[a].decisions
            IN  \/ /\ Refusable(b, decisions) /\ ~ Accepted(b, decisions)
                   /\ connections' = connections /\ tools' = tools
                \/ /\ OnlyGivenUp("connection", connections, connections', decisions)
                   /\ OnlyGivenUp("tool", tools, tools', decisions)
                   /\ Complete(b, decisions, connections', tools')]_vars

=============================================================================
