------------------------- MODULE ToolingTablesProofs -------------------------
(***************************************************************************)
(* Proofs about Tooling for any number of identifiers, slugs, files and    *)
(* administrators: the tables keep their types, their references and their *)
(* unique slugs (TypeOK), and an import does what was decided on its       *)
(* preview or nothing (ImportsAsDecided).                                  *)
(***************************************************************************)
EXTENDS Tooling, TLAPS

-----------------------------------------------------------------------------
(* The inductive invariant.                                                *)

Unique(table) == \A x, y \in DOMAIN table : table[x].slug = table[y].slug => x = y

ConnRow == [slug : Slugs, by : {"admin", "file"}]

ToolRow(conns) ==
    [slug : Slugs, by : {"admin", "file"}, connection : conns \cup {None}]

ServerRow(n) ==
    [endpoint : Endpoints, revision : 1 .. (n + 1), catalogue : Endpoints \cup {None},
     status : {"unchecked", "ok", "failing"}]

ConnectionsOK ==
    /\ DOMAIN connections \subseteq ConnIDs \cap issued
    /\ \A c \in DOMAIN connections : connections[c] \in ConnRow
    /\ Unique(connections)

ToolsOK ==
    /\ DOMAIN tools \subseteq ToolIDs \cap issued
    /\ \A t \in DOMAIN tools : tools[t] \in ToolRow(DOMAIN connections)
    /\ Unique(tools)

\* A revision is one of the writes.
ServersOK ==
    /\ DOMAIN servers \subseteq ServerIDs \cap issued
    /\ \A s \in DOMAIN servers : servers[s] \in ServerRow(writes)

RestOK ==
    /\ enabled \subseteq DOMAIN tools \cup DOMAIN servers
    /\ issued \subseteq ConnIDs \cup ToolIDs \cup ServerIDs
    /\ writes \in 0 .. MaxWrites

\* What the request of an administrator holds between two steps.
RequestOK(a) ==
    /\ pending[a].step = "creating" => pending[a].slug \in Slugs
    /\ pending[a].step = "refreshing" =>
          /\ pending[a].server.endpoint \in Endpoints
          /\ pending[a].server.catalogue \in Endpoints \cup {None}
    /\ pending[a].step = "deciding" => pending[a].bundle \in Bundles

RequestsOK == DOMAIN pending = Admins /\ \A a \in Admins : RequestOK(a)

IInv == ConnectionsOK /\ ToolsOK /\ ServersOK /\ RestOK /\ RequestsOK

LEMMA TypesFollow == IInv => TypeOK
  BY ToolingAssumption
  DEF IInv, TypeOK, ConnectionsOK, ToolsOK, ServersOK, RestOK, Unique, ConnRow, ToolRow,
      ServerRow

LEMMA InitOK == Init => IInv
  BY ToolingAssumption
  DEF Init, IInv, ConnectionsOK, ToolsOK, ServersOK, RestOK, RequestsOK, RequestOK, Unique,
      Idle

-----------------------------------------------------------------------------
(* Tables with unique slugs.                                               *)

\* Saved finds the one row with a slug, and None if there is none.
LEMMA SavedFinds ==
    ASSUME NEW table, NEW slug, Unique(table), None \notin DOMAIN table
    PROVE  /\ Saved(table, slug) # None =>
                 /\ Saved(table, slug) \in DOMAIN table
                 /\ table[Saved(table, slug)].slug = slug
           /\ \A id \in DOMAIN table : table[id].slug = slug => Saved(table, slug) = id
  <1>1. CASE \E id \in DOMAIN table : table[id].slug = slug
    <2>1. /\ Saved(table, slug) \in DOMAIN table
          /\ table[Saved(table, slug)].slug = slug
      BY <1>1 DEF Saved
    <2>2. QED
      BY <2>1 DEF Unique
  <1>2. CASE ~ \E id \in DOMAIN table : table[id].slug = slug
    BY <1>2 DEF Saved
  <1>3. QED
    BY <1>1, <1>2

\* A row with a free slug leaves the slugs unique.
LEMMA PutKeepsUnique ==
    ASSUME NEW table, NEW id, NEW row, Unique(table), None \notin DOMAIN table,
           SlugFree(table, id, row.slug)
    PROVE  /\ DOMAIN Put(table, id, row) = DOMAIN table \cup {id}
           /\ Put(table, id, row)[id] = row
           /\ \A x \in DOMAIN table \ {id} : Put(table, id, row)[x] = table[x]
           /\ Unique(Put(table, id, row))
  <1>1. /\ DOMAIN Put(table, id, row) = DOMAIN table \cup {id}
        /\ Put(table, id, row)[id] = row
        /\ \A x \in DOMAIN table \ {id} : Put(table, id, row)[x] = table[x]
    BY DEF Put
  <1>2. \A x \in DOMAIN table \ {id} : table[x].slug # row.slug
    BY SavedFinds DEF SlugFree
  <1>3. QED
    BY <1>1, <1>2 DEF Unique

LEMMA WithoutKeepsUnique ==
    ASSUME NEW table, NEW id, Unique(table)
    PROVE  /\ DOMAIN Without(table, id) = DOMAIN table \ {id}
           /\ \A x \in DOMAIN table \ {id} : Without(table, id)[x] = table[x]
           /\ Unique(Without(table, id))
  BY DEF Without, Unique

\* The rows of an import: each entry that is written takes the place of the row that
\* bears its slug, or a new identifier, and the others stay.
Overlaid(table, all, slugs, rows, ids, new) ==
    /\ DOMAIN ids = slugs
    /\ DOMAIN new = DOMAIN table \cup Range(ids)
    /\ Range(ids) \subseteq DOMAIN table \cup (all \ issued)
    /\ \A s \in slugs : ids[s] \in DOMAIN new /\ new[ids[s]] = rows[s]
    /\ \A id \in DOMAIN table :
          \/ id \in DOMAIN new /\ new[id] = table[id]
          \/ \E s \in slugs : id = ids[s] /\ table[id].slug = s
    /\ \A id \in DOMAIN table : table[id].slug \notin slugs => new[id] = table[id]
    /\ Unique(new)

LEMMA OverlayKeepsUnique ==
    ASSUME NEW table, NEW all, NEW slugs, NEW rows, NEW ids \in RowIDs(table, slugs, all),
           Unique(table), None \notin DOMAIN table, DOMAIN table \subseteq issued,
           \A s \in slugs : rows[s].slug = s
    PROVE  Overlaid(table, all, slugs, rows, ids, Overlay(table, ids, rows))
  <1> DEFINE new == Overlay(table, ids, rows)
  <1>1. /\ ids \in [slugs -> DOMAIN table \cup Fresh(all)]
        /\ \A s \in slugs : IF Saved(table, s) # None THEN ids[s] = Saved(table, s)
                            ELSE ids[s] \in Fresh(all)
        /\ \A s, t \in slugs : ids[s] = ids[t] => s = t
    BY DEF RowIDs
  <1>2. DOMAIN ids = slugs /\ Range(ids) = {ids[s] : s \in slugs}
    BY <1>1 DEF Range
  <1>3. Range(ids) \subseteq DOMAIN table \cup (all \ issued)
    BY <1>1, <1>2 DEF Fresh
  <1>4. /\ DOMAIN new = DOMAIN table \cup Range(ids)
        /\ \A id \in DOMAIN table \ Range(ids) : new[id] = table[id]
    BY DEF Overlay
  <1>5. ASSUME NEW s \in slugs
        PROVE  ids[s] \in DOMAIN new /\ new[ids[s]] = rows[s]
    <2>1. (CHOOSE x \in DOMAIN ids : ids[x] = ids[s]) = s
      BY <1>1, <1>2
    <2>2. ids[s] \in Range(ids)
      BY <1>2
    <2>3. QED
      BY <1>4, <2>1, <2>2 DEF Overlay
  \* A row that is written over bore the slug of the entry.
  <1>6. ASSUME NEW s \in slugs, ids[s] \in DOMAIN table
        PROVE  table[ids[s]].slug = s
    BY <1>1, <1>6, SavedFinds DEF Fresh
  \* A row with the slug of an entry is written over.
  <1>7. ASSUME NEW id \in DOMAIN table, table[id].slug \in slugs
        PROVE  id = ids[table[id].slug]
    <2>1. Saved(table, table[id].slug) = id
      BY SavedFinds
    <2>2. QED
      BY <1>1, <1>7, <2>1
  <1>8. \A id \in DOMAIN table :
            \/ id \in DOMAIN new /\ new[id] = table[id]
            \/ \E s \in slugs : id = ids[s] /\ table[id].slug = s
    BY <1>2, <1>4, <1>6
  <1>9. \A id \in DOMAIN table : table[id].slug \notin slugs => new[id] = table[id]
    BY <1>8
  <1>10. \A id \in DOMAIN new :
            \/ \E s \in slugs : id = ids[s] /\ new[id].slug = s
            \/ /\ id \in DOMAIN table /\ new[id] = table[id]
               /\ new[id].slug \notin slugs
    BY <1>2, <1>4, <1>5, <1>7
  <1>11. Unique(new)
    BY <1>10 DEF Unique
  <1>12. QED
    BY <1>2, <1>3, <1>4, <1>5, <1>8, <1>9, <1>11 DEF Overlaid

-----------------------------------------------------------------------------
(* What a step leaves alone stays right.                                   *)

LEMMA ConnectionsStay ==
    ASSUME ConnectionsOK, connections' = connections, issued \subseteq issued'
    PROVE  ConnectionsOK'
  BY DEF ConnectionsOK, Unique

LEMMA ToolsStay ==
    ASSUME ToolsOK, tools' = tools, issued \subseteq issued',
           DOMAIN connections \subseteq DOMAIN connections'
    PROVE  ToolsOK'
  BY DEF ToolsOK, Unique, ToolRow

LEMMA ServersStay ==
    ASSUME ServersOK, RestOK, servers' = servers, issued \subseteq issued',
           writes' \in {writes, writes + 1}
    PROVE  ServersOK'
  <1>1. 1 .. (writes + 1) \subseteq 1 .. (writes' + 1)
    <2>1. writes \in Int
      BY DEF RestOK
    <2>2. CASE writes' = writes
      BY <2>2
    <2>3. CASE writes' = writes + 1
      BY <2>1, <2>3
    <2>4. QED
      BY <2>2, <2>3
  <1>2. ServerRow(writes) \subseteq ServerRow(writes')
    BY <1>1 DEF ServerRow
  <1>3. QED
    BY <1>2 DEF ServersOK

LEMMA RequestsStay ==
    ASSUME RequestsOK, UNCHANGED pending
    PROVE  RequestsOK'
  BY DEF RequestsOK, RequestOK

\* A request ends, or holds something new that is right.
LEMMA RequestMoves ==
    ASSUME RequestsOK, NEW b \in Admins, NEW fresh,
           pending' = [pending EXCEPT ![b] = fresh],
           fresh.step = "creating" => fresh.slug \in Slugs,
           fresh.step = "refreshing" =>
              /\ fresh.server.endpoint \in Endpoints
              /\ fresh.server.catalogue \in Endpoints \cup {None},
           fresh.step = "deciding" => fresh.bundle \in Bundles
    PROVE  RequestsOK'
  <1>1. DOMAIN pending' = Admins
    BY DEF RequestsOK
  <1>2. \A a \in Admins \ {b} : pending'[a] = pending[a]
    BY DEF RequestsOK
  <1>3. pending'[b] = fresh
    BY DEF RequestsOK
  <1>4. QED
    BY <1>1, <1>2, <1>3 DEF RequestsOK, RequestOK

LEMMA RequestEnds ==
    ASSUME RequestsOK, NEW b \in Admins, pending' = [pending EXCEPT ![b] = Idle]
    PROVE  RequestsOK'
  <1>1. Idle.step = "idle"
    BY DEF Idle
  <1>2. QED
    BY <1>1, RequestMoves

LEMMA WriteCounted ==
    ASSUME RestOK, Committed
    PROVE  writes' = writes + 1 /\ writes' \in 0 .. MaxWrites
  BY ToolingAssumption DEF RestOK, Committed

LEMMA NoneIsNoRow ==
    ASSUME ConnectionsOK, ToolsOK
    PROVE  None \notin DOMAIN connections /\ None \notin DOMAIN tools
  BY ToolingAssumption DEF ConnectionsOK, ToolsOK

-----------------------------------------------------------------------------
(* Connections.                                                            *)

LEMMA WriteConnectionOK ==
    ASSUME IInv, NEW id \in ConnIDs, NEW slug \in Slugs, SlugFree(connections, id, slug),
           connections' = Put(connections, id, [slug |-> slug, by |-> "admin"]),
           issued' = issued \cup {id}, Committed,
           UNCHANGED <<tools, servers, enabled, pending>>
    PROVE  IInv'
  <1> DEFINE row == [slug |-> slug, by |-> "admin"]
  <1>1. row \in ConnRow /\ row.slug = slug
    BY DEF ConnRow
  <1> HIDE DEF row
  <1>2. Unique(connections) /\ None \notin DOMAIN connections
    BY NoneIsNoRow DEF IInv, ConnectionsOK
  <1>3. /\ DOMAIN connections' = DOMAIN connections \cup {id}
        /\ connections'[id] = row
        /\ \A x \in DOMAIN connections \ {id} : connections'[x] = connections[x]
        /\ Unique(connections)'
    <2>1. connections' = Put(connections, id, row)
      BY DEF row
    <2>2. SlugFree(connections, id, row.slug)
      BY <1>1
    <2>3. /\ DOMAIN Put(connections, id, row) = DOMAIN connections \cup {id}
          /\ Put(connections, id, row)[id] = row
          /\ \A x \in DOMAIN connections \ {id} : Put(connections, id, row)[x] = connections[x]
          /\ Unique(Put(connections, id, row))
      BY <1>2, <2>2, PutKeepsUnique
    <2>4. Unique(connections)'
      BY <2>1, <2>3 DEF Unique
    <2>5. QED
      BY <2>1, <2>3, <2>4
  <1>4. ConnectionsOK'
    BY <1>1, <1>3 DEF IInv, ConnectionsOK
  <1>5. writes' = writes + 1 /\ writes' \in 0 .. MaxWrites
    BY WriteCounted DEF IInv
  <1>6. ToolsOK' /\ ServersOK' /\ RequestsOK'
    BY <1>3, <1>5, ToolsStay, ServersStay, RequestsStay DEF IInv
  <1>7. RestOK'
    BY <1>5 DEF IInv, RestOK
  <1>8. QED
    BY <1>4, <1>6, <1>7 DEF IInv

LEMMA ConnectionStepOK ==
    ASSUME IInv,
           \/ \E s \in Slugs : CreateAPIConnection(s)
           \/ \E c \in ConnIDs, s \in Slugs : UpdateAPIConnection(c, s)
    PROVE  IInv'
  <1>1. ASSUME NEW s \in Slugs, CreateAPIConnection(s)
        PROVE  IInv'
    BY <1>1, WriteConnectionOK DEF CreateAPIConnection, Fresh
  <1>2. ASSUME NEW c \in ConnIDs, NEW s \in Slugs, UpdateAPIConnection(c, s)
        PROVE  IInv'
    <2>1. issued' = issued \cup {c}
      BY <1>2 DEF UpdateAPIConnection, IInv, ConnectionsOK
    <2>2. QED
      BY <1>2, <2>1, WriteConnectionOK DEF UpdateAPIConnection
  <1>3. QED
    BY <1>1, <1>2

\* No tool goes through a connection that is deleted.
LEMMA DeleteConnectionOK ==
    ASSUME IInv, NEW id \in ConnIDs, DeleteAPIConnection(id)
    PROVE  IInv'
  <1>1. /\ DOMAIN connections' = DOMAIN connections \ {id}
        /\ \A x \in DOMAIN connections \ {id} : connections'[x] = connections[x]
        /\ Unique(connections)'
    <2>1. Unique(Without(connections, id))
      BY WithoutKeepsUnique DEF IInv, ConnectionsOK
    <2>2. connections' = Without(connections, id)
      BY DEF DeleteAPIConnection
    <2>3. QED
      BY <2>1, <2>2, WithoutKeepsUnique DEF IInv, ConnectionsOK, Unique
  <1>2. /\ \A t \in DOMAIN tools : tools[t].connection # id
        /\ UNCHANGED <<tools, servers, enabled, pending, issued>>
    BY DEF DeleteAPIConnection
  <1>3. ConnectionsOK'
    BY <1>1, <1>2 DEF IInv, ConnectionsOK
  <1>4. ToolsOK'
    <2>1. ASSUME NEW t \in DOMAIN tools
          PROVE  tools[t] \in ToolRow(DOMAIN connections')
      BY <1>1, <1>2 DEF IInv, ToolsOK, ToolRow
    <2>2. QED
      BY <1>2, <2>1 DEF IInv, ToolsOK, Unique
  <1>5. writes' = writes + 1 /\ writes' \in 0 .. MaxWrites
    BY WriteCounted DEF IInv, DeleteAPIConnection
  <1>6. ServersOK' /\ RequestsOK'
    BY <1>2, <1>5, ServersStay, RequestsStay DEF IInv
  <1>7. RestOK'
    BY <1>2, <1>5 DEF IInv, RestOK
  <1>8. QED
    BY <1>3, <1>4, <1>6, <1>7 DEF IInv

-----------------------------------------------------------------------------
(* Tools.                                                                  *)

LEMMA WriteToolOK ==
    ASSUME IInv, NEW id \in ToolIDs, NEW slug \in Slugs, NEW c, Exists(c),
           SlugFree(tools, id, slug),
           tools' = Put(tools, id, [slug |-> slug, connection |-> c, by |-> "admin"]),
           issued' = issued \cup {id}, Committed,
           UNCHANGED <<connections, servers, enabled>>, RequestsOK'
    PROVE  IInv'
  <1> DEFINE row == [slug |-> slug, connection |-> c, by |-> "admin"]
  <1>1. row \in ToolRow(DOMAIN connections) /\ row.slug = slug
    BY DEF ToolRow, Exists
  <1> HIDE DEF row
  <1>2. Unique(tools) /\ None \notin DOMAIN tools
    BY NoneIsNoRow DEF IInv, ToolsOK
  <1>3. /\ DOMAIN tools' = DOMAIN tools \cup {id}
        /\ tools'[id] = row
        /\ \A x \in DOMAIN tools \ {id} : tools'[x] = tools[x]
        /\ Unique(tools)'
    <2>1. tools' = Put(tools, id, row)
      BY DEF row
    <2>2. SlugFree(tools, id, row.slug)
      BY <1>1
    <2>3. /\ DOMAIN Put(tools, id, row) = DOMAIN tools \cup {id}
          /\ Put(tools, id, row)[id] = row
          /\ \A x \in DOMAIN tools \ {id} : Put(tools, id, row)[x] = tools[x]
          /\ Unique(Put(tools, id, row))
      BY <1>2, <2>2, PutKeepsUnique
    <2>4. Unique(tools)'
      BY <2>1, <2>3 DEF Unique
    <2>5. QED
      BY <2>1, <2>3, <2>4
  <1>4. ToolsOK'
    BY <1>1, <1>3 DEF IInv, ToolsOK
  <1>5. writes' = writes + 1 /\ writes' \in 0 .. MaxWrites
    BY WriteCounted DEF IInv
  <1>6. ConnectionsOK' /\ ServersOK'
    BY <1>5, ConnectionsStay, ServersStay DEF IInv
  <1>7. RestOK'
    BY <1>3, <1>5 DEF IInv, RestOK
  <1>8. QED
    BY <1>4, <1>6, <1>7 DEF IInv

\* The connection validated before the lock is tested again by the foreign key.
LEMMA CreateToolOK ==
    ASSUME IInv, NEW a \in Admins, CreateTool(a)
    PROVE  IInv'
  <1>1. PICK id \in Fresh(ToolIDs) :
            /\ tools' = Put(tools, id, [slug |-> pending[a].slug,
                                        connection |-> pending[a].connection,
                                        by |-> "admin"])
            /\ issued' = issued \cup {id}
    BY DEF CreateTool
  <1>2. /\ SlugFree(tools, id, pending[a].slug)
        /\ Exists(pending[a].connection)
        /\ pending[a].slug \in Slugs
    BY DEF CreateTool, MayInsert, SlugFree, IInv, RequestsOK, RequestOK
  <1>3. RequestsOK'
    BY RequestEnds DEF CreateTool, IInv
  <1>4. QED
    BY <1>1, <1>2, <1>3, WriteToolOK DEF CreateTool, Fresh

LEMMA UpdateToolOK ==
    ASSUME IInv, NEW id \in ToolIDs, NEW slug \in Slugs, NEW c, UpdateTool(id, slug, c)
    PROVE  IInv'
  <1>1. issued' = issued \cup {id}
    BY DEF UpdateTool, IInv, ToolsOK
  <1>2. RequestsOK'
    BY RequestsStay DEF UpdateTool, IInv
  <1>3. QED
    BY <1>1, <1>2, WriteToolOK DEF UpdateTool

LEMMA DeleteToolOK ==
    ASSUME IInv, NEW id \in ToolIDs, DeleteTool(id)
    PROVE  IInv'
  <1>1. /\ DOMAIN tools' = DOMAIN tools \ {id}
        /\ \A x \in DOMAIN tools \ {id} : tools'[x] = tools[x]
        /\ Unique(tools)'
    <2>1. Unique(Without(tools, id))
      BY WithoutKeepsUnique DEF IInv, ToolsOK
    <2>2. tools' = Without(tools, id)
      BY DEF DeleteTool
    <2>3. QED
      BY <2>1, <2>2, WithoutKeepsUnique DEF IInv, ToolsOK, Unique
  <1>2. enabled' = enabled \ {id} /\ UNCHANGED <<connections, servers, pending, issued>>
    BY DEF DeleteTool
  <1>3. ToolsOK'
    BY <1>1, <1>2 DEF IInv, ToolsOK
  <1>4. writes' = writes + 1 /\ writes' \in 0 .. MaxWrites
    BY WriteCounted DEF IInv, DeleteTool
  <1>5. ConnectionsOK' /\ ServersOK' /\ RequestsOK'
    BY <1>2, <1>4, ConnectionsStay, ServersStay, RequestsStay DEF IInv
  <1>6. RestOK'
    BY <1>1, <1>2, <1>4 DEF IInv, RestOK
  <1>7. QED
    BY <1>3, <1>5, <1>6 DEF IInv

-----------------------------------------------------------------------------
(* Servers and bindings.                                                   *)

\* A server's row is written, and counted.
LEMMA WriteServerOK ==
    ASSUME IInv, NEW id \in ServerIDs, NEW row \in ServerRow(writes + 1),
           DOMAIN servers' = DOMAIN servers \cup {id}, servers'[id] = row,
           \A s \in DOMAIN servers \ {id} : servers'[s] = servers[s],
           id \in issued', issued \subseteq issued',
           issued' \subseteq ConnIDs \cup ToolIDs \cup ServerIDs, Committed,
           UNCHANGED <<connections, tools, enabled, pending>>
    PROVE  IInv'
  <1>1. writes' = writes + 1 /\ writes' \in 0 .. MaxWrites
    BY WriteCounted DEF IInv
  <1>2. ServerRow(writes) \subseteq ServerRow(writes + 1)
    <2>1. writes \in Int
      BY DEF IInv, RestOK
    <2>2. 1 .. (writes + 1) \subseteq 1 .. (writes + 1 + 1)
      BY <2>1
    <2>3. QED
      BY <2>2 DEF ServerRow
  <1>3. ServersOK'
    BY <1>1, <1>2 DEF IInv, ServersOK
  <1>4. ConnectionsOK' /\ ToolsOK' /\ RequestsOK'
    BY ConnectionsStay, ToolsStay, RequestsStay DEF IInv
  <1>5. RestOK'
    BY <1>1 DEF IInv, RestOK
  <1>6. QED
    BY <1>3, <1>4, <1>5 DEF IInv

LEMMA ServerStepOK ==
    ASSUME IInv,
           \/ \E e \in Endpoints : CreateMCPServer(e)
           \/ \E s \in ServerIDs, e \in Endpoints : UpdateEndpoint(s, e)
           \/ \E s \in ServerIDs : UpdateDetails(s)
    PROVE  IInv'
  <1>1. writes \in Nat
    BY DEF IInv, RestOK
  <1>2. ASSUME NEW e \in Endpoints, CreateMCPServer(e)
        PROVE  IInv'
    <2> DEFINE row == [endpoint |-> e, revision |-> 1,
                       catalogue |-> None, status |-> "unchecked"]
    <2>1. PICK id \in Fresh(ServerIDs) :
              servers' = Put(servers, id, row) /\ issued' = issued \cup {id}
      BY <1>2 DEF CreateMCPServer
    <2>2. row \in ServerRow(writes + 1)
      BY <1>1 DEF ServerRow
    <2> HIDE DEF row
    <2>3. /\ DOMAIN servers' = DOMAIN servers \cup {id}
          /\ servers'[id] = row
          /\ \A s \in DOMAIN servers \ {id} : servers'[s] = servers[s]
      BY <2>1 DEF Put
    <2>4. id \in ServerIDs
      BY DEF Fresh
    <2>5. issued \cup {id} \subseteq ConnIDs \cup ToolIDs \cup ServerIDs
      BY <2>4 DEF IInv, RestOK
    <2>6. QED
      BY <1>2, <2>1, <2>2, <2>3, <2>4, <2>5, WriteServerOK DEF CreateMCPServer
  <1>3. ASSUME NEW id \in ServerIDs, NEW row, id \in DOMAIN servers,
               servers' = [servers EXCEPT ![id] = row], row \in ServerRow(writes + 1),
               Committed, UNCHANGED <<connections, tools, enabled, pending, issued>>
        PROVE  IInv'
    <2>1. /\ DOMAIN servers' = DOMAIN servers \cup {id}
          /\ servers'[id] = row
          /\ \A s \in DOMAIN servers \ {id} : servers'[s] = servers[s]
      BY <1>3
    <2>2. id \in issued /\ issued \subseteq ConnIDs \cup ToolIDs \cup ServerIDs
      BY <1>3 DEF IInv, ServersOK, RestOK
    <2>3. QED
      BY <1>3, <2>1, <2>2, WriteServerOK
  <1>4. ASSUME NEW id \in DOMAIN servers
        PROVE  servers[id] \in ServerRow(writes)
    BY DEF IInv, ServersOK
  <1>5. ASSUME NEW id \in ServerIDs, NEW e \in Endpoints, UpdateEndpoint(id, e)
        PROVE  IInv'
    <2>1. ChangedEndpoint(servers[id], e) \in ServerRow(writes + 1)
      BY <1>1, <1>4, <1>5 DEF UpdateEndpoint, ChangedEndpoint, ServerRow
    <2>2. QED
      BY <1>3, <1>5, <2>1 DEF UpdateEndpoint
  <1>6. ASSUME NEW id \in ServerIDs, UpdateDetails(id)
        PROVE  IInv'
    <2> DEFINE row == [servers[id] EXCEPT !.revision = servers[id].revision + 1]
    <2>1. row \in ServerRow(writes + 1)
      BY <1>1, <1>4, <1>6 DEF UpdateDetails, ServerRow
    <2>2. servers' = [servers EXCEPT ![id] = row]
      BY <1>6 DEF UpdateDetails
    <2>3. QED
      BY <1>3, <1>6, <2>1, <2>2 DEF UpdateDetails
  <1>7. QED
    BY <1>2, <1>5, <1>6

LEMMA DeleteServerOK ==
    ASSUME IInv, NEW id \in ServerIDs, DeleteMCPServer(id)
    PROVE  IInv'
  <1>1. /\ DOMAIN servers' = DOMAIN servers \ {id}
        /\ \A s \in DOMAIN servers \ {id} : servers'[s] = servers[s]
        /\ enabled' = enabled \ {id}
        /\ UNCHANGED <<connections, tools, pending, issued>>
    BY DEF DeleteMCPServer, Without
  <1>2. writes' = writes + 1 /\ writes' \in 0 .. MaxWrites
    BY WriteCounted DEF IInv, DeleteMCPServer
  <1>3. ServersOK'
    <2>1. writes \in Int
      BY DEF IInv, RestOK
    <2>2. 1 .. (writes + 1) \subseteq 1 .. (writes' + 1)
      BY <1>2, <2>1
    <2>3. ServerRow(writes) \subseteq ServerRow(writes')
      BY <2>2 DEF ServerRow
    <2>4. QED
      BY <1>1, <2>3 DEF IInv, ServersOK
  <1>4. ConnectionsOK' /\ ToolsOK' /\ RequestsOK'
    BY <1>1, ConnectionsStay, ToolsStay, RequestsStay DEF IInv
  <1>5. RestOK'
    BY <1>1, <1>2 DEF IInv, RestOK
  <1>6. QED
    BY <1>3, <1>4, <1>5 DEF IInv

LEMMA RecordSyncOK ==
    ASSUME IInv, NEW b \in Admins, RecordSync(b)
    PROVE  IInv'
  <1> DEFINE id == pending[b].id
             read == pending[b].server
  <1>1. PICK result \in SyncResults(read) :
            servers' = [servers EXCEPT ![id].catalogue = result.catalogue,
                                       ![id].status = result.status]
    BY DEF RecordSync
  <1>2. /\ pending[b].step = "refreshing"
        /\ id \in DOMAIN servers
        /\ pending' = [pending EXCEPT ![b] = Idle]
        /\ UNCHANGED <<connections, tools, enabled, issued, writes>>
    BY DEF RecordSync, SyncApplies
  <1>3. result.catalogue \in Endpoints \cup {None} /\ result.status \in {"ok", "failing"}
    BY <1>2 DEF IInv, RequestsOK, RequestOK, SyncResults
  <1>4. servers[id] \in ServerRow(writes)
    BY <1>2 DEF IInv, ServersOK
  <1>5. /\ DOMAIN servers' = DOMAIN servers
        /\ \A s \in DOMAIN servers \ {id} : servers'[s] = servers[s]
        /\ servers'[id] = [servers[id] EXCEPT !.catalogue = result.catalogue,
                                              !.status = result.status]
    BY <1>1, <1>2
  <1>6. servers'[id] \in ServerRow(writes)
    BY <1>3, <1>4, <1>5 DEF ServerRow
  <1>7. ServersOK'
    BY <1>2, <1>5, <1>6 DEF IInv, ServersOK
  <1>8. ConnectionsOK' /\ ToolsOK'
    BY <1>2, ConnectionsStay, ToolsStay DEF IInv
  <1>9. RequestsOK'
    BY <1>2, RequestEnds DEF IInv
  <1>10. RestOK'
    BY <1>2, <1>5 DEF IInv, RestOK
  <1>11. QED
    BY <1>7, <1>8, <1>9, <1>10 DEF IInv

LEMMA ReplaceAgentToolsOK ==
    ASSUME IInv, NEW sources, ReplaceAgentTools(sources)
    PROVE  IInv'
  <1>1. writes' = writes + 1 /\ writes' \in 0 .. MaxWrites
    BY WriteCounted DEF IInv, ReplaceAgentTools
  <1>2. /\ sources \subseteq DOMAIN tools \cup DOMAIN servers
        /\ enabled' = sources
        /\ UNCHANGED <<connections, tools, servers, pending, issued>>
    BY DEF ReplaceAgentTools
  <1>3. ConnectionsOK' /\ ToolsOK' /\ ServersOK' /\ RequestsOK'
    BY <1>1, <1>2, ConnectionsStay, ToolsStay, ServersStay, RequestsStay DEF IInv
  <1>4. RestOK'
    BY <1>1, <1>2 DEF IInv, RestOK
  <1>5. QED
    BY <1>3, <1>4 DEF IInv

-----------------------------------------------------------------------------
(* Requests that only begin or are refused.                                *)

LEMMA RequestStepOK ==
    ASSUME IInv, RequestsOK',
           UNCHANGED <<connections, tools, servers, enabled, issued, writes>>
    PROVE  IInv'
  <1>1. ConnectionsOK' /\ ToolsOK' /\ ServersOK'
    BY ConnectionsStay, ToolsStay, ServersStay DEF IInv
  <1>2. RestOK'
    BY DEF IInv, RestOK
  <1>3. QED
    BY <1>1, <1>2 DEF IInv

LEMMA BeginStepOK ==
    ASSUME IInv,
           \/ \E a \in Admins, s \in Slugs, c \in ConnIDs \cup {None} :
                 BeginCreateTool(a, s, c)
           \/ \E a \in Admins, s \in ServerIDs : BeginRefresh(a, s)
           \/ \E a \in Admins, b \in Bundles : PreviewToolImport(a, b)
           \/ \E a \in Admins : RefuseTool(a) \/ RefuseSync(a) \/ RefuseImport(a)
    PROVE  IInv'
  <1>1. ASSUME NEW a \in Admins, NEW s \in Slugs, NEW c \in ConnIDs \cup {None},
               BeginCreateTool(a, s, c)
        PROVE  IInv'
    <2> DEFINE fresh == [step |-> "creating", slug |-> s, connection |-> c]
    <2>1. pending' = [pending EXCEPT ![a] = fresh]
      BY <1>1 DEF BeginCreateTool
    <2>2. fresh.step = "creating" /\ fresh.slug \in Slugs
      OBVIOUS
    <2> HIDE DEF fresh
    <2>3. RequestsOK'
      BY <2>1, <2>2, RequestMoves DEF IInv
    <2>4. QED
      BY <1>1, <2>3, RequestStepOK DEF BeginCreateTool
  <1>2. ASSUME NEW a \in Admins, NEW s \in ServerIDs, BeginRefresh(a, s)
        PROVE  IInv'
    <2> DEFINE fresh == [step |-> "refreshing", id |-> s, server |-> servers[s]]
    <2>1. pending' = [pending EXCEPT ![a] = fresh]
      BY <1>2 DEF BeginRefresh
    <2>2. /\ fresh.step = "refreshing"
          /\ fresh.server.endpoint \in Endpoints
          /\ fresh.server.catalogue \in Endpoints \cup {None}
      BY <1>2 DEF BeginRefresh, IInv, ServersOK, ServerRow
    <2> HIDE DEF fresh
    <2>3. RequestsOK'
      BY <2>1, <2>2, RequestMoves DEF IInv
    <2>4. QED
      BY <1>2, <2>3, RequestStepOK DEF BeginRefresh
  <1>3. ASSUME NEW a \in Admins, NEW b \in Bundles, PreviewToolImport(a, b)
        PROVE  IInv'
    <2>1. PICK decisions :
             pending' = [pending EXCEPT ![a] =
                           [step |-> "deciding", bundle |-> b, decisions |-> decisions]]
      BY <1>3 DEF PreviewToolImport
    <2> DEFINE fresh == [step |-> "deciding", bundle |-> b, decisions |-> decisions]
    <2>2. fresh.step = "deciding" /\ fresh.bundle \in Bundles
      OBVIOUS
    <2>3. pending' = [pending EXCEPT ![a] = fresh]
      BY <2>1
    <2> HIDE DEF fresh
    <2>4. RequestsOK'
      BY <2>2, <2>3, RequestMoves DEF IInv
    <2>5. QED
      BY <1>3, <2>4, RequestStepOK DEF PreviewToolImport
  <1>4. ASSUME NEW a \in Admins, RefuseTool(a) \/ RefuseSync(a) \/ RefuseImport(a)
        PROVE  IInv'
    <2>1. RequestsOK'
      BY <1>4, RequestEnds DEF RefuseTool, RefuseSync, RefuseImport, IInv
    <2>2. QED
      BY <1>4, <2>1, RequestStepOK DEF RefuseTool, RefuseSync, RefuseImport
  <1>5. QED
    BY <1>1, <1>2, <1>3, <1>4

-----------------------------------------------------------------------------
(* An import.                                                              *)

\* The rows after the transaction of an import: the tables are right, nobody else's
\* row changed, and every entry that was not skipped is there.
LEMMA ImportWrites ==
    ASSUME IInv, NEW b \in Bundles, NEW decisions, Resolved(b, decisions),
           WriteImport(b, decisions)
    PROVE  LET cs == Written("connection", b.connections, decisions)
               ts == Written("tool", b.tools, decisions)
           IN  /\ ConnectionsOK' /\ ToolsOK'
               /\ DOMAIN tools \subseteq DOMAIN tools'
               /\ issued \subseteq issued'
               /\ issued' \subseteq ConnIDs \cup ToolIDs \cup ServerIDs
               /\ \A id \in DOMAIN connections :
                     \/ id \in DOMAIN connections' /\ connections'[id] = connections[id]
                     \/ connections[id].slug \in cs /\ Saved(connections, connections[id].slug) # None
               /\ \A id \in DOMAIN tools :
                     \/ id \in DOMAIN tools' /\ tools'[id] = tools[id]
                     \/ tools[id].slug \in ts /\ Saved(tools, tools[id].slug) # None
               /\ Complete(b, decisions, connections', tools')
  <1> DEFINE cs == Written("connection", b.connections, decisions)
             ts == Written("tool", b.tools, decisions)
             kept == {connections[c].slug : c \in DOMAIN connections}
             named(s) == b.tools[Entry(b.tools, s)].connection
  <1>1. PICK cid \in RowIDs(connections, cs, ConnIDs), tid \in RowIDs(tools, ts, ToolIDs) :
          LET conns == [s \in kept \cup cs |->
                           IF s \in cs THEN cid[s] ELSE Saved(connections, s)]
              newC == [s \in cs |-> [slug |-> s, by |-> "file"]]
              newT == [s \in ts |-> [slug |-> s, by |-> "file",
                          connection |-> ConnectionOf(conns, named(s))]]
          IN  /\ connections' = Overlay(connections, cid, newC)
              /\ tools' = Overlay(tools, tid, newT)
              /\ issued' = issued \cup Range(cid) \cup Range(tid)
    BY DEF WriteImport
  <1> DEFINE conns == [s \in kept \cup cs |->
                          IF s \in cs THEN cid[s] ELSE Saved(connections, s)]
             newC == [s \in cs |-> [slug |-> s, by |-> "file"]]
             newT == [s \in ts |-> [slug |-> s, by |-> "file",
                         connection |-> ConnectionOf(conns, named(s))]]
  <1>2. /\ connections' = Overlay(connections, cid, newC)
        /\ tools' = Overlay(tools, tid, newT)
        /\ issued' = issued \cup Range(cid) \cup Range(tid)
    BY <1>1
  <1>3. /\ \A s \in cs : conns[s] = cid[s]
        /\ \A s \in kept \ cs : conns[s] = Saved(connections, s)
    OBVIOUS
  <1>4. cs \subseteq Slugs /\ ts \subseteq Slugs
    BY ToolingAssumption DEF Written, Named
  <1>5. ASSUME NEW s \in cs
        PROVE  newC[s].slug = s /\ newC[s] = [slug |-> s, by |-> "file"] /\ newC[s] \in ConnRow
    <2>1. s \in Slugs
      BY <1>4
    <2>2. newC[s] = [slug |-> s, by |-> "file"]
      OBVIOUS
    <2>3. QED
      BY <2>1, <2>2 DEF ConnRow
  <1>6. ASSUME NEW s \in ts
        PROVE  /\ newT[s].slug = s /\ newT[s].by = "file"
               /\ newT[s].connection = ConnectionOf(conns, named(s))
               /\ newT[s] = [slug |-> s, by |-> "file",
                             connection |-> ConnectionOf(conns, named(s))]
    OBVIOUS
  <1> HIDE DEF conns, newC, newT
  <1> HIDE DEF cs, ts
  <1>7. /\ Unique(connections) /\ None \notin DOMAIN connections
        /\ Unique(tools) /\ None \notin DOMAIN tools
        /\ DOMAIN connections \subseteq issued /\ DOMAIN tools \subseteq issued
    BY NoneIsNoRow DEF IInv, ConnectionsOK, ToolsOK
  <1>8. /\ DOMAIN cid = cs
        /\ DOMAIN connections' = DOMAIN connections \cup Range(cid)
        /\ Range(cid) \subseteq DOMAIN connections \cup (ConnIDs \ issued)
        /\ \A s \in cs : cid[s] \in DOMAIN connections' /\ connections'[cid[s]] = newC[s]
        /\ \A id \in DOMAIN connections :
              \/ id \in DOMAIN connections' /\ connections'[id] = connections[id]
              \/ \E s \in cs : id = cid[s] /\ connections[id].slug = s
        /\ \A id \in DOMAIN connections : connections[id].slug \notin cs =>
              connections'[id] = connections[id]
        /\ Unique(Overlay(connections, cid, newC))
    <2>1. Overlaid(connections, ConnIDs, cs, newC, cid, Overlay(connections, cid, newC))
      BY <1>5, <1>7, OverlayKeepsUnique
    <2>2. QED
      BY <1>2, <2>1 DEF Overlaid
  <1>9. /\ DOMAIN tid = ts
        /\ DOMAIN tools' = DOMAIN tools \cup Range(tid)
        /\ Range(tid) \subseteq DOMAIN tools \cup (ToolIDs \ issued)
        /\ \A s \in ts : tid[s] \in DOMAIN tools' /\ tools'[tid[s]] = newT[s]
        /\ \A id \in DOMAIN tools :
              \/ id \in DOMAIN tools' /\ tools'[id] = tools[id]
              \/ \E s \in ts : id = tid[s] /\ tools[id].slug = s
        /\ Unique(Overlay(tools, tid, newT))
    <2>1. Overlaid(tools, ToolIDs, ts, newT, tid, Overlay(tools, tid, newT))
      BY <1>6, <1>7, OverlayKeepsUnique
    <2>2. QED
      BY <1>2, <2>1 DEF Overlaid
  <1>10. Range(cid) = {cid[s] : s \in cs} /\ Range(tid) = {tid[s] : s \in ts}
    BY <1>8, <1>9 DEF Range
  <1>11. ConnectionsOK'
    <2>1. DOMAIN connections' \subseteq ConnIDs \cap issued'
      BY <1>2, <1>8 DEF IInv, ConnectionsOK
    <2>2. ASSUME NEW c \in DOMAIN connections'
          PROVE  connections'[c] \in ConnRow
      <3>1. CASE \E s \in cs : c = cid[s]
        BY <1>5, <1>8, <3>1
      <3>2. CASE c \in DOMAIN connections /\ connections'[c] = connections[c]
        BY <3>2 DEF IInv, ConnectionsOK
      <3>3. QED
        BY <1>8, <1>10, <3>1, <3>2
    <2>3. Unique(connections)'
      BY <1>2, <1>8 DEF Unique
    <2>4. QED
      BY <2>1, <2>2, <2>3 DEF ConnectionsOK
  \* The connection a tool of the file goes through is there.
  <1>12. ASSUME NEW s \in ts, named(s) # None
         PROVE  /\ conns[named(s)] \in DOMAIN connections'
                /\ connections'[conns[named(s)]].slug = named(s)
    <2>1. CASE named(s) \in cs
      <3>1. /\ conns[named(s)] = cid[named(s)]
            /\ cid[named(s)] \in DOMAIN connections'
            /\ connections'[cid[named(s)]] = newC[named(s)]
        BY <1>3, <1>8, <2>1
      <3>2. newC[named(s)].slug = named(s)
        BY <1>5, <2>1
      <3>3. QED
        BY <3>1, <3>2
    <2>2. CASE named(s) \notin cs
      <3>1. Saved(connections, named(s)) # None
        BY <1>12, <2>2 DEF Resolved, cs, ts
      <3>2. /\ Saved(connections, named(s)) \in DOMAIN connections
            /\ connections[Saved(connections, named(s))].slug = named(s)
        BY <1>7, <3>1, SavedFinds
      <3>3. named(s) \in kept
        BY <3>2
      <3>4. conns[named(s)] = Saved(connections, named(s))
        BY <1>3, <2>2, <3>3
      <3>5. QED
        BY <1>8, <2>2, <3>2, <3>4
    <2>3. QED
      BY <2>1, <2>2
  <1>13. ASSUME NEW s \in ts
         PROVE  newT[s] \in ToolRow(DOMAIN connections')
    <2>1. ConnectionOf(conns, named(s)) \in DOMAIN connections' \cup {None}
      BY <1>12 DEF ConnectionOf
    <2>2. s \in Slugs
      BY <1>4
    <2>3. [slug |-> s, by |-> "file", connection |-> ConnectionOf(conns, named(s))]
             \in ToolRow(DOMAIN connections')
      BY <2>1, <2>2 DEF ToolRow
    <2>4. QED
      BY <1>6, <2>3
  <1>14. ToolsOK'
    <2>1. DOMAIN tools' \subseteq ToolIDs \cap issued'
      BY <1>2, <1>9 DEF IInv, ToolsOK
    <2>2. ToolRow(DOMAIN connections) \subseteq ToolRow(DOMAIN connections')
      BY <1>8 DEF ToolRow
    <2>3. ASSUME NEW t \in DOMAIN tools'
          PROVE  tools'[t] \in ToolRow(DOMAIN connections')
      <3>1. CASE \E s \in ts : t = tid[s]
        BY <1>9, <1>13, <3>1
      <3>2. CASE t \in DOMAIN tools /\ tools'[t] = tools[t]
        BY <2>2, <3>2 DEF IInv, ToolsOK
      <3>3. QED
        BY <1>9, <1>10, <3>1, <3>2
    <2>4. Unique(tools)'
      BY <1>2, <1>9 DEF Unique
    <2>5. QED
      BY <2>1, <2>3, <2>4 DEF ToolsOK
  <1>15. /\ DOMAIN tools \subseteq DOMAIN tools'
         /\ issued \subseteq issued'
         /\ issued' \subseteq ConnIDs \cup ToolIDs \cup ServerIDs
    BY <1>2, <1>8, <1>9 DEF IInv, ConnectionsOK, ToolsOK, RestOK
  <1>16. \A id \in DOMAIN connections :
            \/ id \in DOMAIN connections' /\ connections'[id] = connections[id]
            \/ connections[id].slug \in cs /\ Saved(connections, connections[id].slug) # None
    <2>1. \A id \in DOMAIN connections : Saved(connections, connections[id].slug) = id
      BY <1>7, SavedFinds
    <2>2. QED
      BY <1>7, <1>8, <2>1
  <1>17. \A id \in DOMAIN tools :
            \/ id \in DOMAIN tools' /\ tools'[id] = tools[id]
            \/ tools[id].slug \in ts /\ Saved(tools, tools[id].slug) # None
    <2>1. \A id \in DOMAIN tools : Saved(tools, tools[id].slug) = id
      BY <1>7, SavedFinds
    <2>2. QED
      BY <1>7, <1>9, <2>1
  <1>18. Complete(b, decisions, connections', tools')
    <2>1. ASSUME NEW s \in cs
          PROVE  \E c \in DOMAIN connections' : connections'[c] = [slug |-> s, by |-> "file"]
      BY <1>5, <1>8
    <2>2. ASSUME NEW s \in ts
          PROVE  \E t \in DOMAIN tools' :
                    /\ tools'[t].slug = s /\ tools'[t].by = "file"
                    /\ IF named(s) = None THEN tools'[t].connection = None
                       ELSE /\ tools'[t].connection \in DOMAIN connections'
                            /\ connections'[tools'[t].connection].slug = named(s)
      <3>1. /\ tid[s] \in DOMAIN tools'
            /\ tools'[tid[s]].slug = s /\ tools'[tid[s]].by = "file"
            /\ tools'[tid[s]].connection = ConnectionOf(conns, named(s))
        BY <1>6, <1>9
      <3>2. QED
        BY <1>12, <3>1 DEF ConnectionOf
    <2>3. QED
      BY <2>1, <2>2 DEF Complete, cs, ts
  <1>19. QED
    BY <1>11, <1>14, <1>15, <1>16, <1>17, <1>18 DEF cs, ts

LEMMA ImportToolsOK ==
    ASSUME IInv, NEW a \in Admins, ImportTools(a)
    PROVE  IInv'
  <1>1. /\ pending[a].bundle \in Bundles
        /\ Resolved(pending[a].bundle, pending[a].decisions)
        /\ WriteImport(pending[a].bundle, pending[a].decisions)
        /\ pending' = [pending EXCEPT ![a] = Idle]
        /\ UNCHANGED <<servers, enabled>>
    BY DEF ImportTools, IInv, RequestsOK, RequestOK
  <1>2. /\ ConnectionsOK' /\ ToolsOK'
        /\ DOMAIN tools \subseteq DOMAIN tools'
        /\ issued \subseteq issued'
        /\ issued' \subseteq ConnIDs \cup ToolIDs \cup ServerIDs
    BY <1>1, ImportWrites
  <1>3. writes' = writes + 1 /\ writes' \in 0 .. MaxWrites
    BY WriteCounted DEF ImportTools, IInv
  <1>4. ServersOK' /\ RequestsOK'
    BY <1>1, <1>2, <1>3, ServersStay, RequestEnds DEF IInv
  <1>5. RestOK'
    BY <1>1, <1>2, <1>3 DEF IInv, RestOK
  <1>6. QED
    BY <1>2, <1>4, <1>5 DEF IInv

-----------------------------------------------------------------------------
LEMMA NextOK ==
    ASSUME IInv, [Next]_vars
    PROVE  IInv'
  <1>1. CASE UNCHANGED vars
    <2>1. RequestsOK'
      BY <1>1, RequestsStay DEF vars, IInv
    <2>2. QED
      BY <1>1, <2>1, RequestStepOK DEF vars
  <1>2. CASE \/ \E s \in Slugs : CreateAPIConnection(s)
             \/ \E c \in ConnIDs, s \in Slugs : UpdateAPIConnection(c, s)
    BY <1>2, ConnectionStepOK
  <1>3. CASE \E c \in ConnIDs : DeleteAPIConnection(c)
    BY <1>3, DeleteConnectionOK
  <1>4. CASE \E a \in Admins : CreateTool(a)
    BY <1>4, CreateToolOK
  <1>5. CASE \E t \in ToolIDs, s \in Slugs, c \in ConnIDs \cup {None} : UpdateTool(t, s, c)
    BY <1>5, UpdateToolOK
  <1>6. CASE \E t \in ToolIDs : DeleteTool(t)
    BY <1>6, DeleteToolOK
  <1>7. CASE \/ \E e \in Endpoints : CreateMCPServer(e)
             \/ \E s \in ServerIDs, e \in Endpoints : UpdateEndpoint(s, e)
             \/ \E s \in ServerIDs : UpdateDetails(s)
    BY <1>7, ServerStepOK
  <1>8. CASE \E s \in ServerIDs : DeleteMCPServer(s)
    BY <1>8, DeleteServerOK
  <1>9. CASE \E a \in Admins : RecordSync(a)
    BY <1>9, RecordSyncOK
  <1>10. CASE \E sources \in SUBSET (ToolIDs \cup ServerIDs) : ReplaceAgentTools(sources)
    BY <1>10, ReplaceAgentToolsOK
  <1>11. CASE \E a \in Admins : ImportTools(a)
    BY <1>11, ImportToolsOK
  <1>12. CASE \/ \E a \in Admins, s \in Slugs, c \in ConnIDs \cup {None} :
                    BeginCreateTool(a, s, c)
              \/ \E a \in Admins, s \in ServerIDs : BeginRefresh(a, s)
              \/ \E a \in Admins, b \in Bundles : PreviewToolImport(a, b)
              \/ \E a \in Admins : RefuseTool(a) \/ RefuseSync(a) \/ RefuseImport(a)
    BY <1>12, BeginStepOK
  <1>13. QED
    BY <1>1, <1>2, <1>3, <1>4, <1>5, <1>6, <1>7, <1>8, <1>9, <1>10, <1>11, <1>12 DEF Next

THEOREM Invariant == Spec => []IInv
  <1>1. IInv /\ [Next]_vars => IInv'
    BY NextOK
  <1>2. QED
    BY InitOK, <1>1, PTL DEF Spec

\* Whatever requests overlap, every tool goes through a connection that is there, a slug
\* names one row of its table, and an agent is bound to tools and servers that exist.
THEOREM TablesHold == Spec => []TypeOK
  <1>1. QED
    BY Invariant, TypesFollow, PTL

-----------------------------------------------------------------------------
(* An import and its preview.                                              *)

\* What the plan accepts, the transaction can write.
LEMMA AcceptedIsResolved ==
    ASSUME NEW b, NEW decisions, Accepted(b, decisions)
    PROVE  Resolved(b, decisions)
  <1> SUFFICES ASSUME NEW slug \in Written("tool", b.tools, decisions)
               PROVE  LET name == b.tools[Entry(b.tools, slug)].connection
                      IN  \/ name = None
                          \/ Saved(connections, name) # None
                          \/ name \in Written("connection", b.connections, decisions)
    BY DEF Resolved
  <1> DEFINE name == b.tools[Entry(b.tools, slug)].connection
  <1>1. slug \in Named(b.tools) /\ decisions[<<"tool", slug>>] # "skip"
    BY DEF Written
  <1>2. ToolStatus(b, decisions, slug) # "invalid"
    BY <1>1 DEF Accepted, Problem
  <1>3. name = None \/ Usable(b, decisions, name)
    BY <1>2 DEF ToolStatus, Status
  <1>4. QED
    BY <1>3 DEF Usable, Written

\* What the plan refuses, it refuses for a reason one can act on.
LEMMA RefusedForAReason ==
    ASSUME NEW b, NEW decisions, ~ Accepted(b, decisions)
    PROVE  Refusable(b, decisions)
  <1>1. CASE \E slug \in Named(b.connections) :
                Problem(ConnectionStatus(b, slug), decisions[<<"connection", slug>>])
    <2>1. PICK slug \in Named(b.connections) :
              Problem(ConnectionStatus(b, slug), decisions[<<"connection", slug>>])
      BY <1>1
    <2>2. slug \in Written("connection", b.connections, decisions)
      BY <2>1 DEF Written, Problem
    <2>3. \/ ~ b.connections[Entry(b.connections, slug)].valid
          \/ /\ Saved(connections, slug) # None
             /\ decisions[<<"connection", slug>>] # "overwrite"
      BY <2>1 DEF Problem, ConnectionStatus, Status
    <2>4. QED
      BY <2>2, <2>3 DEF Refusable
  <1>2. CASE \E slug \in Named(b.tools) :
                Problem(ToolStatus(b, decisions, slug), decisions[<<"tool", slug>>])
    <2>1. PICK slug \in Named(b.tools) :
              Problem(ToolStatus(b, decisions, slug), decisions[<<"tool", slug>>])
      BY <1>2
    <2> DEFINE entry == b.tools[Entry(b.tools, slug)]
               name == entry.connection
    <2>2. slug \in Written("tool", b.tools, decisions)
      BY <2>1 DEF Written, Problem
    <2>3. \/ ~ entry.valid
          \/ name # None /\ ~ Usable(b, decisions, name)
          \/ /\ Saved(tools, slug) # None
             /\ decisions[<<"tool", slug>>] # "overwrite"
      BY <2>1 DEF Problem, ToolStatus, Status
    <2>4. CASE name # None /\ ~ Usable(b, decisions, name)
      <3>1. /\ Saved(connections, name) = None
            /\ \/ name \notin Written("connection", b.connections, decisions)
               \/ ConnectionStatus(b, name) = "invalid"
        BY <2>4 DEF Usable, Written
      <3>2. CASE name \notin Written("connection", b.connections, decisions)
        BY <2>2, <2>4, <3>1, <3>2 DEF Refusable
      <3>3. CASE /\ name \in Written("connection", b.connections, decisions)
                 /\ ConnectionStatus(b, name) = "invalid"
        <4>1. ~ b.connections[Entry(b.connections, name)].valid
          BY <3>1, <3>3 DEF ConnectionStatus, Status
        <4>2. QED
          BY <3>3, <4>1 DEF Refusable
      <3>4. QED
        BY <3>1, <3>2, <3>3
    <2>5. QED
      BY <2>2, <2>3, <2>4 DEF Refusable
  <1>3. QED
    BY <1>1, <1>2 DEF Accepted

\* A saved row whose slug an accepted import writes was given up.
LEMMA AcceptedWasGivenUp ==
    ASSUME NEW b, NEW decisions, Accepted(b, decisions)
    PROVE  /\ \A slug \in Written("connection", b.connections, decisions) :
                 Saved(connections, slug) # None =>
                    decisions[<<"connection", slug>>] = "overwrite"
           /\ \A slug \in Written("tool", b.tools, decisions) :
                 Saved(tools, slug) # None => decisions[<<"tool", slug>>] = "overwrite"
  <1>1. ASSUME NEW slug \in Written("connection", b.connections, decisions),
               Saved(connections, slug) # None
        PROVE  decisions[<<"connection", slug>>] = "overwrite"
    <2>1. /\ slug \in Named(b.connections)
          /\ decisions[<<"connection", slug>>] # "skip"
      BY DEF Written
    <2>2. ~ Problem(ConnectionStatus(b, slug), decisions[<<"connection", slug>>])
      BY <2>1 DEF Accepted
    <2>3. QED
      BY <1>1, <2>1, <2>2 DEF Problem, ConnectionStatus, Status
  <1>2. ASSUME NEW slug \in Written("tool", b.tools, decisions), Saved(tools, slug) # None
        PROVE  decisions[<<"tool", slug>>] = "overwrite"
    <2>1. slug \in Named(b.tools) /\ decisions[<<"tool", slug>>] # "skip"
      BY DEF Written
    <2>2. ~ Problem(ToolStatus(b, decisions, slug), decisions[<<"tool", slug>>])
      BY <2>1 DEF Accepted
    <2>3. QED
      BY <1>2, <2>1, <2>2 DEF Problem, ToolStatus, Status
  <1>3. QED
    BY <1>1, <1>2

AsDecided(a) ==
    (pending[a].step = "deciding" /\ pending'[a] = Idle) =>
        LET b == pending[a].bundle
            decisions == pending[a].decisions
        IN  \/ /\ Refusable(b, decisions) /\ ~ Accepted(b, decisions)
               /\ connections' = connections /\ tools' = tools
            \/ /\ OnlyGivenUp("connection", connections, connections', decisions)
               /\ OnlyGivenUp("tool", tools, tools', decisions)
               /\ Complete(b, decisions, connections', tools')

LEMMA RefuseAsDecided ==
    ASSUME NEW a \in Admins, RefuseImport(a)
    PROVE  AsDecided(a)
  <1>1. ~ Accepted(pending[a].bundle, pending[a].decisions)
    BY AcceptedIsResolved DEF RefuseImport
  <1>2. Refusable(pending[a].bundle, pending[a].decisions)
    BY <1>1, RefusedForAReason
  <1>3. connections' = connections /\ tools' = tools
    BY DEF RefuseImport
  <1>4. QED
    BY <1>1, <1>2, <1>3 DEF AsDecided

LEMMA ImportAsDecided ==
    ASSUME IInv, NEW a \in Admins, ImportTools(a)
    PROVE  AsDecided(a)
  <1> DEFINE b == pending[a].bundle
             decisions == pending[a].decisions
  <1>1. /\ b \in Bundles
        /\ Accepted(b, decisions) /\ Resolved(b, decisions) /\ WriteImport(b, decisions)
    BY DEF ImportTools, IInv, RequestsOK, RequestOK
  <1> HIDE DEF b, decisions
  <1>2. /\ \A id \in DOMAIN connections :
              \/ id \in DOMAIN connections' /\ connections'[id] = connections[id]
              \/ /\ connections[id].slug \in Written("connection", b.connections, decisions)
                 /\ Saved(connections, connections[id].slug) # None
        /\ \A id \in DOMAIN tools :
              \/ id \in DOMAIN tools' /\ tools'[id] = tools[id]
              \/ /\ tools[id].slug \in Written("tool", b.tools, decisions)
                 /\ Saved(tools, tools[id].slug) # None
        /\ Complete(b, decisions, connections', tools')
    BY <1>1, ImportWrites
  <1>3. OnlyGivenUp("connection", connections, connections', decisions)
    BY <1>1, <1>2, AcceptedWasGivenUp DEF OnlyGivenUp
  <1>4. OnlyGivenUp("tool", tools, tools', decisions)
    BY <1>1, <1>2, AcceptedWasGivenUp DEF OnlyGivenUp
  <1>5. QED
    BY <1>2, <1>3, <1>4 DEF AsDecided, b, decisions

\* No other step ends a request that is deciding.
LEMMA OthersDoNotDecide ==
    ASSUME IInv, [Next]_vars, NEW a \in Admins, pending[a].step = "deciding",
           pending'[a] = Idle
    PROVE  ImportTools(a) \/ RefuseImport(a)
  <1>1. pending'[a] # pending[a]
    BY DEF Idle
  <1>2. DOMAIN pending = Admins
    BY DEF IInv, RequestsOK
  <1>3. PICK b \in Admins :
            \/ CreateTool(b) \/ RefuseTool(b) \/ RecordSync(b) \/ RefuseSync(b)
            \/ ImportTools(b) \/ RefuseImport(b)
            \/ \E s \in Slugs, c \in ConnIDs \cup {None} : BeginCreateTool(b, s, c)
            \/ \E s \in ServerIDs : BeginRefresh(b, s)
            \/ \E f \in Bundles : PreviewToolImport(b, f)
    BY <1>1 DEF Next, vars, CreateAPIConnection, UpdateAPIConnection, DeleteAPIConnection,
            UpdateTool, DeleteTool, CreateMCPServer, UpdateEndpoint, UpdateDetails,
            DeleteMCPServer, ReplaceAgentTools
  <1>4. b = a
    <2>1. \E fresh : pending' = [pending EXCEPT ![b] = fresh]
      BY <1>3 DEF CreateTool, RefuseTool, RecordSync, RefuseSync, ImportTools,
                  RefuseImport, BeginCreateTool, BeginRefresh, PreviewToolImport
    <2>2. QED
      BY <1>1, <1>2, <2>1
  <1>5. pending[b] # Idle
    BY <1>4 DEF Idle
  <1>6. QED
    BY <1>3, <1>4, <1>5 DEF CreateTool, RefuseTool, RecordSync, RefuseSync,
       BeginCreateTool, BeginRefresh, PreviewToolImport

\* Whatever was created, renamed or deleted between a preview and its import, the import
\* does all that was decided, replacing only rows that were given up, or nothing, for a
\* reason the administrator can act on; what the plan accepts is never undone.
THEOREM ImportsDoAsDecided == Spec => ImportsAsDecided
  <1>1. IInv /\ [Next]_vars => [\A a \in Admins : AsDecided(a)]_vars
    <2> SUFFICES ASSUME IInv, [Next]_vars, NEW a \in Admins,
                        pending[a].step = "deciding", pending'[a] = Idle
                 PROVE  AsDecided(a)
      BY DEF AsDecided
    <2>1. QED
      BY OthersDoNotDecide, ImportAsDecided, RefuseAsDecided
  <1>2. QED
    BY <1>1, Invariant, PTL DEF Spec, ImportsAsDecided, AsDecided
=============================================================================
