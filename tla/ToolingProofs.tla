---------------------------- MODULE ToolingProofs ----------------------------
(***************************************************************************)
(* A proof about Tooling for any number of servers, endpoints,             *)
(* administrators and writes: a catalogue always belongs to the settings   *)
(* its server has.                                                         *)
(***************************************************************************)
EXTENDS Tooling, TLAPS

-----------------------------------------------------------------------------
(* The inductive invariant.                                                *)

ServerRow == [endpoint : Endpoints, revision : Nat,
              catalogue : Endpoints \cup {None},
              status : {"unchecked", "ok", "failing"}]

\* The rows of mcp_servers; an identifier is given once.
ServersOK ==
    /\ DOMAIN servers \subseteq issued
    /\ \A s \in DOMAIN servers : servers[s] \in ServerRow

\* What a refresh has read: the settings of a revision the server has had, with the
\* catalogue it had then. As long as the revision is the present one, so are they.
RefreshOK(a) ==
    pending[a].step = "refreshing" =>
        LET id == pending[a].id
            read == pending[a].server
        IN  /\ id \in issued
            /\ read.revision \in Nat
            /\ read.catalogue \in {None, read.endpoint}
            /\ id \in DOMAIN servers =>
                  /\ read.revision <= servers[id].revision
                  /\ read.revision = servers[id].revision =>
                        read.endpoint = servers[id].endpoint

IInv ==
    /\ DOMAIN pending = Admins
    /\ ServersOK
    /\ \A a \in Admins : RefreshOK(a)
    /\ CatalogueMatchesSettings

-----------------------------------------------------------------------------
LEMMA InitOK == Init => IInv
  BY DEF Init, IInv, ServersOK, RefreshOK, CatalogueMatchesSettings, Idle

\* A step that leaves servers alone and puts no refresh into a request.
LEMMA ServersUntouched ==
    ASSUME IInv, servers' = servers, issued \subseteq issued',
           \/ pending' = pending
           \/ \E a \in Admins : \E fresh :
                 pending' = [pending EXCEPT ![a] = fresh] /\ fresh.step # "refreshing"
    PROVE  IInv'
  <1>1. ServersOK' /\ CatalogueMatchesSettings'
    BY DEF IInv, ServersOK, CatalogueMatchesSettings
  <1>2. /\ DOMAIN pending' = Admins
        /\ \A a \in Admins : pending'[a] = pending[a] \/ pending'[a].step # "refreshing"
    BY DEF IInv
  <1>3. ASSUME NEW a \in Admins
        PROVE  RefreshOK(a)'
    BY <1>2 DEF IInv, RefreshOK
  <1>4. QED
    BY <1>1, <1>2, <1>3 DEF IInv

\* The steps of connections, tools, bindings and imports.
LEMMA OtherStepOK ==
    ASSUME IInv,
           \/ \E s \in Slugs : CreateAPIConnection(s)
           \/ \E c \in ConnIDs, s \in Slugs : UpdateAPIConnection(c, s)
           \/ \E c \in ConnIDs : DeleteAPIConnection(c)
           \/ \E a \in Admins, s \in Slugs, c \in ConnIDs \cup {None} :
                 BeginCreateTool(a, s, c)
           \/ \E a \in Admins : CreateTool(a) \/ RefuseTool(a) \/ RefuseSync(a)
           \/ \E t \in ToolIDs, s \in Slugs, c \in ConnIDs \cup {None} : UpdateTool(t, s, c)
           \/ \E t \in ToolIDs : DeleteTool(t)
           \/ \E sources \in SUBSET (ToolIDs \cup ServerIDs) : ReplaceAgentTools(sources)
           \/ \E a \in Admins, b \in Bundles : PreviewToolImport(a, b)
           \/ \E a \in Admins : ImportTools(a) \/ RefuseImport(a)
    PROVE  IInv'
  <1>1. servers' = servers
    BY DEF CreateAPIConnection, UpdateAPIConnection, DeleteAPIConnection, BeginCreateTool,
           CreateTool, RefuseTool, RefuseSync, UpdateTool, DeleteTool, ReplaceAgentTools,
           PreviewToolImport, ImportTools, RefuseImport
  <1>2. issued \subseteq issued'
    BY DEF CreateAPIConnection, UpdateAPIConnection, DeleteAPIConnection, BeginCreateTool,
           CreateTool, RefuseTool, RefuseSync, UpdateTool, DeleteTool, ReplaceAgentTools,
           PreviewToolImport, ImportTools, RefuseImport, WriteImport
  <1>3. \/ pending' = pending
        \/ \E a \in Admins : \E fresh :
                 pending' = [pending EXCEPT ![a] = fresh] /\ fresh.step # "refreshing"
    <2>1. Idle.step # "refreshing"
      BY DEF Idle
    <2>2. ASSUME NEW a \in Admins, NEW s \in Slugs, NEW c \in ConnIDs \cup {None},
                 BeginCreateTool(a, s, c)
          PROVE  \E fresh :
                    pending' = [pending EXCEPT ![a] = fresh] /\ fresh.step # "refreshing"
      <3> DEFINE fresh == [step |-> "creating", slug |-> s, connection |-> c]
      <3>1. pending' = [pending EXCEPT ![a] = fresh]
        BY <2>2 DEF BeginCreateTool
      <3>2. fresh.step # "refreshing"
        OBVIOUS
      <3> HIDE DEF fresh
      <3>3. QED
        BY <3>1, <3>2
    <2>3. ASSUME NEW a \in Admins, NEW b \in Bundles, PreviewToolImport(a, b)
          PROVE  \E fresh :
                    pending' = [pending EXCEPT ![a] = fresh] /\ fresh.step # "refreshing"
      <3>1. PICK decisions :
               pending' = [pending EXCEPT ![a] =
                             [step |-> "deciding", bundle |-> b, decisions |-> decisions]]
        BY <2>3 DEF PreviewToolImport
      <3> DEFINE fresh == [step |-> "deciding", bundle |-> b, decisions |-> decisions]
      <3>2. fresh.step # "refreshing"
        OBVIOUS
      <3>3. pending' = [pending EXCEPT ![a] = fresh]
        BY <3>1
      <3> HIDE DEF fresh
      <3>4. QED
        BY <3>2, <3>3
    <2>4. ASSUME NEW a \in Admins,
                 \/ CreateTool(a) \/ RefuseTool(a) \/ RefuseSync(a)
                 \/ ImportTools(a) \/ RefuseImport(a)
          PROVE  pending' = [pending EXCEPT ![a] = Idle]
      BY <2>4 DEF CreateTool, RefuseTool, RefuseSync, ImportTools, RefuseImport
    <2>5. QED
      BY <2>1, <2>2, <2>3, <2>4
      DEF CreateAPIConnection, UpdateAPIConnection, DeleteAPIConnection, UpdateTool,
          DeleteTool, ReplaceAgentTools
  <1>4. QED
    BY <1>1, <1>2, <1>3, ServersUntouched

\* A server, with an identifier no refresh knows.
LEMMA CreateServerOK ==
    ASSUME IInv, NEW e \in Endpoints, CreateMCPServer(e)
    PROVE  IInv'
  <1>1. PICK id \in Fresh(ServerIDs) :
            /\ servers' = Put(servers, id, [endpoint |-> e, revision |-> 1,
                                            catalogue |-> None, status |-> "unchecked"])
            /\ issued' = issued \cup {id}
            /\ pending' = pending
    BY DEF CreateMCPServer
  <1>2. id \notin issued
    BY DEF Fresh
  <1>3. /\ DOMAIN servers' = DOMAIN servers \cup {id}
        /\ servers'[id] = [endpoint |-> e, revision |-> 1,
                           catalogue |-> None, status |-> "unchecked"]
        /\ \A s \in DOMAIN servers : servers'[s] = servers[s]
    BY <1>1, <1>2 DEF Put, IInv, ServersOK
  <1>4. ServersOK'
    BY <1>1, <1>3 DEF IInv, ServersOK, ServerRow
  <1>5. CatalogueMatchesSettings'
    BY <1>3 DEF IInv, CatalogueMatchesSettings
  <1>6. ASSUME NEW a \in Admins
        PROVE  RefreshOK(a)'
    BY <1>1, <1>2, <1>3 DEF IInv, RefreshOK
  <1>7. QED
    BY <1>1, <1>4, <1>5, <1>6 DEF IInv

\* New settings drop the catalogue, and both updates outdate what was read before.
LEMMA UpdateServerOK ==
    ASSUME IInv, NEW id \in ServerIDs, NEW e \in Endpoints,
           UpdateEndpoint(id, e) \/ UpdateDetails(id)
    PROVE  IInv'
  <1>1. /\ id \in DOMAIN servers
        /\ \/ servers' = [servers EXCEPT ![id] = ChangedEndpoint(servers[id], e)]
           \/ servers' = [servers EXCEPT ![id].revision = servers[id].revision + 1]
        /\ UNCHANGED <<pending, issued>>
    BY DEF UpdateEndpoint, UpdateDetails
  <1>2. DOMAIN servers' = DOMAIN servers /\ servers[id] \in ServerRow
    BY <1>1 DEF IInv, ServersOK
  <1>3. \A s \in DOMAIN servers \ {id} : servers'[s] = servers[s]
    BY <1>1
  <1>4. \/ servers'[id] = ChangedEndpoint(servers[id], e)
        \/ servers'[id] = [servers[id] EXCEPT !.revision = servers[id].revision + 1]
    BY <1>1
  <1>5. /\ servers'[id] \in ServerRow
        /\ servers'[id].revision = servers[id].revision + 1
        /\ servers'[id].catalogue \in {None, servers'[id].endpoint}
        /\ servers'[id].status = "ok" => servers'[id].catalogue = servers'[id].endpoint
    <2>1. CASE servers'[id] = ChangedEndpoint(servers[id], e)
      BY <1>2, <2>1 DEF ChangedEndpoint, ServerRow
    <2>2. CASE servers'[id] = [servers[id] EXCEPT !.revision = servers[id].revision + 1]
      <3>1. /\ servers[id].catalogue \in {None, servers[id].endpoint}
            /\ servers[id].status = "ok" => servers[id].catalogue = servers[id].endpoint
        BY <1>1 DEF IInv, CatalogueMatchesSettings
      <3>2. QED
        BY <1>2, <2>2, <3>1 DEF ServerRow
    <2>3. QED
      BY <1>4, <2>1, <2>2
  <1>6. ServersOK'
    BY <1>1, <1>2, <1>3, <1>5 DEF IInv, ServersOK
  <1>7. CatalogueMatchesSettings'
    BY <1>2, <1>3, <1>5 DEF IInv, CatalogueMatchesSettings
  <1>8. ASSUME NEW a \in Admins
        PROVE  RefreshOK(a)'
    BY <1>1, <1>2, <1>3, <1>5 DEF IInv, RefreshOK, ServerRow
  <1>9. QED
    BY <1>1, <1>6, <1>7, <1>8 DEF IInv

LEMMA DeleteServerOK ==
    ASSUME IInv, NEW id \in ServerIDs, DeleteMCPServer(id)
    PROVE  IInv'
  <1>1. /\ servers' = Without(servers, id)
        /\ UNCHANGED <<pending, issued>>
    BY DEF DeleteMCPServer
  <1>2. /\ DOMAIN servers' = DOMAIN servers \ {id}
        /\ \A s \in DOMAIN servers' : servers'[s] = servers[s]
    BY <1>1 DEF Without
  <1>3. ServersOK' /\ CatalogueMatchesSettings'
    BY <1>1, <1>2 DEF IInv, ServersOK, CatalogueMatchesSettings
  <1>4. ASSUME NEW a \in Admins
        PROVE  RefreshOK(a)'
    BY <1>1, <1>2 DEF IInv, RefreshOK
  <1>5. QED
    BY <1>1, <1>3, <1>4 DEF IInv

\* What a refresh reads is the present revision.
LEMMA BeginRefreshOK ==
    ASSUME IInv, NEW b \in Admins, NEW id \in ServerIDs, BeginRefresh(b, id)
    PROVE  IInv'
  <1> DEFINE fresh == [step |-> "refreshing", id |-> id, server |-> servers[id]]
  <1>1. /\ id \in DOMAIN servers
        /\ pending' = [pending EXCEPT ![b] = fresh]
        /\ UNCHANGED <<servers, issued>>
    BY DEF BeginRefresh
  <1>2. ServersOK' /\ CatalogueMatchesSettings'
    BY <1>1 DEF IInv, ServersOK, CatalogueMatchesSettings
  <1>3. RefreshOK(b)'
    <2>1. pending'[b].id = id /\ pending'[b].server = servers[id]
      BY <1>1 DEF IInv
    <2>2. servers[id].revision \in Nat /\ id \in issued
      BY <1>1 DEF IInv, ServersOK, ServerRow
    <2>3. QED
      BY <1>1, <2>1, <2>2 DEF IInv, RefreshOK, CatalogueMatchesSettings
  <1>4. ASSUME NEW a \in Admins \ {b}
        PROVE  RefreshOK(a)'
    BY <1>1 DEF IInv, RefreshOK
  <1>5. QED
    BY <1>1, <1>2, <1>3, <1>4 DEF IInv

\* A result is written only over the revision it belongs to.
LEMMA RecordSyncOK ==
    ASSUME IInv, NEW b \in Admins, RecordSync(b)
    PROVE  IInv'
  <1> DEFINE id == pending[b].id
             read == pending[b].server
  <1>1. PICK result \in SyncResults(read) :
            servers' = [servers EXCEPT ![id].catalogue = result.catalogue,
                                       ![id].status = result.status]
    BY DEF RecordSync
  <1>2. /\ pending[b].step = "refreshing"
        /\ id \in DOMAIN servers /\ servers[id].revision = read.revision
        /\ pending' = [pending EXCEPT ![b] = Idle]
        /\ issued' = issued
    BY DEF RecordSync, SyncApplies
  <1>3. /\ read.endpoint = servers[id].endpoint
        /\ read.catalogue \in {None, read.endpoint}
    BY <1>2 DEF IInv, RefreshOK
  <1>4. /\ result.catalogue \in {None, read.endpoint}
        /\ result.status = "ok" => result.catalogue = read.endpoint
    BY <1>3 DEF SyncResults
  <1>5. /\ DOMAIN servers' = DOMAIN servers
        /\ \A s \in DOMAIN servers \ {id} : servers'[s] = servers[s]
        /\ servers'[id] \in ServerRow
        /\ servers'[id].endpoint = servers[id].endpoint
        /\ servers'[id].revision = servers[id].revision
        /\ servers'[id].catalogue = result.catalogue
        /\ servers'[id].status = result.status
    <2>1. servers[id] \in ServerRow
      BY <1>2 DEF IInv, ServersOK
    <2>2. /\ DOMAIN servers' = DOMAIN servers
          /\ \A s \in DOMAIN servers \ {id} : servers'[s] = servers[s]
          /\ servers'[id] = [servers[id] EXCEPT !.catalogue = result.catalogue,
                                                !.status = result.status]
      BY <1>1, <1>2
    <2>3. result.catalogue \in Endpoints \cup {None} /\ result.status \in {"ok", "failing"}
      BY <1>3, <1>4, <2>1 DEF SyncResults, ServerRow
    <2>4. QED
      BY <2>1, <2>2, <2>3 DEF ServerRow
  <1>6. ServersOK'
    BY <1>2, <1>5 DEF IInv, ServersOK
  <1>7. CatalogueMatchesSettings'
    BY <1>3, <1>4, <1>5 DEF IInv, CatalogueMatchesSettings
  <1>8. ASSUME NEW a \in Admins
        PROVE  RefreshOK(a)'
    <2>1. Idle.step # "refreshing"
      BY DEF Idle
    <2>2. pending'[a] = pending[a] \/ pending'[a].step # "refreshing"
      BY <1>2, <2>1 DEF IInv
    <2>3. QED
      BY <1>2, <1>5, <2>2 DEF IInv, RefreshOK
  <1>9. QED
    BY <1>2, <1>6, <1>7, <1>8 DEF IInv

LEMMA NextOK ==
    ASSUME IInv, [Next]_vars
    PROVE  IInv'
  <1>1. CASE UNCHANGED vars
    BY <1>1, ServersUntouched DEF vars
  <1>2. CASE \E e \in Endpoints : CreateMCPServer(e)
    BY <1>2, CreateServerOK
  <1>3. CASE \/ \E s \in ServerIDs, e \in Endpoints : UpdateEndpoint(s, e)
             \/ \E s \in ServerIDs : UpdateDetails(s)
    <2>1. ASSUME NEW s \in ServerIDs, UpdateDetails(s)
          PROVE  servers[s].endpoint \in Endpoints
      BY <2>1 DEF IInv, ServersOK, ServerRow, UpdateDetails
    <2>2. QED
      BY <1>3, <2>1, UpdateServerOK
  <1>4. CASE \E s \in ServerIDs : DeleteMCPServer(s)
    BY <1>4, DeleteServerOK
  <1>5. CASE \E a \in Admins, s \in ServerIDs : BeginRefresh(a, s)
    BY <1>5, BeginRefreshOK
  <1>6. CASE \E a \in Admins : RecordSync(a)
    BY <1>6, RecordSyncOK
  <1>7. CASE \/ \E s \in Slugs : CreateAPIConnection(s)
             \/ \E c \in ConnIDs, s \in Slugs : UpdateAPIConnection(c, s)
             \/ \E c \in ConnIDs : DeleteAPIConnection(c)
             \/ \E a \in Admins, s \in Slugs, c \in ConnIDs \cup {None} :
                   BeginCreateTool(a, s, c)
             \/ \E a \in Admins : CreateTool(a) \/ RefuseTool(a) \/ RefuseSync(a)
             \/ \E t \in ToolIDs, s \in Slugs, c \in ConnIDs \cup {None} : UpdateTool(t, s, c)
             \/ \E t \in ToolIDs : DeleteTool(t)
             \/ \E sources \in SUBSET (ToolIDs \cup ServerIDs) : ReplaceAgentTools(sources)
             \/ \E a \in Admins, b \in Bundles : PreviewToolImport(a, b)
             \/ \E a \in Admins : ImportTools(a) \/ RefuseImport(a)
    BY <1>7, OtherStepOK
  <1>8. QED
    BY <1>1, <1>2, <1>3, <1>4, <1>5, <1>6, <1>7 DEF Next

THEOREM Invariant == Spec => []IInv
  <1>1. IInv /\ [Next]_vars => IInv'
    BY NextOK
  <1>2. QED
    BY InitOK, <1>1, PTL DEF Spec

\* Whatever refreshes and updates overlap, and however late a server answers, the
\* catalogue of a server was fetched with the settings the server has.
THEOREM CataloguesMatch == Spec => []CatalogueMatchesSettings
  <1>1. IInv => CatalogueMatchesSettings
    BY DEF IInv
  <1>2. QED
    BY Invariant, <1>1, PTL
=============================================================================
