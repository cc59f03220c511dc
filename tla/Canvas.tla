------------------------------- MODULE Canvas -------------------------------
(***************************************************************************)
(* The canvases of a project.  A batch of commands is applied to a private *)
(* copy of one document's graph, all of it or nothing, under the revision  *)
(* its author has seen, and the difference is written to rows of which     *)
(* none is ever removed: a node or an edge taken off the canvas may come   *)
(* back under its identity.  Tools on the canvas use other nodes or name   *)
(* media themselves, the media library asks the canvas before it purges,   *)
(* and a copy of the project freezes every canvas and rebuilds it under    *)
(* identities of its own.  Positions, sizes, titles, colours, cameras and  *)
(* texts of the nodes are left out.                                        *)
(***************************************************************************)
EXTENDS Naturals, Sequences, FiniteSets, Functions, TLC

CONSTANTS
    Documents,   \* canvases of the project
    Ids,         \* identities clients choose for nodes, numbers from 1
    EdgeIds,     \* identities clients choose for edges
    Assets,      \* media of the project, numbers from 1
    MaxNodes, MaxEdges, MaxBatch,  \* 2000 nodes and 4000 edges in a graph, 2000 items in a command
    MaxRevision, \* bound on the commands a document takes
    MaxMedia     \* bound on the steps of the media library

VARIABLES
    document,    \* canvas.document: its revision, 0 before it exists, and whether it is deleted
    node,        \* canvas.node, also of nodes taken off the canvas
    edge,        \* canvas.edge, likewise
    log,         \* media named in canvas.command_log
    answer,      \* what the last batch was answered, and the nodes whose use it set
    media,       \* [asset -> "active", "trashed" or "purged"]
    moves        \* steps of the media library

rows == <<document, node, edge, log, answer>>
vars == <<rows>>

None == 0
NoUse == [node |-> None, asset |-> None]
NoNode == [document |-> None, kind |-> "none", asset |-> None, parent |-> None, use |-> NoUse, live |-> FALSE]
NoEdge == [document |-> None, ends |-> <<None, None>>, live |-> FALSE]
Empty == [nodes |-> <<>>, edges |-> <<>>]
NoAnswer == [document |-> None, graph |-> Empty, set |-> {}]

NoDocument == [revision |-> 0, deleted |-> FALSE]

(* A project that was copied starts with canvases no command ever built.     *)
Published ==
    [nodes |-> [n \in {1, 2} |->
        IF n = 1 THEN [kind |-> "image", asset |-> 1, parent |-> None, use |-> NoUse]
                 ELSE [kind |-> "timeline", asset |-> None, parent |-> None, use |-> [NoUse EXCEPT !.node = 1]]],
     edges |-> <<>>]

(* load: the graph the rows of a document hold. *)
Content(r) == [kind |-> r.kind, asset |-> r.asset, parent |-> r.parent, use |-> r.use]
Row(d, c) == [document |-> d, kind |-> c.kind, asset |-> c.asset, parent |-> c.parent,
              use |-> c.use, live |-> TRUE]
Load(d) ==
    [nodes |-> [n \in {m \in Ids : node[m].document = d /\ node[m].live} |-> Content(node[n])],
     edges |-> [e \in {f \in EdgeIds : edge[f].document = d /\ edge[f].live} |-> edge[e].ends]]

Live(d) == document[d].revision > 0 /\ ~document[d].deleted

Init ==
    /\ document \in [Documents -> {NoDocument, [NoDocument EXCEPT !.revision = 1]}]
    /\ \E arrived \in Documents \X {Empty, Published} :
         /\ arrived[2] = Published <=> document[arrived[1]].revision = 1
         /\ \A d \in Documents \ {arrived[1]} : document[d] = NoDocument
         /\ node = [n \in Ids |-> IF n \in DOMAIN arrived[2].nodes THEN Row(arrived[1], arrived[2].nodes[n]) ELSE NoNode]
    /\ edge = [e \in EdgeIds |-> NoEdge]
    /\ log = {} /\ answer = NoAnswer
    /\ media = [a \in Assets |-> "active"] /\ moves = 0

-----------------------------------------------------------------------------
(* domain.Apply *)

(* validParents: a parent is a group of the graph and no node is inside itself. *)
Ancestors(g, n) ==
    LET up[k \in 0..MaxNodes] ==
          IF k = 0 THEN {n}
          ELSE {g.nodes[m].parent : m \in up[k - 1] \cap DOMAIN g.nodes} \ {None}
    IN UNION {up[k] : k \in 1..MaxNodes}

ParentsExist(g) ==
    \A n \in DOMAIN g.nodes : LET p == g.nodes[n].parent IN
        p = None \/ (p \in DOMAIN g.nodes /\ g.nodes[p].kind = "group")
ValidParents(g) ==
    /\ ParentsExist(g)
    /\ \A n \in DOMAIN g.nodes : n \notin Ancestors(g, n)

(* validToolReferences: a tool uses nodes that show media. *)
ValidToolReferences(g) ==
    \A n \in DOMAIN g.nodes : LET u == g.nodes[n].use.node IN
        u = None \/ (u \in DOMAIN g.nodes /\ g.nodes[u].kind = "image" /\ g.nodes[u].asset # None)

Sound(g) ==
    /\ Cardinality(DOMAIN g.nodes) <= MaxNodes /\ Cardinality(DOMAIN g.edges) <= MaxEdges
    /\ ValidParents(g) /\ ValidToolReferences(g)

(* Only an image shows an asset, only a tool uses a node, and only a         *)
(* timeline may name an asset itself instead.                                *)
ValidConfig(n) ==
    /\ n.kind \notin {"timeline", "table"} => n.use = NoUse
    /\ n.kind = "table" => n.use.asset = None
    /\ n.use.node = None \/ n.use.asset = None
Editable(n) == ((n.kind = "image") <=> (n.asset # None)) /\ ValidConfig(n)

BatchSize(items) == items # {} /\ Cardinality(items) <= MaxBatch

AddNodes(g, added) ==
    [ok |-> BatchSize(DOMAIN added) /\ DOMAIN added \cap DOMAIN g.nodes = {}
            /\ \A n \in DOMAIN added : Editable(added[n]),
     graph |-> [g EXCEPT !.nodes = added @@ @]]

UpdateNodeConfig(g, n, use) ==
    [ok |-> n \in DOMAIN g.nodes /\ Editable([g.nodes[n] EXCEPT !.use = use]),
     graph |-> [g EXCEPT !.nodes[n].use = use]]

SetNodeParents(g, n, p) ==
    [ok |-> n \in DOMAIN g.nodes, graph |-> [g EXCEPT !.nodes[n].parent = p]]

(* clearTimelineReferences keeps the asset a removed node showed, while     *)
(* clearBatchReferences empties the slot.                                    *)
Cleared(g, n, gone) == IF g.nodes[n].use.node \notin gone THEN g.nodes[n].use ELSE NoUse
ClearTimelineReferences(g, use) == [node |-> None, asset |-> g.nodes[use.node].asset]
ClearBatchReferences(use) == NoUse
Kept(g, n, gone) ==
    LET use == g.nodes[n].use IN
    CASE use.node \notin gone -> use
      [] use.node \in gone /\ g.nodes[n].kind = "timeline" -> ClearTimelineReferences(g, use)
      [] OTHER -> ClearBatchReferences(use)

DeleteNodesOnly(g, gone) ==
    [ok |-> BatchSize(gone) /\ gone \subseteq DOMAIN g.nodes,
     graph |-> [g EXCEPT !.nodes = [n \in DOMAIN g.nodes \ gone |->
                     [g.nodes[n] EXCEPT !.use = Kept(g, n, gone),
                                        !.parent = IF @ \in gone THEN None ELSE @]]]]
DeleteNodes(g, gone) ==
    [ok |-> BatchSize(gone) /\ gone \subseteq DOMAIN g.nodes,
     graph |->
       [nodes |-> [n \in DOMAIN g.nodes \ gone |->
                     [g.nodes[n] EXCEPT !.use = Kept(g, n, gone),
                                        !.parent = IF @ \in gone THEN None ELSE @]],
        edges |-> Restrict(g.edges, {e \in DOMAIN g.edges :
                     g.edges[e][1] \notin gone /\ g.edges[e][2] \notin gone})]]

Connect(g, added) ==
    [ok |-> /\ BatchSize(DOMAIN added) /\ DOMAIN added \cap DOMAIN g.edges = {}
            /\ \A e \in DOMAIN added : /\ added[e][1] # added[e][2]
                                       /\ {added[e][1], added[e][2]} \subseteq DOMAIN g.nodes,
     graph |-> [g EXCEPT !.edges = added @@ @]]

Disconnect(g, gone) ==
    [ok |-> BatchSize(gone) /\ gone \subseteq DOMAIN g.edges,
     graph |-> [g EXCEPT !.edges = Restrict(@, DOMAIN @ \ gone)]]

(* MoveNodes, ResizeNodes, RenameNodes, SetNodeZIndex and SetViewport change *)
(* nothing the model keeps.                                                  *)
Arrange(g) == [ok |-> TRUE, graph |-> g]

ApplyOne(g, c) ==
    CASE c.type = "AddNodes" -> AddNodes(g, c.nodes)
      [] c.type = "UpdateNodeConfig" -> UpdateNodeConfig(g, c.id, c.use)
      [] c.type = "SetNodeParents" -> SetNodeParents(g, c.id, c.parent)
      [] c.type = "DeleteNodes" -> DeleteNodes(g, c.ids)
      [] c.type = "Connect" -> Connect(g, c.edges)
      [] c.type = "Disconnect" -> Disconnect(g, c.ids)
      [] OTHER -> Arrange(g)

(* The graph must be sound after every command of the batch. *)
Apply(d, batch) ==
    LET step[i \in 0..Len(batch)] ==
          IF i = 0 THEN [ok |-> TRUE, graph |-> Load(d)]
          ELSE LET before == step[i - 1]
                   done == ApplyOne(before.graph, batch[i]) IN
               IF before.ok /\ done.ok THEN [ok |-> Sound(done.graph), graph |-> done.graph]
               ELSE [ok |-> FALSE, graph |-> Empty]
    IN step[Len(batch)]

-----------------------------------------------------------------------------
(* Storing a batch *)

(* What a node and what a command names. *)
ConfigNames(use) == {use.asset} \ {None}
Names(n) == ({n.asset} \ {None}) \cup ConfigNames(n.use)
Mentioned(c) ==
    CASE c.type = "AddNodes" -> UNION {Names(c.nodes[n]) : n \in DOMAIN c.nodes}
      [] c.type = "UpdateNodeConfig" -> ConfigNames(c.use)
      [] OTHER -> {}

Addressed(c) ==
    CASE c.type = "AddNodes" -> DOMAIN c.nodes
      [] c.type = "UpdateNodeConfig" -> {c.id}
      [] OTHER -> {}

(* checkMediaReferences: what the commands name or use, looked up in the    *)
(* graph they lead to, must be media everybody may still see.               *)
Resolved(g, use) ==
    IF use.node \in DOMAIN g.nodes THEN {g.nodes[use.node].asset} ELSE ConfigNames(use)
Used(g, c) ==
    CASE c.type = "AddNodes" -> UNION {Names(c.nodes[n]) \cup
                 (IF c.nodes[n].kind = "timeline" THEN Resolved(g, c.nodes[n].use) ELSE {}) : n \in DOMAIN c.nodes}
      [] c.type = "UpdateNodeConfig" ->
                 IF c.id \in DOMAIN g.nodes /\ g.nodes[c.id].kind = "table" THEN {} ELSE Resolved(g, c.use)
      [] OTHER -> {}
Visible(a) == media[a] = "active"
MediaVisible(g, batch) == \A i \in 1..Len(batch) : \A a \in Used(g, batch[i]) : Visible(a)

(* saveGraph: a row of this identity may only be the same node of the same   *)
(* document.                                                                 *)
Changed(before, after) == {k \in DOMAIN after : k \notin DOMAIN before \/ before[k] # after[k]}
AvailableToAll(d, g) == TRUE
Available(d, g) ==
    /\ \A n \in Changed(Load(d).nodes, g.nodes) : \/ node[n] = NoNode
           \/ /\ node[n].document = d /\ node[n].kind = g.nodes[n].kind
              /\ node[n].asset = g.nodes[n].asset
    /\ \A e \in Changed(Load(d).edges, g.edges) : edge[e] = NoEdge \/ edge[e].document = d
SaveGraph(d, g) ==
    /\ Available(d, g)
    /\ LET old == Load(d) IN
        /\ node' = [n \in Ids |->
              IF n \in Changed(old.nodes, g.nodes) THEN Row(d, g.nodes[n])
              ELSE [node[n] EXCEPT !.live = @ /\ n \notin DOMAIN old.nodes \ DOMAIN g.nodes]]
        /\ edge' = [e \in EdgeIds |->
              IF e \in Changed(old.edges, g.edges) THEN [document |-> d, ends |-> g.edges[e], live |-> TRUE]
              ELSE [edge[e] EXCEPT !.live = @ /\ e \notin DOMAIN old.edges \ DOMAIN g.edges]]

Revised(d) == document[d].revision < MaxRevision /\ document' = [document EXCEPT ![d].revision = @ + 1]

Create(d) ==
    /\ document[d].revision = 0 /\ Revised(d)
    /\ UNCHANGED <<node, edge, log, answer, media, moves>>

Execute(d, batch) ==
    \E after \in {Apply(d, batch)} :
    /\ Live(d) /\ Revised(d)
    /\ after.ok /\ MediaVisible(after.graph, batch)
    /\ SaveGraph(d, after.graph)
    /\ log' = log \cup UNION {Mentioned(batch[i]) : i \in 1..Len(batch)}
    /\ answer' = [document |-> d, graph |-> after.graph,
                  set |-> UNION {Addressed(batch[i]) : i \in 1..Len(batch)}]
    /\ UNCHANGED <<media, moves>>

Rename(d) ==
    /\ Live(d) /\ Revised(d)
    /\ UNCHANGED <<node, edge, log, answer, media, moves>>

Delete(d) ==
    /\ Live(d) /\ document[d].revision < MaxRevision
    /\ document' = [document EXCEPT ![d] = [revision |-> @.revision + 1, deleted |-> TRUE]]
    /\ UNCHANGED <<node, edge, log, answer, media, moves>>

-----------------------------------------------------------------------------
(* The media library *)

MediaStep == moves < MaxMedia /\ moves' = moves + 1

Recycle(a) ==
    /\ media[a] = "active" /\ MediaStep /\ media' = [media EXCEPT ![a] = "trashed"]
    /\ UNCHANGED rows
Recover(a) ==
    /\ media[a] = "trashed" /\ MediaStep /\ media' = [media EXCEPT ![a] = "active"]
    /\ UNCHANGED rows

(* Every row counts, and every command ever accepted. *)
HasLiveReferences(a) == a \in log \/ \E n \in Ids : node[n].live /\ a \in Names(node[n])
HasMediaReferences(a) == a \in log \/ \E n \in Ids : a \in Names(node[n])
Purge(a) ==
    /\ media[a] = "trashed" /\ ~HasMediaReferences(a) /\ MediaStep
    /\ media' = [media EXCEPT ![a] = "purged"]
    /\ UNCHANGED rows

-----------------------------------------------------------------------------
(* The copy of the project *)

AssetsOf(g) == UNION {Names(g.nodes[n]) : n \in DOMAIN g.nodes}
AllNodes(g) == [type |-> "AddNodes", nodes |-> g.nodes]

(* validateCopiedGraph rebuilds the graph with one command for the nodes and *)
(* one for the edges.                                                        *)
Rebuilt(g) ==
    /\ g.nodes # <<>> => AddNodes(Empty, g.nodes).ok
    /\ g.edges # <<>> => Connect([g EXCEPT !.edges = <<>>], g.edges).ok
    /\ Sound(g)

(* Identities made from the job and the old identity, media from the         *)
(* receipts of the media library.                                            *)
Identity(k) == IF k = None THEN None ELSE k + 100
Twin(a) == IF a = None THEN None ELSE a + 100
CopyUseNodes(u) == [u EXCEPT !.node = Identity(@)]
CopyUse(u) == [node |-> Identity(u.node), asset |-> Twin(u.asset)]
CopyDocument(g) ==
    [nodes |-> [n \in {Identity(m) : m \in DOMAIN g.nodes} |->
                  LET old == g.nodes[n - 100] IN
                  [kind |-> old.kind, asset |-> Twin(old.asset), parent |-> Identity(old.parent),
                   use |-> CopyUse(old.use)]],
     edges |-> [e \in {Identity(f) : f \in DOMAIN g.edges} |->
                  LET old == g.edges[e - 100] IN <<Identity(old[1]), Identity(old[2])>>]]

Prepared(g) == Rebuilt(g) /\ Rebuilt(CopyDocument(g))
MediaShown(d) == MediaVisible(Load(d), <<AllNodes(Load(d))>>)
Freezable(d) == MediaShown(d) /\ Prepared(Load(d))

-----------------------------------------------------------------------------
Uses == {NoUse} \cup {[NoUse EXCEPT !.node = n] : n \in Ids} \cup {[NoUse EXCEPT !.asset = a] : a \in Assets}
NewNodes ==
    LET New(kind, assets, uses) == [kind : {kind}, asset : assets, parent : Ids \cup {None}, use : uses] IN
    New("group", {None}, {NoUse}) \cup New("image", Assets, {NoUse}) \cup New("timeline", {None}, Uses)
    \cup New("table", {None}, {u \in Uses : u.asset = None})

Add(n, c) == [type |-> "AddNodes", nodes |-> [m \in {n} |-> c]]
TakeOff(s) == [type |-> "DeleteNodes", ids |-> s]

(* A batch of one command, or of two: a node replaced by another of its      *)
(* identity, or one that is added before some are taken off.                 *)
Batch(d) ==
    \/ \E c \in NewNodes, n \in Ids :
          \/ Execute(d, <<Add(n, c)>>)
          \/ c.parent = None /\ Execute(d, <<TakeOff({n}), Add(n, c)>>)
          \/ c.parent = None /\ \E s \in (SUBSET Ids) \ {{}} : Execute(d, <<Add(n, c), TakeOff(s)>>)
    \/ \E s \in (SUBSET Ids) \ {{}} : Execute(d, <<TakeOff(s)>>)
    \/ \E n \in Ids, u \in Uses : Execute(d, <<[type |-> "UpdateNodeConfig", id |-> n, use |-> u]>>)
    \/ \E n \in Ids, p \in Ids \cup {None} : Execute(d, <<[type |-> "SetNodeParents", id |-> n, parent |-> p]>>)
    \/ \E e \in EdgeIds, n, m \in Ids : Execute(d, <<[type |-> "Connect", edges |-> [f \in {e} |-> <<n, m>>]]>>)
    \/ \E e \in EdgeIds : Execute(d, <<[type |-> "Disconnect", ids |-> {e}]>>)
    \/ Execute(d, <<[type |-> "Arrange"]>>)

Next ==
    \/ \E d \in Documents : \/ Create(d) \/ Rename(d) \/ Delete(d)
                            \/ Live(d) /\ document[d].revision < MaxRevision /\ Batch(d)
    \/ \E a \in Assets : Recycle(a) \/ Recover(a) \/ Purge(a)

Spec == Init /\ [][Next]_vars

-----------------------------------------------------------------------------
(* What the author of the last batch was answered is what the rows hold, as  *)
(* long as nothing else was done to that document.                           *)
AnswerStored ==
    answer # NoAnswer => Load(answer.document) = answer.graph

(* The rows of every canvas make a graph the code accepts: no node hangs on  *)
(* a parent, an edge or a use whose other end was taken off the canvas.      *)
GraphsSound ==
    \A d \in Documents : LET g == Load(d) IN
        /\ Sound(g)
        /\ \A e \in DOMAIN g.edges : {g.edges[e][1], g.edges[e][2]} \subseteq DOMAIN g.nodes

(* Media a node shows or ever showed, and media an accepted command named,   *)
(* is not purged: a node taken off the canvas can come back with it.         *)
MediaKept ==
    /\ \A n \in Ids : \A a \in Names(node[n]) : media[a] # "purged"
    /\ \A a \in log : media[a] # "purged"

(* A canvas whose media everybody may see can be copied with its project.    *)
(* TLC refutes it (README, section 7).                                       *)
CopyAccepted == \A d \in Documents : Live(d) /\ MediaShown(d) => Freezable(d)

(* As long as its edges fit into one command it can, and the copy is         *)
(* complete and shares nothing with its source.                              *)
CopyIndependent ==
    \A d \in Documents : Live(d) /\ MediaShown(d) /\ Cardinality(DOMAIN Load(d).edges) <= MaxBatch =>
        LET g == CopyDocument(Load(d)) IN
        /\ Freezable(d)
        /\ AssetsOf(g) \cap Assets = {} /\ DOMAIN g.nodes \cap Ids = {}
        /\ Cardinality(DOMAIN g.nodes) = Cardinality(DOMAIN Load(d).nodes)
        /\ \A e \in DOMAIN g.edges : {g.edges[e][1], g.edges[e][2]} \subseteq DOMAIN g.nodes

CanvasHonest == AnswerStored /\ GraphsSound /\ MediaKept /\ CopyIndependent

(* FreezeTimeline: the media a timeline plays *)
Plays(g, n) == Resolved(g, g.nodes[n].use)

(* A timeline goes on playing the same media until a command sets its clips, *)
(* whatever becomes of the nodes it uses; a deleted canvas is never changed  *)
(* and a node never changes hands.                                           *)
CanvasKept ==
    \A d \in Documents :
      LET old == Load(d) new == Load(d)' IN
      /\ document[d].deleted => old = new /\ document'[d] = document[d]
      /\ old # new => document'[d].revision > document[d].revision
      /\ \A n \in DOMAIN old.nodes \cap DOMAIN new.nodes :
            old.nodes[n].kind = "timeline" /\ n \notin answer'.set => Plays(new, n) = Plays(old, n)
=============================================================================
