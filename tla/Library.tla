------------------------------ MODULE Library ------------------------------
(***************************************************************************)
(* The catalog of a project's or a person's media: a tree of folders and   *)
(* the items placed in it.  A command names the revision of the library    *)
(* its author has seen, changes folders or a batch of items in one         *)
(* transaction and leaves a permanent receipt under its key; a folder or a *)
(* text takes its identity from the key that created it.  Two other        *)
(* writers share the catalog: the purge, which reserves trashed items at a *)
(* revision and retires them later, and the owners of references, which    *)
(* bind an asset that must not be purged afterwards.                       *)
(***************************************************************************)
EXTENDS Naturals, FiniteSets

CONSTANTS
    Keys,         \* the keys of the commands
    Assets,       \* the library's binary media
    NameKey,      \* [names -> the folded form that must be unique]
    MaxDepth,     \* of the tree: 8 in the code
    MaxRevision   \* bound on the library's revision

VARIABLES
    library,     \* media.library
    folder,      \* media.library_folder, by the key that created it
    item,        \* media.library_item; an asset without a row has revision 0
    purge,       \* [item -> media.purge_item]
    referenced,  \* the assets another owner refers to
    receipt      \* [key -> media.library_command]

content == <<folder, item>>
vars == <<library, folder, item, purge, referenced, receipt>>

Root == "root"
Items == Assets \cup Keys
Reserving == {"reserved", "succeeded"}

NoFolder == [parent |-> Root, name |-> "none", revision |-> 0]
NoItem == [state |-> "none", folder |-> Root, revision |-> 0]

Init ==
    /\ library \in [kind : {"project", "personal"}, revision : {0}]
    /\ folder = [k \in Keys |-> NoFolder]
    /\ item = [i \in Items |-> IF i \in Assets THEN [NoItem EXCEPT !.state = "active"] ELSE NoItem]
    /\ purge = [i \in Items |-> [status |-> "none", revision |-> 0]]
    /\ referenced = {}
    /\ receipt = [k \in Keys |-> "none"]

-----------------------------------------------------------------------------
(* The tree *)

FoldersOf(tree) == {k \in Keys : tree[k].name # "none"}
Existing == FoldersOf(folder)
Children(f) == {k \in Existing : folder[k].parent = f}
FolderExists(f) == f \in Existing \cup {Root}

(* The folders that are reached in n steps from the root. *)
Level(tree) ==
    LET level[n \in 1 .. MaxDepth] ==
            {k \in FoldersOf(tree) : IF n = 1 THEN tree[k].parent = Root
                                              ELSE tree[k].parent \in level[n - 1]}
    IN level
Reached(tree) == UNION {Level(tree)[n] : n \in 1 .. MaxDepth}

(* ValidateLibraryFolderPlacement *)
SiblingsDiffer(tree) ==
    \A f, g \in FoldersOf(tree) :
        (tree[f].parent = tree[g].parent /\ NameKey[tree[f].name] = NameKey[tree[g].name]) => f = g
Rooted(tree) == \A f \in FoldersOf(tree) : tree[f].parent \in FoldersOf(tree) \cup {Root}
Ancestry(tree) == FoldersOf(tree) = Reached(tree)
Flat(tree) == library.kind = "personal" => \A f \in FoldersOf(tree) : tree[f].parent = Root
Placed(tree) == Ancestry(tree) /\ SiblingsDiffer(tree) /\ Flat(tree)

-----------------------------------------------------------------------------
(* What a query shows *)

Hidden(i) == purge[i].status \in Reserving
Entries(state) == {i \in Items : item[i].state = state /\ ~Hidden(i)}

-----------------------------------------------------------------------------
(* One command.  A new one is accepted only by an author who has seen the   *)
(* current revision, and a key that was used is answered with its receipt.  *)

Fresh(k) == receipt[k] = "none"
Accept(k, action) ==
    /\ Fresh(k) /\ library.revision < MaxRevision
    /\ library' = [library EXCEPT !.revision = @ + 1]
    /\ receipt' = [receipt EXCEPT ![k] = action]

CreateFolder(k, parent, name) ==
    /\ Accept(k, "create_folder")
    /\ folder' = [folder EXCEPT ![k] = [parent |-> parent, name |-> name, revision |-> 1]]
    /\ Placed(folder')
    /\ UNCHANGED <<item, purge, referenced>>

UpdateFolderBeside(k, f, parent, name) ==
    /\ f \in Existing /\ Accept(k, "update_folder")
    /\ folder' = [folder EXCEPT ![f] = [parent |-> parent, name |-> name, revision |-> @.revision + 1]]
    /\ Rooted(folder') /\ SiblingsDiffer(folder') /\ Flat(folder')
    /\ UNCHANGED <<item, purge, referenced>>
UpdateFolder(k, f, parent, name) ==
    /\ f \in Existing /\ Accept(k, "update_folder")
    /\ folder' = [folder EXCEPT ![f] = [parent |-> parent, name |-> name, revision |-> @.revision + 1]]
    /\ Placed(folder')
    /\ UNCHANGED <<item, purge, referenced>>

Held(f) == {i \in Items : item[i].folder = f}
ActiveIn(f) == {i \in Held(f) : item[i].state = "active"}

(* A project's folder must be empty, trashed items included; a personal one *)
(* gives its items back to the root.                                         *)
LooksEmpty(f) == Children(f) = {} /\ ActiveIn(f) = {}
Empty(f) == Children(f) = {} /\ Held(f) = {}
MayDelete(f) == library.kind = "project" => Empty(f)
MovedOut(f) == [i \in Items |-> IF library.kind = "personal" /\ i \in Held(f)
                                  THEN [item[i] EXCEPT !.folder = Root, !.revision = @ + 1]
                                  ELSE item[i]]
DeleteFolder(k, f) ==
    /\ f \in Existing /\ MayDelete(f) /\ Accept(k, "delete_folder")
    /\ folder' = [folder EXCEPT ![f] = NoFolder]
    /\ item' = MovedOut(f)
    /\ UNCHANGED <<purge, referenced>>

CreateText(k, f) ==
    /\ FolderExists(f) /\ Accept(k, "create_text")
    /\ item' = [item EXCEPT ![k] = [state |-> "active", folder |-> f, revision |-> 1]]
    /\ UNCHANGED <<folder, purge, referenced>>

(* lockLibraryItems: no target is reserved for a purge, removed or unknown. *)
LockableReserved(S) == \A i \in S : item[i].state \in {"active", "trashed"}
LockableKnown(S) == \A i \in S : ~Hidden(i) /\ item[i].state # "none"
Lockable(S) == \A i \in S : ~Hidden(i) /\ item[i].state \in {"active", "trashed"}

Change(k, action, S, from, state, f(_)) ==
    /\ Lockable(S) /\ \A i \in S : item[i].state \in from
    /\ Accept(k, action)
    /\ item' = [i \in Items |-> IF i \in S
                                  THEN [state |-> IF state = "same" THEN item[i].state ELSE state,
                                        folder |-> f(i), revision |-> item[i].revision + 1]
                                  ELSE item[i]]
    /\ UNCHANGED <<folder, purge, referenced>>

Here(i) == item[i].folder
UpdateItem(k, i, f) ==
    FolderExists(f) /\ Change(k, "update_item", {i}, {"active", "trashed", "removed"}, "same", LAMBDA j : f)
MoveItems(k, S, f) ==
    FolderExists(f) /\ Change(k, "move_items", S, {"active"}, "active", LAMBDA j : f)
RecycleItems(k, S) == Change(k, "recycle_items", S, {"active"}, "trashed", Here)
RestoreItems(k, S) == Change(k, "restore_items", S, {"trashed"}, "active", Here)
RemoveItems(k, S) ==
    library.kind = "project" /\ Change(k, "remove_items", S, {"active"}, "removed", LAMBDA j : Root)

-----------------------------------------------------------------------------
(* The purge: admission, the end of an item and its release after a         *)
(* cancellation; an asset in use is not admitted.                            *)

InUse(i) == library.kind = "project" /\ i \in referenced
Reserve(i) ==
    /\ library.revision < MaxRevision
    /\ item[i].state = "trashed" /\ ~Hidden(i) /\ ~InUse(i)
    /\ purge' = [purge EXCEPT ![i] = [status |-> "reserved", revision |-> item[i].revision]]
    /\ library' = [library EXCEPT !.revision = @ + 1]
    /\ UNCHANGED <<content, referenced, receipt>>

AsFrozen(i) == item[i].state = "trashed" /\ item[i].revision = purge[i].revision
CompletePurgeItem(i) ==
    /\ purge[i].status = "reserved" /\ AsFrozen(i) /\ library.revision < MaxRevision
    /\ purge' = [purge EXCEPT ![i].status = "succeeded"]
    /\ item' = [item EXCEPT ![i] = [state |-> "removed", folder |-> Root, revision |-> @.revision + 1]]
    /\ library' = [library EXCEPT !.revision = @ + 1]
    /\ UNCHANGED <<folder, referenced, receipt>>

Release(i) ==
    /\ purge[i].status = "reserved" /\ AsFrozen(i) /\ library.revision < MaxRevision
    /\ purge' = [purge EXCEPT ![i] = [status |-> "cancelled", revision |-> 0]]
    /\ library' = [library EXCEPT !.revision = @ + 1]
    /\ UNCHANGED <<content, referenced, receipt>>

(* A new reference needs an active item that is not about to go. *)
NewMediaPresent(a) == item[a].state # "removed"
NewMediaVisible(a) == item[a].state = "active" /\ ~Hidden(a)
Refer(a) ==
    /\ library.kind = "project" /\ a \notin referenced /\ NewMediaVisible(a)
    /\ referenced' = referenced \cup {a}
    /\ UNCHANGED <<library, content, purge, receipt>>

Unrefer(a) ==
    /\ a \in referenced
    /\ referenced' = referenced \ {a}
    /\ UNCHANGED <<library, content, purge, receipt>>

FolderCommand(k) ==
    \E name \in DOMAIN NameKey, parent \in Existing \cup {Root} :
        \/ CreateFolder(k, parent, name)
        \/ \E f \in Existing : UpdateFolder(k, f, parent, name)

(* A batch that names an unknown item is refused, so none is tried. *)
Places == Existing \cup {Root}
Known == {i \in Items : item[i].state # "none"}
Batches == SUBSET Known \ {{}}
ItemCommand(k) ==
    \/ \E i \in Known, f \in Places : UpdateItem(k, i, f)
    \/ \E S \in Batches : \/ \E f \in Places : MoveItems(k, S, f)
                          \/ RecycleItems(k, S) \/ RestoreItems(k, S) \/ RemoveItems(k, S)

Next ==
    \/ \E k \in Keys : Fresh(k) /\ library.revision < MaxRevision
                       /\ \/ FolderCommand(k) \/ ItemCommand(k)
                          \/ \E f \in Existing : DeleteFolder(k, f)
                          \/ \E f \in Places : CreateText(k, f)
    \/ \E i \in Items : Reserve(i) \/ CompletePurgeItem(i) \/ Release(i)
    \/ \E a \in Assets : Refer(a) \/ Unrefer(a)

Spec == Init /\ [][Next]_vars

-----------------------------------------------------------------------------
(* The copy of a project's library: every folder and item gets a new        *)
(* identity at revision 1, and registerCopiedLibrary inserts the folders in *)
(* passes, each one after its parent.                                        *)

FreezesWhole == library.kind = "project" /\ \A i \in Items : purge[i].status # "reserved"
CopiedFolder == [k \in Keys |-> IF k \in Existing THEN [folder[k] EXCEPT !.revision = 1] ELSE NoFolder]
CopiedItems == {i \in Items : item[i].state # "none" /\ purge[i].status # "succeeded"}
Registers ==
    /\ Placed(CopiedFolder) /\ Reached(CopiedFolder) = Existing
    /\ \A i \in CopiedItems : FolderExists(item[i].folder)

-----------------------------------------------------------------------------
TypeOK ==
    /\ library \in [kind : {"project", "personal"}, revision : 0 .. MaxRevision]
    /\ folder \in [Keys -> [parent : Keys \cup {Root}, name : DOMAIN NameKey \cup {"none"},
                            revision : 0 .. MaxRevision]]
    /\ item \in [Items -> [state : {"none", "active", "trashed", "removed"},
                           folder : Keys \cup {Root}, revision : 0 .. MaxRevision]]
    /\ referenced \subseteq Assets

(* Every folder hangs below the root within the depth the code allows, two  *)
(* siblings never share a name, and every item that can still be restored   *)
(* has a place in the tree.                                                  *)
TreeSound == Rooted(folder) /\ Placed(folder)
            /\ \A i \in Items : FolderExists(item[i].folder)

(* An item reserved for a purge stays as it was frozen, so that the purge   *)
(* can be completed.  TLC refutes it for a personal library (README,         *)
(* section 7).                                                               *)
ReservedExact == \A i \in Items : purge[i].status = "reserved" => AsFrozen(i)
ProjectReservedExact == library.kind = "project" => ReservedExact

(* The media something refers to is never purged, nor about to be.          *)
ReferencedKept == \A a \in referenced : ~Hidden(a)

(* A copy of the library can be made whenever no purge is running in it. *)
Copyable == FreezesWhole => Registers

CatalogHonest == TreeSound /\ ProjectReservedExact /\ ReferencedKept /\ Copyable

(* Nobody changes what another has seen under the same revision, what is    *)
(* removed stays removed, and a receipt is for ever.                        *)
CatalogKept ==
    /\ content' # content => library'.revision > library.revision
    /\ \A i \in Items : item[i].state = "removed" => item'[i] = item[i]
    /\ \A k \in Keys : receipt[k] # "none" => receipt'[k] = receipt[k]
=============================================================================
