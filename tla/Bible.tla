------------------------------- MODULE Bible -------------------------------
(***************************************************************************)
(* The characters of a project.  Every edit publishes a new immutable      *)
(* version under the revision of the character's head its author has seen; *)
(* a confirmation points at a version, a merge redirects one character to  *)
(* another for ever and a split starts an independent one.  Other owners   *)
(* keep references to a character, with or without a pinned version, media *)
(* named by any version ever published is kept from the purge, and the     *)
(* copy of a project takes the whole history along.  Locations and props   *)
(* are characters without looks, voices, merges and splits.                *)
(***************************************************************************)
EXTENDS Naturals, Sequences, FiniteSets, SequencesExt

CONSTANTS
    Characters,   \* numbers of the characters, in the order of their creation
    Assets,       \* media a look or a voice may name
    MaxChain,     \* redirects a reader follows: 32 in the code
    MaxLooks,     \* looks created in all
    MaxCommands,  \* bound on the commands
    MaxMedia      \* bound on the changes of the media

VARIABLES
    head,          \* bible.character
    versions,      \* [character -> its bible.character_version in order]
    confirmation,  \* bible.character_confirmation
    redirect,      \* bible.character_redirect
    split,         \* bible.character_split
    media,         \* [asset -> its revision, 0 once it is purged]
    pins,          \* the versions other owners have pinned
    commands

history == <<head, versions, confirmation, redirect, split>>
vars == <<history, media, pins, commands>>

None == 0
NoHead == [revision |-> 0, confirmed |-> None, deleted |-> FALSE, redirect |-> None]
NoFact == [asset |-> "none", revision |-> 0]
Fact(a) == [asset |-> a, revision |-> media[a]]

(* setContent: a new character has one look, the default one.  A look is    *)
(* known by the number it got when it was created.                          *)
Created(look) == [looks |-> {look}, standard |-> {look}, image |-> [l \in {look} |-> NoFact],
                  voice |-> NoFact]

Existing == {c \in Characters : head[c].revision > 0}
Current(c) == Last(versions[c])
Published == UNION {ToSet(versions[c]) : c \in Characters}
LooksUsed == UNION {v.looks : v \in Published}
NewLook == Cardinality(LooksUsed) + 1

Init ==
    /\ head = [c \in Characters |-> NoHead]
    /\ versions = [c \in Characters |-> <<>>]
    /\ confirmation = {} /\ redirect = {} /\ split = {}
    /\ media = [a \in Assets |-> 1]
    /\ pins = {}
    /\ commands = 0

-----------------------------------------------------------------------------
(* CharacterContent.Validate and the facts a version names, which must be   *)
(* current when it is published or confirmed.                                *)

ValidContent(v) ==
    /\ v.looks # {} /\ v.standard \subseteq v.looks /\ Cardinality(v.standard) = 1
    /\ DOMAIN v.image = v.looks

Facts(v) == ({v.image[l] : l \in v.looks} \cup {v.voice}) \ {NoFact}
Verified(v) == \A f \in Facts(v) : media[f.asset] = f.revision

Command == commands < MaxCommands /\ commands' = commands + 1

NextCharacter(c) == c \notin Existing /\ \A d \in Characters : d < c => d \in Existing

Create(c) ==
    /\ NextCharacter(c) /\ NewLook <= MaxLooks /\ Command
    /\ head' = [head EXCEPT ![c].revision = 1]
    /\ versions' = [versions EXCEPT ![c] = <<Created(NewLook)>>]
    /\ UNCHANGED <<confirmation, redirect, split, media, pins>>

(* What every other command requires of the head it names. *)
WritableMerged(c) == c \in Existing /\ ~head[c].deleted
Writable(c) == c \in Existing /\ head[c].redirect = None /\ ~head[c].deleted

Bumped(c) == [head[c] EXCEPT !.revision = @ + 1]

(* actionMakesVersion: a whole new version replaces the current one. *)
PublishUnchecked(c, v) ==
    /\ Writable(c) /\ Command
    /\ Verified(v)
    /\ versions' = [versions EXCEPT ![c] = Append(@, v)]
    /\ head' = [head EXCEPT ![c] = Bumped(c)]
    /\ UNCHANGED <<confirmation, redirect, split, media, pins>>
Publish(c, v) ==
    /\ Writable(c) /\ Command
    /\ ValidContent(v) /\ Verified(v)
    /\ versions' = [versions EXCEPT ![c] = Append(@, v)]
    /\ head' = [head EXCEPT ![c] = Bumped(c)]
    /\ UNCHANGED <<confirmation, redirect, split, media, pins>>

Update(c) == Publish(c, Current(c))

LookCreate(c, isDefault) ==
    /\ NewLook <= MaxLooks
    /\ LET v == Current(c) IN
       Publish(c, [v EXCEPT !.looks = @ \cup {NewLook},
                            !.standard = IF isDefault THEN {NewLook} ELSE @,
                            !.image = [l \in v.looks \cup {NewLook} |->
                                         IF l = NewLook THEN NoFact ELSE v.image[l]]])

LookUpdate(c, l, isDefault) ==
    Publish(c, [Current(c) EXCEPT !.standard = IF isDefault THEN {l} ELSE @ \ {l}])

LookDelete(c, l) ==
    LET v == Current(c) IN
    Publish(c, [v EXCEPT !.looks = @ \ {l}, !.standard = @ \ {l},
                         !.image = [k \in v.looks \ {l} |-> v.image[k]]])

LookDefault(c, l) == Publish(c, [Current(c) EXCEPT !.standard = {l}])

References(c, l, a) ==
    /\ media[a] # None
    /\ Publish(c, [Current(c) EXCEPT !.image[l] = Fact(a)])

VoiceBind(c, a) == media[a] # None /\ Publish(c, [Current(c) EXCEPT !.voice = Fact(a)])
VoiceUnbind(c) == Publish(c, [Current(c) EXCEPT !.voice = NoFact])

-----------------------------------------------------------------------------
(* Commands on the head. *)

Confirmed(c, n) == \E f \in confirmation : f.character = c /\ f.version = n

Confirm(c) ==
    /\ Writable(c) /\ Verified(Current(c)) /\ Command
    /\ head' = [head EXCEPT ![c] = [Bumped(c) EXCEPT !.confirmed = Len(versions[c])]]
    /\ confirmation' = confirmation \cup {[character |-> c, version |-> Len(versions[c]),
                                           revision |-> head'[c].revision]}
    /\ UNCHANGED <<versions, redirect, split, media, pins>>

Delete(c) ==
    /\ Writable(c) /\ Command
    /\ head' = [head EXCEPT ![c] = [Bumped(c) EXCEPT !.deleted = TRUE]]
    /\ UNCHANGED <<versions, confirmation, redirect, split, media, pins>>

Restore(c) ==
    /\ c \in Existing /\ head[c].redirect = None /\ head[c].deleted /\ Command
    /\ head' = [head EXCEPT ![c] = [Bumped(c) EXCEPT !.deleted = FALSE]]
    /\ UNCHANGED <<versions, confirmation, redirect, split, media, pins>>

AsConfirmed(c) == head[c].confirmed = Len(versions[c])
TargetMerged(c) == c \in Existing /\ ~head[c].deleted /\ AsConfirmed(c)
Target(c) == Writable(c) /\ AsConfirmed(c)

Merge(c, d) ==
    /\ c # d /\ Writable(c) /\ AsConfirmed(c) /\ Target(d)
    /\ Verified(Current(c)) /\ Verified(Current(d)) /\ Command
    /\ head' = [head EXCEPT ![c] = [Bumped(c) EXCEPT !.redirect = d]]
    /\ redirect' = redirect \cup {[source |-> c, target |-> d,
                                   sourceVersion |-> Len(versions[c]),
                                   targetVersion |-> Len(versions[d])]}
    /\ UNCHANGED <<versions, confirmation, split, media, pins>>

Split(c, d) ==
    /\ Writable(c) /\ NextCharacter(d) /\ NewLook <= MaxLooks /\ Command
    /\ head' = [head EXCEPT ![c] = Bumped(c), ![d].revision = 1]
    /\ versions' = [versions EXCEPT ![d] = <<Created(NewLook)>>]
    /\ split' = split \cup {[source |-> c, target |-> d, sourceVersion |-> Len(versions[c]),
                             targetVersion |-> 1]}
    /\ UNCHANGED <<confirmation, redirect, media, pins>>

-----------------------------------------------------------------------------
(* Readers.  A reference without a pinned version follows the redirects; a  *)
(* pinned one keeps to its character and must have been confirmed.           *)

Chain(to) ==
    LET chain[n \in 0 .. Cardinality(Characters)] ==
            [c \in Characters |-> IF n = 0 \/ to[c] = None THEN c ELSE chain[n - 1][to[c]]]
    IN chain
RedirectOf == [c \in Characters |-> head[c].redirect]
Steps(to, c) ==
    LET steps[n \in 0 .. Cardinality(Characters)] ==
            Chain(to)[n][c]
    IN {n \in 1 .. Cardinality(Characters) : to[steps[n - 1]] # None}
Resolved(c) == Chain(RedirectOf)[Cardinality(Characters)][c]
Through(c) == {Chain(RedirectOf)[n][c] : n \in Steps(RedirectOf, c)}

Findable(c) ==
    /\ Cardinality(Steps(RedirectOf, c)) <= MaxChain
    /\ \A d \in Through(c) : ~head[d].deleted /\ head[d].confirmed # None

Reference(c) ==
    /\ c \in Existing /\ Findable(c) /\ ~head[c].deleted
    /\ head[Resolved(c)].confirmed # None
    /\ pins' = pins \cup {[character |-> Resolved(c), version |-> head[Resolved(c)].confirmed]}
    /\ UNCHANGED <<history, media, commands>>

-----------------------------------------------------------------------------
(* The media: a new revision of an asset, and the purge, which asks whether *)
(* any version ever published names the asset.                              *)

NamesNow(a) == \E c \in Existing : \E f \in Facts(Current(c)) : f.asset = a
HasMediaReferences(a) ==
    \E v \in Published : \E f \in Facts(v) : f.asset = a

Revise(a) ==
    /\ media[a] \in 1 .. MaxMedia - 1
    /\ media' = [media EXCEPT ![a] = @ + 1]
    /\ UNCHANGED <<history, pins, commands>>

PurgeMedia(a) ==
    /\ media[a] # None /\ ~HasMediaReferences(a)
    /\ media' = [media EXCEPT ![a] = None]
    /\ UNCHANGED <<history, pins, commands>>

LookCommand(c) ==
    \E l \in Current(c).looks :
        \/ LookDelete(c, l) \/ LookDefault(c, l)
        \/ \E b \in BOOLEAN : LookUpdate(c, l, b)
        \/ \E a \in Assets : References(c, l, a)

Next ==
    \/ \E c \in Characters : Create(c) \/ Reference(c)
    \/ \E c \in Existing :
          \/ LookCommand(c)
          \/ \E b \in BOOLEAN : LookCreate(c, b)
          \/ \E a \in Assets : VoiceBind(c, a)
          \/ Update(c) \/ VoiceUnbind(c) \/ Confirm(c) \/ Delete(c) \/ Restore(c)
          \/ \E d \in Characters : Merge(c, d) \/ Split(c, d)
    \/ \E a \in Assets : Revise(a) \/ PurgeMedia(a)

Spec == Init /\ [][Next]_vars

-----------------------------------------------------------------------------
(* The history a copy of the project takes along, and ValidateCopyHistory.  *)

History == [heads |-> head, versions |-> versions, confirmations |-> confirmation,
            redirects |-> redirect, splits |-> split]

ValidHeads(h) ==
    \A c \in Characters : h.heads[c].revision > 0 =>
        /\ h.versions[c] # <<>> /\ h.heads[c].revision >= Len(h.versions[c])
        /\ \A n \in 1 .. Len(h.versions[c]) : ValidContent(h.versions[c][n])
        /\ h.heads[c].confirmed # None =>
              \E f \in h.confirmations : f.character = c /\ f.version = h.heads[c].confirmed

ValidConfirmations(h) ==
    /\ \A f \in h.confirmations :
          /\ f.version \in 1 .. Len(h.versions[f.character])
          /\ f.revision \in 1 .. h.heads[f.character].revision
    /\ \A f, g \in h.confirmations :
          (f.character = g.character /\ f.revision = g.revision) => f = g

EndsConfirmed(h, r) ==
    /\ \E f \in h.confirmations : f.character = r.source /\ f.version = r.sourceVersion
    /\ \E f \in h.confirmations : f.character = r.target /\ f.version = r.targetVersion

ValidRedirects(h) ==
    LET to == [c \in Characters |-> h.heads[c].redirect]
    IN /\ \A r \in h.redirects : r.source # r.target /\ EndsConfirmed(h, r) /\ to[r.source] = r.target
       /\ \A r, s \in h.redirects : r.source = s.source => r = s
       /\ \A c \in Characters : to[c] # None => \E r \in h.redirects : r.source = c
       /\ \A c \in Characters : to[Chain(to)[Cardinality(Characters)][c]] = None

ChainsShorter(h) ==
    \A c \in Characters : Cardinality(Steps([d \in Characters |-> h.heads[d].redirect], c)) < MaxChain
ValidChains(h) ==
    \A c \in Characters : Cardinality(Steps([d \in Characters |-> h.heads[d].redirect], c)) <= MaxChain

ValidSplits(h) ==
    \A s \in h.splits :
        /\ s.source # s.target /\ s.targetVersion = 1
        /\ s.sourceVersion \in 1 .. Len(h.versions[s.source]) /\ h.versions[s.target] # <<>>

ValidHistory(h) ==
    ValidHeads(h) /\ ValidConfirmations(h) /\ ValidRedirects(h) /\ ValidChains(h) /\ ValidSplits(h)

(* RemapProjectHistory: every fact of the history has a copy to point at.   *)
HistoryMediaFacts == UNION {Facts(v) : v \in Published}
Freezable == ValidHistory(History) /\ \A f \in HistoryMediaFacts : media[f.asset] # None

(* ResolveCopyCharacters: a reference of another owner is translated.       *)
Translated(p) == p.character \in Existing /\ Confirmed(p.character, p.version)

-----------------------------------------------------------------------------
(* A merge looks at the redirects of its two characters and not at those    *)
(* that lead to them, so characters merged one after the other may be more   *)
(* redirects away than a reader follows.                                     *)
TooLong(c) == Cardinality(Steps(RedirectOf, c)) > MaxChain

(* The history that a project's copy needs is whole: numbered versions of   *)
(* valid content, confirmed ends of acyclic redirects, the media of every    *)
(* version, and every reference another owner holds.  A copy is refused for  *)
(* nothing but a chain of merges that is too long.                           *)
HistoryWhole ==
    /\ Freezable \/ \E c \in Existing : TooLong(c)
    /\ ValidHeads(History) /\ ValidConfirmations(History) /\ ValidRedirects(History)
    /\ ValidSplits(History)
    /\ \A f \in HistoryMediaFacts : media[f.asset] # None
    /\ \A p \in pins : Translated(p)

(* A merged character is lost to its readers only when one that it was       *)
(* merged into has been deleted, or when its chain of merges is too long.    *)
FoundUnlessDeleted ==
    \A c \in Existing : Findable(c) \/ TooLong(c) \/ \E d \in Through(c) : head[d].deleted

BibleHonest == HistoryWhole /\ FoundUnlessDeleted

(* What was published, confirmed, merged or split stays; whoever has seen a *)
(* revision of a character has seen what it is; a merged one changes no more. *)
BibleKept ==
    /\ \A c \in Characters : IsPrefix(versions[c], versions'[c])
    /\ confirmation \subseteq confirmation' /\ redirect \subseteq redirect' /\ split \subseteq split'
    /\ \A c \in Characters :
          /\ <<head[c], versions[c]>> # <<head[c], versions[c]>>' => head'[c].revision > head[c].revision
          /\ head[c].redirect # None => <<head[c], versions[c]>>' = <<head[c], versions[c]>>
=============================================================================
