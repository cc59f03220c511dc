---------------------------- MODULE ScriptReview ----------------------------
(***************************************************************************)
(* The review of a project's script: episodes proposed for a version and   *)
(* confirmed, their structures saved and confirmed, a version adopted, and *)
(* the looks of the bible that name an episode or one of its scenes.       *)
(* Users work from what they have read; each command is one transaction    *)
(* under the project's lock and finds that out by the revisions it carries.*)
(* A text is counted in lines, a position being the number of lines before.*)
(* A project copy takes the history of all that over.                      *)
(***************************************************************************)
EXTENDS Integers, Sequences, FiniteSets, SequencesExt

CONSTANTS
    Manuscripts,    \* for each version its sources, over Lines \cup {"empty"}
    Documents,      \* structures: [scenes : set, whole : BOOLEAN]
    Titles,         \* titles of episodes
    MaxRevision,    \* bound: revision of the script before a last confirmation
    MaxLooks,       \* bound: looks of the bible
    Jobs            \* copy jobs of the project

VARIABLES
    state,      \* script.project_state
    version,    \* the script versions with their heads, in order
    decision,   \* [version -> its script.split_confirmation rows, in order]
    episode,    \* script.episode, in the order of creation
    structure,  \* [episode -> its script.episode_structure rows, in order]
    command,    \* the command that is on its way
    writing,    \* the script revision that a source write in flight was planned for
    looks       \* scopes of the bible's committed looks

vars == <<state, version, decision, episode, structure, command, writing, looks>>

None == 0
Idle == [action |-> "none"]
Lines == {"blank", "words", "heading"}
review == <<decision, episode, structure>>
outside == <<writing, looks>>

-----------------------------------------------------------------------------
(* The text: composing it from sources, and dividing it into episodes.      *)

Episode(n, from, to, title) == [seq |-> n, start |-> from, end |-> to, title |-> title]

(* Divide: episodes that start at the given lines, each up to the next one. *)
Divide(starts, count, title) ==
    LET Nth(n) == CHOOSE s \in starts : Cardinality({t \in starts : t < s}) = n - 1
        last == Cardinality(starts)
    IN  [n \in 1..last |-> Episode(n, Nth(n), IF n = last THEN count ELSE Nth(n + 1), title)]

Nonempty(sources) == SelectSeq(sources, LAMBDA s : s # "empty")
First(starts) == CHOOSE s \in starts : \A t \in starts : s <= t

(* ComposeSources: a source with words is a candidate; what is blank goes   *)
(* to the candidate before it, at the beginning to the first one.           *)
ComposeLate(sources) ==
    LET lines == Nonempty(sources)
        starts == {i - 1 : i \in {j \in DOMAIN lines : lines[j] # "blank"}}
    IN  [preface |-> 0, episodes |-> Divide(starts, Len(lines), "source")]

ComposeSources(sources) ==
    LET lines == Nonempty(sources)
        starts == {i - 1 : i \in {j \in DOMAIN lines : lines[j] # "blank"}}
        whole == IF starts = {} THEN {} ELSE (starts \ {First(starts)}) \cup {0}
    IN  [preface |-> 0, episodes |-> Divide(whole, Len(lines), "source")]

(* RulesSplit: an episode starts at each heading; words before the first    *)
(* one are a preface, blanks belong to it.                                  *)
RulesSplit(lines) ==
    LET headings == {i - 1 : i \in {j \in DOMAIN lines : lines[j] = "heading"}}
        before == {i \in DOMAIN lines : \A h \in headings : i - 1 < h}
        preface == IF headings # {} /\ \E i \in before : lines[i] = "words"
                   THEN First(headings) ELSE 0
        starts == IF headings = {} THEN {0} ELSE (headings \ {First(headings)}) \cup
                       {IF preface = 0 THEN 0 ELSE preface}
    IN  IF \A i \in DOMAIN lines : lines[i] = "blank"
        THEN [preface |-> 0, episodes |-> <<>>]
        ELSE [preface |-> preface, episodes |-> Divide(starts, Len(lines), "rules")]

(* ValidateBoundaries: the episodes follow each other without a gap from    *)
(* the end of the preface to the end of the text.                           *)
ValidBoundaries(split, count) ==
    LET es == split.episodes IN
    /\ Len(es) >= 1
    /\ split.preface < count
    /\ es[1].start = split.preface /\ es[Len(es)].end = count
    /\ \A i \in DOMAIN es : es[i].seq = i /\ es[i].start < es[i].end
    /\ \A i \in 1..(Len(es) - 1) : es[i].end = es[i + 1].start

(* What a user may make of a text of that length. *)
Splits(count) ==
    {[preface |-> p, episodes |-> Divide(starts \cup {p}, count, t)] :
        p \in 0..(count - 1), starts \in SUBSET (0..(count - 1)), t \in Titles}
Partitions(count) == {s \in Splits(count) : ValidBoundaries(s, count)}

-----------------------------------------------------------------------------
Version(sources) == [lines |-> Nonempty(sources), split |-> 0, formal |-> FALSE,
                     candidate |-> ComposeSources(sources)]
Undecided == <<>>
Latest(v) == decision[v][Len(decision[v])]

Init ==
    /\ version = <<Version(Manuscripts[1])>>
    /\ state = [revision |-> 1, draft |-> 1, adopted |-> None]
    /\ decision = <<Undecided>>
    /\ episode = <<>> /\ structure = <<>>
    /\ command = Idle
    /\ writing = None
    /\ looks = {}

(* Episodes of a version, without those that a later decision replaced.     *)
Live(v) == {e \in DOMAIN episode : episode[e].version = v /\ ~episode[e].deleted}
Same(b, e) == b.seq = episode[e].seq /\ b.start = episode[e].start /\ b.end = episode[e].end

(* The commands that a user who reads the script now can send.              *)
Listed == Live(state.draft) \cup (IF state.adopted = None THEN {} ELSE Live(state.adopted))

Resplits ==
    {[action |-> "resplit", at |-> state.revision, version |-> state.draft,
      split |-> version[state.draft].split]}
ConfirmSplits ==
    {[action |-> "confirm_split", at |-> state.revision, version |-> state.draft,
      split |-> version[state.draft].split, boundaries |-> b] :
        b \in Partitions(Len(version[state.draft].lines))}
Saves ==
    {[action |-> "save", at |-> state.revision, episode |-> e, row |-> episode[e].revision,
      base |-> episode[e].current, document |-> d] : e \in Listed, d \in Documents}
Confirms ==
    {[action |-> "confirm", at |-> state.revision, episode |-> e, row |-> episode[e].revision,
      base |-> episode[e].current] : e \in {f \in Listed : episode[f].current # None}}
Adopts ==
    {[action |-> "adopt", at |-> state.revision, version |-> v, split |-> version[v].split] :
        v \in {w \in DOMAIN version : version[w].split >= 1}}
Commands == Resplits \cup ConfirmSplits \cup Saves \cup Confirms \cup Adopts

(* One user's command is on its way while others work on; it may be lost.   *)
Send ==
    /\ command = Idle /\ state.revision < MaxRevision
    /\ command' \in Commands
    /\ UNCHANGED <<state, version, review, outside>>
Drop ==
    /\ command # Idle
    /\ command' = Idle
    /\ UNCHANGED <<state, version, review, outside>>

-----------------------------------------------------------------------------
(* What every command finds under the project's lock: the revision it was   *)
(* sent with, and no source write or import that is still under way.        *)
Interrupts(c) == c.at = state.revision
Current(c) == c.at = state.revision /\ writing = None
ReviewState(c) == Current(c) /\ state.draft = c.version
Advance == state' = [state EXCEPT !.revision = @ + 1]

Resplit(c) ==
    /\ c.action = "resplit" /\ ReviewState(c)
    /\ version[c.version].split = c.split
    /\ LET split == RulesSplit(version[c.version].lines) IN
       /\ split.episodes # <<>> =>
             ValidBoundaries(split, Len(version[c.version].lines))
       /\ version' = [version EXCEPT ![c.version].split = @ + 1,
                                     ![c.version].candidate = split]
    /\ Advance
    /\ UNCHANGED <<review, outside>>

(* An episode of which a boundary moves gets a new identity, unless its     *)
(* structure is confirmed: then the command is refused for its impact.      *)
Moved(b, v) == {e \in Live(v) : \A i \in DOMAIN b.episodes : b.episodes[i].seq # episode[e].seq}
Replaced(b, v) == {e \in Live(v) : \A i \in DOMAIN b.episodes : ~Same(b.episodes[i], e)}

Acknowledged(b, v) == TRUE
Harmless(b, v) == \A e \in Replaced(b, v) : episode[e].confirmed = None

Kept(b, v, i) == {e \in Live(v) : Same(b.episodes[i], e)}
NewEpisodes(b, v) ==
    LET new == {i \in DOMAIN b.episodes : Kept(b, v, i) = {}}
        Nth(n) == CHOOSE i \in new : Cardinality({j \in new : j < i}) = n - 1
    IN  [n \in 1..Cardinality(new) |->
            [version |-> v, seq |-> b.episodes[Nth(n)].seq, start |-> b.episodes[Nth(n)].start,
             end |-> b.episodes[Nth(n)].end, title |-> b.episodes[Nth(n)].title, revision |-> 1,
             current |-> None, confirmed |-> None, deleted |-> FALSE]]

ConfirmSplit(c) ==
    LET v == c.version
        b == c.boundaries
    IN
    /\ c.action = "confirm_split" /\ ReviewState(c)
    /\ version[v].split = c.split
    /\ ValidBoundaries(b, Len(version[v].lines))
    /\ Harmless(b, v)
    /\ LET new == NewEpisodes(b, v)
           all == DOMAIN episode \cup 1..(Len(episode) + Len(new))
           Retitled(e) == {t \in Titles \ {episode[e].title} : \E i \in DOMAIN b.episodes :
                              Same(b.episodes[i], e) /\ b.episodes[i].title = t}
           After(e) == IF e \in Replaced(b, v)
                       THEN [episode[e] EXCEPT !.deleted = TRUE, !.revision = @ + 1]
                       ELSE IF e \in Live(v) /\ Retitled(e) # {}
                       THEN [episode[e] EXCEPT !.title = CHOOSE t \in Retitled(e) : TRUE,
                                               !.revision = @ + 1]
                       ELSE episode[e]
       IN
       /\ episode' = [e \in all |-> IF e \in DOMAIN episode THEN After(e)
                                    ELSE new[e - Len(episode)]]
       /\ structure' = [e \in all |-> IF e \in DOMAIN structure THEN structure[e] ELSE <<>>]
       /\ decision' = [decision EXCEPT ![v] = Append(@,
             [revision |-> version[v].split + 1, preface |-> b.preface,
              episodes |-> [i \in DOMAIN b.episodes |->
                 IF Kept(b, v, i) # {} THEN CHOOSE e \in Kept(b, v, i) : TRUE
                 ELSE Len(episode) + (CHOOSE n \in DOMAIN new : new[n].seq = i)]])]
    /\ version' = [version EXCEPT ![v].split = @ + 1, ![v].formal = TRUE]
    /\ Advance
    /\ UNCHANGED outside

(* episodeReviewState *)
EpisodeState(c) ==
    LET e == episode[c.episode] IN
    /\ Current(c)
    /\ ~e.deleted /\ e.revision = c.row
    /\ e.version \in {state.draft, state.adopted}
    /\ version[e.version].formal

SaveStructure(c) ==
    /\ c.action = "save" /\ EpisodeState(c)
    /\ c.base = episode[c.episode].current
    /\ structure' = [structure EXCEPT ![c.episode] =
                        Append(@, c.document)]
    /\ episode' = [episode EXCEPT ![c.episode].current = Len(structure[c.episode]) + 1,
                                  ![c.episode].revision = @ + 1]
    /\ Advance
    /\ UNCHANGED <<version, decision, outside>>

(* Whether confirming s would replace another confirmed structure. *)
Overwritten(e, s) == TRUE
Unreplaced(e, s) == episode[e].confirmed \in {None, s}

ConfirmStructure(c) ==
    LET s == episode[c.episode].current
    IN
    /\ c.action = "confirm" /\ EpisodeState(c)
    /\ s = c.base
    /\ structure[c.episode][s].whole
    /\ Unreplaced(c.episode, s)
    /\ episode' = [episode EXCEPT ![c.episode].confirmed = s, ![c.episode].revision = @ + 1]
    /\ Advance
    /\ UNCHANGED <<version, decision, structure, outside>>

(* Adopt: the episodes of the last decision, which another adopted version  *)
(* excludes.                                                                *)
Adopt(c) ==
    LET v == c.version
        Nth(n) == CHOOSE e \in Live(v) : episode[e].seq = n
    IN
    /\ c.action = "adopt" /\ Current(c)
    /\ version[v].split = c.split
    /\ version[v].formal
    /\ {episode[e].seq : e \in Live(v)} = 1..Cardinality(Live(v))
    /\ ValidBoundaries([preface |-> Latest(v).preface,
                        episodes |-> [n \in 1..Cardinality(Live(v)) |-> episode[Nth(n)]]],
                       Len(version[v].lines))
    /\ state.adopted \in {None, v}
    /\ state' = IF state.adopted = v THEN state
                ELSE [state EXCEPT !.adopted = v, !.revision = @ + 1]
    /\ UNCHANGED <<version, review, outside>>

-----------------------------------------------------------------------------
(* The other writers of the project *)

(* A source write is prepared at a revision, and published or given up.     *)
PrepareSource ==
    /\ writing = None /\ state.revision < MaxRevision
    /\ Len(version) < Len(Manuscripts)
    /\ writing' = state.revision
    /\ UNCHANGED <<state, version, review, command, looks>>
PublishSource ==
    /\ writing # None /\ writing = state.revision
    /\ version' = Append(version, Version(Manuscripts[Len(version) + 1]))
    /\ decision' = Append(decision, Undecided)
    /\ state' = [state EXCEPT !.draft = Len(version) + 1, !.revision = @ + 1]
    /\ writing' = None
    /\ UNCHANGED <<episode, structure, command, looks>>
CancelSource ==
    /\ writing # None
    /\ writing' = None
    /\ UNCHANGED <<state, version, review, command, looks>>

(* ValidateLookScopes: a look of the bible may be limited to an episode of  *)
(* the current version or to a scene of its confirmed structure.            *)
Scenes(e) == structure[e][episode[e].confirmed].scenes
ScopeSaved(e, scene) ==
    /\ ~episode[e].deleted
    /\ scene # "any" => episode[e].current # None
                        /\ scene \in structure[e][episode[e].current].scenes
ScopeExists(e, scene) ==
    /\ ~episode[e].deleted
    /\ version[episode[e].version].formal
    /\ episode[e].version = IF state.adopted # None THEN state.adopted ELSE state.draft
    /\ scene # "any" => episode[e].confirmed # None /\ scene \in Scenes(e)
CommitLook ==
    /\ Cardinality(looks) < MaxLooks /\ state.revision < MaxRevision
    /\ \E e \in DOMAIN episode, scene \in {"any"} \cup UNION {d.scenes : d \in Documents} :
          /\ ScopeExists(e, scene)
          /\ looks' = looks \cup {[episode |-> e, scene |-> scene]}
    /\ UNCHANGED <<state, version, review, command, writing>>

Review(c) ==
    \/ /\ state.revision < MaxRevision
       /\ Resplit(c) \/ ConfirmSplit(c) \/ SaveStructure(c)
    \/ /\ state.revision <= MaxRevision
       /\ ConfirmStructure(c) \/ Adopt(c)
Next ==
    \/ Send \/ Drop
    \/ command # Idle /\ Review(command) /\ command' = Idle
    \/ \E c \in Commands : Review(c) /\ UNCHANGED command
    \/ PrepareSource
    \/ state.revision < MaxRevision /\ PublishSource
    \/ CancelSource \/ CommitLook

Spec == Init /\ [][Next]_vars

-----------------------------------------------------------------------------
(* What is proposed for a text divides the whole of it. *)
CandidatesTile ==
    \A v \in DOMAIN version : version[v].candidate.episodes # <<>> =>
        ValidBoundaries(version[v].candidate, Len(version[v].lines))

(* The last decision on a version names its live episodes, one for each     *)
(* part of the text.                                                        *)
DecisionHolds ==
    \A v \in DOMAIN version : version[v].formal =>
        LET d == Latest(v) IN
        /\ {d.episodes[i] : i \in DOMAIN d.episodes} = Live(v)
        /\ ValidBoundaries([preface |-> d.preface,
                            episodes |-> [i \in DOMAIN d.episodes |-> episode[d.episodes[i]]]],
                           Len(version[v].lines))

(* A confirmed structure leaves no line of its episode unassigned.         *)
ConfirmedWhole ==
    \A e \in DOMAIN episode : episode[e].confirmed # None =>
        ~episode[e].deleted /\ structure[e][episode[e].confirmed].whole

(* A scene that a look was limited to is there as long as the look is.      *)
ScopesHold ==
    \A l \in looks : l.scene # "any" =>
        ~episode[l.episode].deleted /\ episode[l.episode].confirmed # None
        /\ l.scene \in Scenes(l.episode)

(* A source write in flight publishes over the script it was planned for.   *)
NothingBetween == writing \in {None, state.revision}

ReviewHonest ==
    CandidatesTile /\ DecisionHolds /\ ConfirmedWhole /\ ScopesHold /\ NothingBetween

(* What was confirmed or adopted is never replaced, whoever was reviewing   *)
(* the same script at the time.                                             *)
ReviewKept ==
    /\ \A e \in DOMAIN episode : episode[e].confirmed # None =>
          /\ ~episode'[e].deleted /\ episode'[e].confirmed = episode[e].confirmed
          /\ structure'[e][episode[e].confirmed] = structure[e][episode[e].confirmed]
          /\ <<episode'[e].start, episode'[e].end>> = <<episode[e].start, episode[e].end>>
    /\ state.adopted # None => state'.adopted = state.adopted

-----------------------------------------------------------------------------
(* What a project copy does with the history of a script: read every row,    *)
(* also of replaced episodes, check that the rows fit together, give each    *)
(* identity a new one that follows from the job and the old one, carry the   *)
(* looks' scopes over, and compare source and copy by their content.         *)
(*                                                                           *)
(* A row has an identity, references to other rows, and data.  Texts, the    *)
(* characters pinned to lines and the lines themselves are left out.         *)

(* An identity: what it names, and the jobs that derived it, in order.      *)
Id(name) == [name |-> name, jobs |-> <<>>]
Nil == Id(<<>>)
Kind(id) == id.name[1]

Row(id, refs, data) == [id |-> id, refs |-> refs, data |-> data]

VersionId(v) == IF v = None THEN Nil ELSE Id(<<"version", v>>)
Candidate(v) == Id(<<"candidate", v>>)
Formal(v) == IF version[v].formal THEN Id(<<"formal", v>>) ELSE Nil
EpisodeId(e) == Id(<<"episode", e>>)
StructureId(e, s) == IF s = None THEN Nil ELSE Id(<<"structure", e, s>>)
SceneKey(e, k) == Id(<<"key", e, k>>)

-----------------------------------------------------------------------------
(* readCopyHistory: each table's rows, episodes that were replaced too.     *)
LiveEpisodes == {e \in DOMAIN episode : ~episode[e].deleted}
AllEpisodes == DOMAIN episode

SourceRows(v) ==
    [i \in DOMAIN version[v].lines |-> Row(Id(<<"source", v, i>>), <<>>, <<version[v].lines[i]>>)]
VersionRows(v) ==
    <<Row(VersionId(v), [i \in DOMAIN version[v].lines |-> Id(<<"source", v, i>>)], <<>>),
      Row(Id(<<"head", v>>), <<VersionId(v), Candidate(v), Formal(v)>>, <<version[v].split>>),
      Row(Candidate(v), <<VersionId(v)>>, <<version[v].candidate>>)>>
    \o (IF version[v].formal THEN <<Row(Formal(v), <<VersionId(v)>>, <<>>)>> ELSE <<>>)
ConfirmationRows(v) ==
    [i \in DOMAIN decision[v] |->
        LET d == decision[v][i] IN
        Row(Id(<<"confirmation", v, i>>),
            <<VersionId(v), Candidate(v), Formal(v)>> \o
                [j \in DOMAIN d.episodes |-> EpisodeId(d.episodes[j])],
            <<d.revision, d.preface>>)]
EpisodeRows(e) ==
    LET r == episode[e] IN
    IF e \notin AllEpisodes THEN <<>>
    ELSE <<Row(EpisodeId(e), <<VersionId(r.version), Formal(r.version),
                               StructureId(e, r.current), StructureId(e, r.confirmed)>>,
               <<r.seq, r.start, r.end, r.title, r.revision, r.deleted>>)>>
StructureRows(e) ==
    [s \in DOMAIN structure[e] |->
        LET keys == SetToSeq(structure[e][s].scenes) IN
        Row(StructureId(e, s), <<EpisodeId(e)>> \o [i \in DOMAIN keys |-> SceneKey(e, keys[i])],
            <<structure[e][s].whole>>)]
SceneRows(e) ==
    FlattenSeq([s \in DOMAIN structure[e] |->
        LET keys == SetToSeq(structure[e][s].scenes) IN
        [i \in DOMAIN keys |-> Row(Id(<<"scene", e, s, keys[i]>>),
                                   <<StructureId(e, s), SceneKey(e, keys[i])>>, <<i>>)]])

Each(n, Rows(_)) == FlattenSeq([i \in 1..n |-> Rows(i)])
History ==
    <<Row(Id(<<"state">>), <<VersionId(state.draft), VersionId(state.adopted)>>, <<state.revision>>)>>
    \o Each(Len(version), SourceRows) \o Each(Len(version), VersionRows)
    \o Each(Len(version), ConfirmationRows) \o Each(Len(episode), EpisodeRows)
    \o Each(Len(episode), StructureRows) \o Each(Len(episode), SceneRows)

-----------------------------------------------------------------------------
(* validateCopyHistory: identities are unique, references lead to rows, and *)
(* those of episodes, heads and confirmations to rows of their own.         *)
Ids(h) == {h[i].id : i \in DOMAIN h}
RowOf(h, id) == h[CHOOSE i \in DOMAIN h : h[i].id = id]
Belongs(h, id, owner) == id = Nil \/ RowOf(h, id).refs[1] = owner

(* validateCopyStructures: a structure's document names exactly the scenes  *)
(* that there are rows for.                                                 *)
Materialized(h) ==
    \A i \in {k \in DOMAIN h : Kind(h[k].id) = "structure"} :
        LET rows == {k \in DOMAIN h : Kind(h[k].id) = "scene" /\ h[k].refs[1] = h[i].id}
        IN  /\ {h[k].refs[2] : k \in rows} = ToSet(Tail(h[i].refs))
            /\ Cardinality(rows) = Len(h[i].refs) - 1

ValidHistory(h) ==
    /\ Materialized(h)
    /\ Cardinality(Ids(h)) = Len(h)
    /\ \A i \in DOMAIN h : \A j \in DOMAIN h[i].refs :
          LET ref == h[i].refs[j] IN ref \in Ids(h) \cup {Nil} \/ Kind(ref) = "key"
    /\ \A i \in DOMAIN h :
          CASE Kind(h[i].id) = "episode" ->
                 h[i].refs[2] # Nil /\ \A j \in {3, 4} : Belongs(h, h[i].refs[j], h[i].id)
            [] Kind(h[i].id) \in {"head", "confirmation"} ->
                 /\ \A j \in {2, 3} : Belongs(h, h[i].refs[j], h[i].refs[1])
                 /\ Kind(h[i].id) = "confirmation" => h[i].refs[3] # Nil
            [] OTHER -> TRUE

(* projectCopyIdentity: follows from the job and the original.              *)
SharedIdentity(job, id) == IF id = Nil THEN Nil ELSE [id EXCEPT !.jobs = Append(@, "copy")]
CopyIdentity(job, id) == IF id = Nil THEN Nil ELSE [id EXCEPT !.jobs = Append(@, job)]

(* transformCopyHistory *)
Remap(job, h) ==
    [i \in DOMAIN h |-> [h[i] EXCEPT !.id = CopyIdentity(job, @),
                                     !.refs = [j \in DOMAIN @ |-> CopyIdentity(job, @[j])]]]

(* copyHistoryIdentities and ProjectHistoryContentSHA: identities by the    *)
(* order in which they are met, and all the data.                           *)
Identities(h) ==
    FlattenSeq([i \in DOMAIN h |-> <<h[i].id>> \o SelectSeq(h[i].refs, LAMBDA r : r # Nil /\ Kind(r) = "key")])
Content(h) ==
    LET met == Identities(h)
        Ordinal(id) == IF id = Nil THEN 0 ELSE SelectInSeq(met, LAMBDA m : m = id)
    IN  [i \in DOMAIN h |-> <<Ordinal(h[i].id), [j \in DOMAIN h[i].refs |-> Ordinal(h[i].refs[j])],
                              h[i].data>>]

(* PlanProjectCopyLookScopes: an episode that was once decided on, a scene  *)
(* that one of its structures has.                                          *)
DecidedLast(e) == \E v \in DOMAIN decision : decision[v] # <<>> /\
                    e \in {Latest(v).episodes[i] : i \in DOMAIN Latest(v).episodes}
Decided(e) == \E v \in DOMAIN decision : \E i \in DOMAIN decision[v] :
                 e \in {decision[v][i].episodes[j] : j \in DOMAIN decision[v][i].episodes}
Plannable(look) ==
    /\ look.episode \in AllEpisodes /\ Decided(look.episode)
    /\ look.scene # "any" => \E s \in DOMAIN structure[look.episode] :
                                look.scene \in structure[look.episode][s].scenes
Planned(job, look) ==
    <<CopyIdentity(job, EpisodeId(look.episode)),
      IF look.scene = "any" THEN Nil ELSE CopyIdentity(job, SceneKey(look.episode, look.scene))>>

-----------------------------------------------------------------------------
(* RemapProjectHistory: nothing for a history that is not valid. *)
Manifest(job) == IF ValidHistory(History) THEN Remap(job, History) ELSE <<>>

(* Freeze refuses a script while a source is written, and scopes that have  *)
(* no counterpart.                                                          *)
Freezes(job) == writing = None /\ Manifest(job) # <<>> /\ \A l \in looks : Plannable(l)

(* Register: what the copy's tables hold has the content that was frozen.   *)
Registers(job) == Content(Manifest(job)) = Content(History)

-----------------------------------------------------------------------------
(* A copy can be copied again, shares no row with its source or with        *)
(* another copy, and a look's scope leads to an episode, and a scene, that  *)
(* it has.                                                                  *)
CopyFits(job) ==
    LET copy == Manifest(job) IN
    /\ ValidHistory(copy)
    /\ Ids(copy) \cap Ids(History) = {}
    /\ \A other \in Jobs \ {job} : Ids(copy) \cap Ids(Manifest(other)) = {}
    /\ \A l \in looks : /\ Planned(job, l)[1] \in Ids(copy)
                        /\ Planned(job, l)[2] \in {Nil} \cup
                              {copy[i].refs[2] : i \in {k \in DOMAIN copy : Kind(copy[k].id) = "scene"}}

(* Whatever a review has done, replaced or confirmed, between two source    *)
(* writes the project can be copied, whole.  (The command on its way is no  *)
(* part of a history.)                                                      *)
ScriptCopied ==
    command = Idle /\ writing = None =>
        \A job \in Jobs : Freezes(job) /\ Registers(job) /\ CopyFits(job)
=============================================================================
