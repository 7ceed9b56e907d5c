---------------------------- MODULE LineSettings ----------------------------
(***************************************************************************)
(* The settings of one product line: config_json, which several console    *)
(* pages write block by block, and the copies of it the router caches per  *)
(* channel.                                                                *)
(*                                                                         *)
(* rev counts the writes; a cached route is the rev it was read at.        *)
(***************************************************************************)
EXTENDS Naturals, FiniteSets

CONSTANTS
  Editors,           \* requests in flight at once
  RouteChannels,     \* channels of the line
  MaxRev,            \* bound: writes
  MaxSettingsFaults  \* bound: failing calls

\* The settings in config_json, and the top-level key each is stored under.
Settings == {"threshold", "rules", "survey", "ontology", "dataset"}
BlockOf(f) == IF f \in {"threshold", "rules"} THEN "guardrail" ELSE f

VARIABLES
  stored,       \* [Settings -> rev it was written at]
  intended,     \* [Settings -> rev of the last write that set it] (history)
  rev,
  editor,       \* [Editors -> the request in hand]
  crossed,      \* blocks two requests had in hand at once, or saved while the
                \* binding of a new app had the document in hand (history)
  cached,       \* [RouteChannels -> rev, 0 for a miss]
  filling,      \* the router's read of the row that is not cached yet
  straddled,    \* channels last filled with a read older than an invalidation (history)
  reported,     \* newest rev whose request answered cache_invalidated
  settingsFaults

lineVars == <<stored, intended, rev, editor, crossed, cached, filling, straddled, reported, settingsFaults>>

\* set and read of a request that will write, the rest of one that drops routes.
Request(pc, set, read, r, todo, ok) ==
  [pc |-> pc, set |-> set, read |-> read, rev |-> r, todo |-> todo, ok |-> ok]
Unread == [f \in Settings |-> 0]
NoRequest == Request("idle", {}, Unread, 0, {}, FALSE)
Fill(c, r, late) == [channel |-> c, rev |-> r, late |-> late]
NoFill == Fill("none", 0, FALSE)

LineInit ==
  /\ stored = [f \in Settings |-> 1] /\ intended = stored /\ rev = 1
  /\ editor = [e \in Editors |-> NoRequest] /\ crossed = {}
  /\ cached = [c \in RouteChannels |-> 0] /\ filling = NoFill /\ straddled = {}
  /\ reported = 0 /\ settingsFaults = 0

SettingsFault == settingsFaults < MaxSettingsFaults /\ settingsFaults' = settingsFaults + 1

Blocks(set) == {BlockOf(f) : f \in set}

\* The read of a request that will set the settings in set.
Read(e, pc, set) ==
  /\ editor[e].pc = "idle" /\ rev < MaxRev
  /\ editor' = [editor EXCEPT ![e] = Request(pc, set, stored, 0, {}, FALSE)]
  /\ crossed' = crossed \cup {b \in Blocks(set) :
       \E d \in Editors : editor[d].pc \in {"write", "bind"} /\ b \in Blocks(editor[d].set)}
  /\ UNCHANGED <<stored, intended, rev, cached, filling, straddled, reported, settingsFaults>>

\* GetConfigJSON, by the pages that replace one block.
LoadSettings(e, set) == Read(e, "write", set)

UpdateThreshold(e) == LoadSettings(e, {"threshold"})
UpdateHandoffRules(e) == \E set \in {{"rules"}, {"rules", "threshold"}} : LoadSettings(e, set)
UpdateSurvey(e) == LoadSettings(e, {"survey"})
PutConfig(e) == LoadSettings(e, {"ontology"})

\* persistDifyBinding: a new dataset is a key of the document; with a new app
\* UpdateDifyBinding reads the document itself, to write it back.
SaveDataset(e) == LoadSettings(e, {"dataset"})
UpdateDifyBinding(e) == Read(e, "bind", {"dataset"})

Changed(e, f) == f \in editor[e].set

\* Mutant: the document as it was read is written back.
SetWholeConfig(e) == [f \in Settings |-> IF Changed(e, f) THEN rev + 1 ELSE editor[e].read[f]]

\* config_json || {key: block}: the rest of the block is what was read.
SetConfigKey(e) ==
  [f \in Settings |->
     IF Changed(e, f) THEN rev + 1
     ELSE IF \E g \in editor[e].set : BlockOf(g) = BlockOf(f) THEN editor[e].read[f] ELSE stored[f]]

\* The write; a survey's settings and the dataset are read from the row and need
\* no more.
WriteSettings(e) ==
  /\ editor[e].pc = "write" /\ rev < MaxRev
  /\ \/ /\ stored' = SetConfigKey(e) /\ rev' = rev + 1
        /\ intended' = [f \in Settings |-> IF Changed(e, f) THEN rev + 1 ELSE intended[f]]
        /\ editor' = [editor EXCEPT ![e] =
             IF Changed(e, "survey") \/ Changed(e, "dataset") THEN NoRequest
             ELSE Request("drop", {}, Unread, rev + 1, RouteChannels, TRUE)]
        /\ crossed' = IF \E d \in Editors : editor[d].pc = "bind"
                      THEN crossed \cup Blocks(editor[e].set) ELSE crossed
        /\ UNCHANGED settingsFaults
     \/ /\ SettingsFault /\ editor' = [editor EXCEPT ![e] = NoRequest]
        /\ UNCHANGED <<stored, intended, rev, crossed>>
  /\ UNCHANGED <<cached, filling, straddled, reported>>

\* The whole document as it was read, with the dataset's key replaced; the routes
\* are left to expire.
WriteBinding(e) ==
  /\ editor[e].pc = "bind" /\ rev < MaxRev
  /\ editor' = [editor EXCEPT ![e] = NoRequest]
  /\ \/ /\ stored' = [f \in Settings |-> IF Changed(e, f) THEN rev + 1 ELSE editor[e].read[f]]
        /\ rev' = rev + 1
        /\ intended' = [f \in Settings |-> IF Changed(e, f) THEN rev + 1 ELSE intended[f]]
        /\ UNCHANGED settingsFaults
     \/ SettingsFault /\ UNCHANGED <<stored, intended, rev>>
  /\ UNCHANGED <<crossed, cached, filling, straddled, reported>>

-----------------------------------------------------------------------------
(* routecache.Invalidator: list the line's channels, drop one by one.      *)

DropRoute(e, c) ==
  /\ editor[e].pc = "drop" /\ c \in editor[e].todo
  /\ \/ /\ cached' = [cached EXCEPT ![c] = 0]
        /\ filling' = Fill(filling.channel, filling.rev,
                           filling.late \/ (filling.channel = c /\ filling.rev < editor[e].rev))
        /\ editor' = [editor EXCEPT ![e] = Request("drop", {}, Unread, @.rev, @.todo \ {c}, @.ok)] /\ UNCHANGED settingsFaults
     \/ /\ SettingsFault /\ editor' = [editor EXCEPT ![e] = Request("drop", {}, Unread, @.rev, @.todo \ {c}, FALSE)]
        /\ UNCHANGED <<cached, filling>>
  /\ UNCHANGED <<stored, intended, rev, crossed, straddled, reported>>

\* Mutant: a list of channels that could not be read is an empty one.
ListFailureIsEmpty(e) ==
  /\ SettingsFault /\ editor' = [editor EXCEPT ![e].todo = {}] /\ UNCHANGED reported

\* No Redis, no lister, or ListIDs failed.
ListFailed(e) ==
  /\ SettingsFault /\ editor' = [editor EXCEPT ![e] = NoRequest] /\ UNCHANGED reported

\* The answer carries whether every route was dropped.
AnswerEditor(e) ==
  /\ editor[e].pc = "drop"
  /\ \/ editor[e].todo = RouteChannels /\ editor[e].ok /\ ListFailed(e)
     \/ /\ editor[e].todo = {} /\ editor' = [editor EXCEPT ![e] = NoRequest]
        /\ reported' = IF editor[e].ok /\ reported < editor[e].rev THEN editor[e].rev ELSE reported
        /\ UNCHANGED settingsFaults
  /\ UNCHANGED <<stored, intended, rev, crossed, cached, filling, straddled>>

-----------------------------------------------------------------------------
(* The router's RouteCache.  A read error of the cache counts as a miss.   *)

QueryRoute(c) ==
  /\ filling = NoFill
  /\ \/ cached[c] = 0 /\ UNCHANGED settingsFaults
     \/ SettingsFault
  /\ filling' = Fill(c, rev, FALSE)
  /\ UNCHANGED <<stored, intended, rev, editor, crossed, cached, straddled, reported>>

\* The pipeline of HSET and EXPIRE may fail; the route is used all the same.
SetRouteCache ==
  /\ filling # NoFill /\ filling' = NoFill
  /\ \/ cached' = [cached EXCEPT ![filling.channel] = filling.rev] /\ UNCHANGED settingsFaults
        /\ straddled' = IF filling.late THEN straddled \cup {filling.channel} ELSE straddled \ {filling.channel}
     \/ SettingsFault /\ UNCHANGED <<cached, straddled>>
  /\ UNCHANGED <<stored, intended, rev, editor, crossed, reported>>

ExpireRoute(c) ==
  /\ cached[c] # 0
  /\ cached' = [cached EXCEPT ![c] = 0]
  /\ UNCHANGED <<stored, intended, rev, editor, crossed, filling, straddled, reported, settingsFaults>>

LineNext ==
  \/ \E e \in Editors : \/ UpdateThreshold(e) \/ UpdateHandoffRules(e) \/ UpdateSurvey(e) \/ PutConfig(e)
                        \/ SaveDataset(e) \/ UpdateDifyBinding(e)
                        \/ WriteSettings(e) \/ WriteBinding(e) \/ AnswerEditor(e)
                        \/ \E c \in RouteChannels : DropRoute(e, c)
  \/ \E c \in RouteChannels : QueryRoute(c) \/ ExpireRoute(c)
  \/ SetRouteCache

LineSpec == LineInit /\ [][LineNext]_lineVars

-----------------------------------------------------------------------------
\* A setting holds what was last written to it, whatever other pages save at
\* the same time: only two requests for one block can undo each other, and the
\* binding of a new app what was saved while it had the document in hand.
SettingsKept == \A f \in Settings : stored[f] = intended[f] \/ BlockOf(f) \in crossed

\* After an answer with cache_invalidated no channel is routed by an older copy
\* of the settings, but for one the router was reading while it was dropped.
ReportedInvalidationHolds ==
  \A c \in RouteChannels : cached[c] # 0 /\ cached[c] < reported => c \in straddled
=============================================================================
