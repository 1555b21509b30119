---------------------------- MODULE SkillLibrary ----------------------------
(***************************************************************************)
(* The directory of skills.  SkillsManagementManager imports, copies,      *)
(* renames, archives and restores skills: each operation looks at the file *)
(* system over several awaits and then moves a directory.  An application  *)
(* may call it directly, or through OperationQueue, one operation at a     *)
(* time.  SkillsManager, which the agents' skills tool asks, scans the     *)
(* same directory at every load, into one cache for all loads.             *)
(*                                                                         *)
(* A directory is a place and a name, a name a base and the random         *)
(* suffixes it was given.  A skill is known by where it came from.  Import *)
(* unpacks in a place named by the millisecond, which two imports may      *)
(* share.                                                                  *)
(***************************************************************************)
EXTENDS Naturals, Sequences, FiniteSets, SequencesExt

CONSTANTS OnlineNames,   \* the names of the skills at first
          ZipNames,      \* names in zip files; a "bad" one has no valid SKILL.md
          TempPlaces,    \* the temporary directories of an import
          Workers,       \* operations that may run at a time
          Loaders,       \* loads that may run at a time
          AllowedNames,  \* the whitelist, when there is one
          Platforms,     \* subset of {"posix", "win32"}
          MaxRequests    \* bound: operations and loads requested

VARIABLES platform,
          serial,      \* operations go through the queue
          restricted,  \* the agents have a whitelist
          disk,        \* the directories there are, and the skill in each
          operations,  \* OperationQueue.queue
          processing,  \* OperationQueue.processing
          work,        \* worker -> its operation
          requested,   \* operations requested; also the source of suffixes
          imported,    \* the imports requested, and their places (observation)
          owed,        \* the skills that must be somewhere
          cache,       \* SkillsManager.cache: the directories of the skills
          load,        \* loader -> its load
          loads        \* loads requested

skillVars == <<platform, serial, restricted, disk, operations, processing, work, requested,
               imported, owed, cache, load, loads>>

\* A temporary directory is not in the library, and "bad" is no valid name.
ASSUME SkillAssumption ==
    /\ Workers # {}
    /\ TempPlaces \cap {"online", "archived"} = {}
    /\ "bad" \notin OnlineNames

Idle == [kind |-> "idle"]

At(place) == {d \in DOMAIN disk : d[1] = place}
FileExists(d) == d \in DOMAIN disk

Dir(place, base, suffixes) == <<place, base, suffixes>>
In(place, d) == Dir(place, d[2], d[3])

\* generateRandomSuffix: never the same twice.
Suffixed(place, d, k) == Dir(place, d[2], Append(d[3], k))

Without(dirs, d) == [e \in DOMAIN dirs \ {d} |-> dirs[e]]
With(dirs, d, skill) == [e \in DOMAIN dirs \cup {d} |-> IF e = d THEN skill ELSE dirs[e]]

IsBad(d) == d[2] = "bad"

\* An archived directory's name without the suffix that archiving gave it.
OriginalName(d) == IF d[3] = <<>> THEN d ELSE Dir("online", d[2], Front(d[3]))

\* listSkills and listArchivedSkills, when nothing moves meanwhile.
ListOnline == {[folderName |-> d, skill |-> disk[d]] : d \in {e \in At("online") : ~IsBad(e)}}
ListArchivedSkills ==
    {[folderName |-> d, originalName |-> OriginalName(d), skill |-> disk[d]] :
        d \in {e \in At("archived") : ~IsBad(e)}}

Own(base) == <<0, base>>
-----------------------------------------------------------------------------
SkillInit ==
    /\ platform \in Platforms /\ serial \in BOOLEAN /\ restricted \in BOOLEAN
    /\ disk = [d \in {Dir("online", n, <<>>) : n \in OnlineNames} |-> Own(d[2])]
    /\ operations = <<>> /\ processing = FALSE
    /\ work = [w \in Workers |-> Idle]
    /\ requested = 0 /\ imported = {} /\ owed = {Own(n) : n \in OnlineNames}
    /\ cache = {} /\ load = [l \in Loaders |-> Idle] /\ loads = 0

Operation(kind, from, to) ==
    [kind |-> kind, from |-> from, to |-> to, step |-> "check", id |-> requested + 1,
     temp |-> "", zip |-> {}, todo |-> {}]

Import(temp, zip) ==
    [Operation("import", <<>>, <<>>) EXCEPT !.step = "extract", !.temp = temp, !.zip = zip]

\* The operations that a user may ask for, by the names he has seen.
Operations ==
    LET online == At("online") \cup {Dir("online", n, <<>>) : n \in OnlineNames}
        next == requested + 1
    IN  {Operation("rename", d, Dir("online", n, <<>>)) : d \in online, n \in OnlineNames}
        \cup {Operation("copy", d, Suffixed("online", d, next)) : d \in online}
        \cup {Operation("archive", d, Suffixed("archived", d, next)) : d \in online}
        \cup {Operation("unarchive", s.folderName, s.originalName) : s \in ListArchivedSkills}
        \cup {Import(temp, zip) : temp \in TempPlaces, zip \in SUBSET ZipNames \ {{}}}

FreeWorkers == {w \in Workers : work[w] = Idle}

\* A direct call starts at once, one through the queue when its turn comes.
\* enqueue starts processQueue unless it is running.
Request(op) ==
    /\ requested + loads < MaxRequests
    /\ requested' = requested + 1
    /\ imported' = imported \cup (IF op.kind = "import" THEN {[id |-> op.id, temp |-> op.temp]} ELSE {})
    /\ IF ~serial
       THEN /\ FreeWorkers # {}
            /\ work' = [work EXCEPT ![CHOOSE w \in FreeWorkers : TRUE] = op]
            /\ UNCHANGED <<operations, processing>>
       ELSE IF processing
       THEN operations' = Append(operations, op) /\ UNCHANGED <<processing, work>>
       ELSE /\ work' = [work EXCEPT ![CHOOSE w \in FreeWorkers : TRUE] = op]
            /\ processing' = TRUE
            /\ UNCHANGED operations
    /\ UNCHANGED <<platform, serial, restricted, disk, owed, cache, load, loads>>

\* Faulty variant: clear takes the running operation for dropped, too.
ClearAndStop ==
    /\ operations # <<>>
    /\ operations' = <<>> /\ processing' = FALSE
    /\ UNCHANGED <<platform, serial, restricted, disk, work, requested, imported, owed, cache, load,
                   loads>>

\* clear drops what waits.
ClearQueue ==
    /\ operations # <<>>
    /\ operations' = <<>>
    /\ UNCHANGED <<platform, serial, restricted, disk, processing, work, requested, imported, owed,
                   cache, load, loads>>

\* The operation of w has returned or thrown; processQueue takes the next one.
Ends(w) ==
    IF serial /\ operations # <<>>
    THEN /\ work' = [work EXCEPT ![w] = Head(operations)]
         /\ operations' = Tail(operations)
         /\ UNCHANGED processing
    ELSE /\ work' = [work EXCEPT ![w] = Idle]
         /\ processing' = FALSE
         /\ UNCHANGED operations

Continues(w, op) == work' = [work EXCEPT ![w] = op] /\ UNCHANGED <<operations, processing>>
GoesTo(w, step) == Continues(w, [work[w] EXCEPT !.step = step])

Wanted(l) == Dir("online", load[l].name, <<>>)

DiskBecomes(dirs) ==
    /\ disk' = dirs
    /\ load' = [l \in Loaders |->
                   IF load[l].kind \in {"list", "scan"} /\ Wanted(l) \notin DOMAIN dirs
                   THEN [load[l] EXCEPT !.steady = FALSE] ELSE load[l]]

Unmoved == UNCHANGED <<disk, load, owed>>
Managing == UNCHANGED <<platform, serial, restricted, requested, imported, cache, loads>>

\* The source has to exist, ...
CheckSource(w) ==
    LET op == work[w]
    IN /\ op.kind # "idle" /\ op.step = "check"
       /\ IF ~FileExists(op.from) THEN Ends(w)
          ELSE GoesTo(w, CASE op.kind = "copy"    -> "copy"
                           [] op.kind = "archive" -> "move"
                           [] OTHER               -> "target")
       /\ Unmoved /\ Managing

\* ... the target of a rename or a restore must not, and an import takes
\* another name.
CheckTarget(w) ==
    LET op == work[w]
    IN /\ op.kind # "idle" /\ op.step = "target"
       /\ IF ~FileExists(op.to) THEN GoesTo(w, "move")
          ELSE IF op.kind = "import"
               THEN Continues(w, [op EXCEPT !.to = Suffixed("online", @, op.id), !.step = "move"])
               ELSE Ends(w)
       /\ Unmoved /\ Managing

\* fs.cp into a name of its own.
CopySkill(w) ==
    LET op == work[w]
    IN /\ op.kind = "copy" /\ op.step = "copy"
       /\ DiskBecomes(IF FileExists(op.from) THEN With(disk, op.to, disk[op.from]) ELSE disk)
       /\ Ends(w)
       /\ UNCHANGED owed /\ Managing

Moved(w) == IF work[w].kind = "import" THEN GoesTo(w, "next") ELSE Ends(w)
Fails(w) == IF work[w].kind = "import" THEN GoesTo(w, "clean") ELSE Ends(w)

\* safeRename.  rename() fails on a directory that is there; Windows copies
\* into it and then removes the source.
SafeRename(w) ==
    LET op == work[w]
    IN /\ op.kind # "idle" /\ op.step = "move"
       /\ CASE ~FileExists(op.from) \/ (platform = "posix" /\ FileExists(op.to)) ->
                 Fails(w) /\ Unmoved
            [] platform = "posix" /\ FileExists(op.from) /\ ~FileExists(op.to) ->
                 /\ DiskBecomes(Without(With(disk, op.to, disk[op.from]), op.from))
                 /\ Moved(w) /\ UNCHANGED owed
            [] OTHER ->
                 /\ DiskBecomes(With(disk, op.to, disk[op.from]))
                 /\ GoesTo(w, "remove") /\ UNCHANGED owed
       /\ Managing

RemoveSource(w) ==
    LET op == work[w]
    IN /\ op.kind # "idle" /\ op.step = "remove"
       /\ DiskBecomes(Without(disk, op.from))
       /\ Moved(w)
       /\ UNCHANGED owed /\ Managing

\* importSkill: mkdir and unzip, which asks, and waits for ever, when a file
\* is there already, ...
ExtractZip(w) ==
    LET op == work[w]
        dirs == {Dir(op.temp, n, <<>>) : n \in op.zip}
    IN /\ op.kind = "import" /\ op.step = "extract"
       /\ dirs \cap DOMAIN disk = {}
       /\ DiskBecomes([d \in DOMAIN disk \cup dirs |->
                         IF d \in dirs THEN <<op.id, d[2]>> ELSE disk[d]])
       /\ GoesTo(w, "list")
       /\ UNCHANGED owed /\ Managing

\* ... readdir, which fails when another import removed the directory, ...
ListZip(w) ==
    LET op == work[w]
    IN /\ op.kind = "import" /\ op.step = "list"
       /\ Continues(w, [op EXCEPT !.todo = At(op.temp),
                                  !.step = IF At(op.temp) = {} THEN "clean" ELSE "next"])
       /\ Unmoved /\ Managing

\* ... one directory after another, which must have a valid SKILL.md, ...
NextEntry(w) ==
    LET op == work[w]
    IN /\ op.kind = "import" /\ op.step = "next"
       /\ \/ /\ op.todo = {}
             /\ GoesTo(w, "clean")
             /\ owed' = owed \cup {<<op.id, n>> : n \in op.zip}
          \/ /\ \E d \in op.todo :
                   IF ~FileExists(d) \/ IsBad(d) THEN GoesTo(w, "clean")
                   ELSE Continues(w, [op EXCEPT !.from = d, !.to = In("online", d),
                                                !.todo = @ \ {d}, !.step = "target"])
             /\ UNCHANGED owed
       /\ UNCHANGED <<disk, load>> /\ Managing

\* ... and in the end, also after a failure, the temporary directory is removed.
CleanTemp(w) ==
    LET op == work[w]
    IN /\ op.kind = "import" /\ op.step = "clean"
       /\ DiskBecomes([d \in DOMAIN disk \ At(op.temp) |-> disk[d]])
       /\ Ends(w)
       /\ UNCHANGED owed /\ Managing
-----------------------------------------------------------------------------
Loading == UNCHANGED <<platform, serial, restricted, disk, operations, processing, work,
                       requested, imported, owed>>

\* loadSkillContent begins with scan(), which empties the cache of all, ...
LoadSkill(l, name) ==
    /\ load[l] = Idle /\ requested + loads < MaxRequests
    /\ loads' = loads + 1
    /\ cache' = {}
    /\ LET busy == {m \in Loaders : load[m].kind \in {"list", "scan"}}
       IN load' = [m \in Loaders |->
                      IF m = l
                      THEN [kind |-> "list", name |-> name, todo |-> {}, found |-> FALSE,
                            steady |-> FileExists(Dir("online", name, <<>>)), alone |-> busy = {}]
                      ELSE IF m \in busy THEN [load[m] EXCEPT !.alone = FALSE] ELSE load[m]]
    /\ Loading

\* ... lists the directories, also those in .archived, which is one of them, ...
ListSkills(l) ==
    /\ load[l].kind = "list"
    /\ load' = [load EXCEPT ![l].todo = At("online") \cup At("archived"), ![l].kind = "scan"]
    /\ Loading /\ UNCHANGED <<cache, loads>>

Allowed(d) == restricted => d[2] \in AllowedNames /\ d[3] = <<>>

\* ... and reads one SKILL.md after another; one that went is skipped.
ScanSkill(l) ==
    /\ load[l].kind = "scan"
    /\ \E d \in load[l].todo :
          /\ cache' = IF FileExists(d) /\ Allowed(d) THEN cache \cup {d} ELSE cache
          /\ load' = [load EXCEPT ![l].todo = @ \ {d}]
    /\ Loading /\ UNCHANGED loads

GetSkill(l) ==
    /\ load[l].kind = "scan" /\ load[l].todo = {}
    /\ load' = [load EXCEPT ![l].kind = "done",
                            ![l].found = Wanted(l) \in cache /\ FileExists(Wanted(l))]
    /\ Loading /\ UNCHANGED <<cache, loads>>

SkillNext ==
    \/ \E op \in Operations : Request(op)
    \/ ClearQueue
    \/ \E w \in Workers : \/ CheckSource(w) \/ CheckTarget(w) \/ CopySkill(w)
                           \/ SafeRename(w) \/ RemoveSource(w)
                           \/ ExtractZip(w) \/ ListZip(w) \/ NextEntry(w) \/ CleanTemp(w)
    \/ \E l \in Loaders : \/ \E name \in OnlineNames : LoadSkill(l, name)
                           \/ ListSkills(l) \/ ScanSkill(l) \/ GetSkill(l)

SkillSpec == SkillInit /\ [][SkillNext]_skillVars
-----------------------------------------------------------------------------
\* Three imports in one millisecond.  When the first has removed the directory, the third
\* may unpack into it what the second takes for its own.
Crowded ==
    \E a, b, c \in imported : a.temp = b.temp /\ b.temp = c.temp /\ a # b /\ b # c /\ a # c

\* No operation removes a skill: those that were there and those of every
\* import that succeeded are in the lists of online or archived skills,
\* whatever else went on at the time - unless three imports share a directory,
\* or where (on Windows) a directory is moved by copying into the target, if the
\* operations do not go through the queue.
NoSkillLost ==
    serial \/ (platform = "posix" /\ ~Crowded) =>
        owed \subseteq {s.skill : s \in ListOnline \cup ListArchivedSkills}

\* The queue does not stop while operations wait, whether they fail or not,
\* and starts one only when the last is over.
QueueMoves ==
    /\ operations # <<>> => processing
    /\ serial => Cardinality({w \in Workers : work[w] # Idle}) = IF processing THEN 1 ELSE 0

\* A load of a skill that was there all the time finds it, while operations
\* move other skills, if no other load emptied the cache meanwhile.
LoadFinds ==
    \A l \in Loaders :
        load[l].kind = "done" /\ load[l].steady /\ load[l].alone /\ Allowed(Wanted(l))
            => load[l].found

\* Managing skills loses none, stops nothing and hides none from the agents.
SkillsKept == NoSkillLost /\ QueueMoves /\ LoadFinds
=============================================================================
