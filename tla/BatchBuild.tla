----------------------------- MODULE BatchBuild -----------------------------
(***************************************************************************)
(* all_building.py: builds every example directory, skipping those whose   *)
(* last build succeeded and whose directory and command file look          *)
(* unchanged.  What it compares are modification times in whole seconds;   *)
(* the developer goes on editing while it runs, and may interrupt it.      *)
(*                                                                         *)
(* A version stands for a content: of a target's directory (src) and of    *)
(* commands_build.txt (cmds).  The commands choose the build directories,  *)
(* which several targets may share: the standard one says -d build-<target>*)
(* (line 31), an override may say another or none at all.  The compiler,   *)
(* west and the developer are external.                                    *)
(***************************************************************************)
EXTENDS Integers, Sequences

CONSTANTS
    Targets,        \* the targets, in the order of find_targets
    Layouts,        \* build directory of each target, by its command: what
                    \*   the versions of commands_build.txt may come to
    Standard,       \* the one without a special command (STD_CMD)
    Edits,          \* the kinds of edit the developer makes
    MaxClock,       \* bound: seconds
    MaxEdits,       \* bound: edits in a behaviour
    MaxStops        \* bound: interruptions of the script

\* "spaced": an edit in a later second than the newest file of the directory;
\* "hurried": in the same second; "quiet": a file removed, or an older one
\* moved in; "commands": commands_build.txt between runs; "commands_race":
\* while the script is reading it.
ASSUME EditsAssumption ==
    Edits \subseteq {"spaced", "hurried", "quiet", "commands", "commands_race"}
ASSUME BoundsAssumption ==
    MaxClock \in Nat \ {0} /\ MaxEdits \in Nat /\ MaxStops \in Nat
ASSUME TargetsAssumption == Targets \in Seq(STRING)

Ids == {Targets[i] : i \in 1..Len(Targets)}

ASSUME LayoutsAssumption == Standard \in Layouts /\ Layouts \subseteq [Ids -> STRING]

Dirs == {l[t] : l \in Layouts, t \in Ids}

VARIABLES
    clock,      \* seconds
    edits,      \* history: edits made
    stops,      \* history: interruptions
    untimely,   \* history: an edit left the newest second of its directory as
                \*   it was, or hit the commands file while it was being read
    src,        \* version of each target's directory
    mtime,      \* second of its newest file
    cmds,       \* the commands file: version, second (0: no file) and the
                \*   build directories (dir) its commands come to
    pc,         \* script: next step
    next,       \* script: index of the target being handled
    state,      \* script: the records in memory
    saved,      \* .build_state.json: the records load_state finds in it
    loaded,     \* script: the commands it read (overrides): version and dir
    cmds_mtime, \* script: second of the commands file it read
    content,    \* script: content_mtime of the target and (history) the
                \*   version it is the second of
    built,      \* history: what each target was last built from
    holds       \* build directories: the target whose build is in them

world == <<clock, edits, stops, untimely, src, mtime, cmds>>
script == <<next, state, loaded, cmds_mtime, content>>
vars == <<clock, edits, stops, untimely, src, mtime, cmds, pc, next, state,
          saved, loaded, cmds_mtime, content, built, holds>>

NoRecord == [ok |-> FALSE, last_content_mtime |-> -1, cmds_mtime |-> -1]
NoRecords == [t \in Ids |-> NoRecord]
NotBuilt == [src |-> -1, cmds |-> -1, ok |-> FALSE]
NoTarget == "none"
Present(t) == [second |-> mtime[t], version |-> src[t]]

Init ==
    /\ clock = 1 /\ edits = 0 /\ stops = 0 /\ untimely = FALSE
    /\ src = [t \in Ids |-> 0] /\ mtime = [t \in Ids |-> 1]
    /\ \/ cmds = [version |-> 0, second |-> 0, dir |-> Standard]
       \/ \E l \in Layouts : cmds = [version |-> 0, second |-> 1, dir |-> l]
    /\ pc = "off" /\ next = 1
    /\ state = NoRecords /\ saved = NoRecords
    /\ loaded = [version |-> 0, dir |-> cmds.dir] /\ cmds_mtime = 0
    /\ content = [second |-> 0, version |-> 0]
    /\ built = [t \in Ids |-> NotBuilt] /\ holds = [b \in Dirs |-> NoTarget]

(***************************************************************************)
(* The script.                                                             *)
(***************************************************************************)

Running == pc # "off"
target == Targets[next]

\* load_special_commands: the commands as they are in the file now.
SpecialCommands == [version |-> cmds.version, dir |-> cmds.dir]

\* load_state and load_special_commands.
Start ==
    /\ pc = "off"
    /\ state' = saved
    /\ loaded' = SpecialCommands
    /\ next' = 1
    /\ pc' = "stat_cmds"
    /\ UNCHANGED <<world, saved, cmds_mtime, content, built, holds>>

\* Bug for comparison: a file that is not there has no second.
MutCommandsSecond == IF cmds.second = 0 THEN -1 ELSE cmds.second
CommandsSecond == cmds.second

StatCommands ==
    /\ pc = "stat_cmds"
    /\ cmds_mtime' = CommandsSecond
    /\ pc' = "stat"
    /\ UNCHANGED <<world, next, state, saved, loaded, content, built, holds>>

\* dir_latest_mtime, truncated to seconds.
StatTarget ==
    /\ pc = "stat" /\ next <= Len(Targets)
    /\ content' = Present(target)
    /\ pc' = "decide"
    /\ UNCHANGED <<world, next, state, saved, loaded, cmds_mtime, built, holds>>

\* Bug for comparison: a failed build counts as a build.
MutCanSkip ==
    /\ state[target].last_content_mtime = content.second
    /\ state[target].cmds_mtime = cmds_mtime
\* Bug for comparison: the commands file is not compared.
MutCanSkipCommands ==
    state[target].ok /\ state[target].last_content_mtime = content.second
can_skip ==
    /\ state[target].ok
    /\ state[target].last_content_mtime = content.second
    /\ state[target].cmds_mtime = cmds_mtime

Skip ==
    /\ pc = "decide" /\ can_skip
    /\ next' = next + 1
    /\ pc' = "stat"
    /\ UNCHANGED <<world, state, saved, loaded, cmds_mtime, content, built, holds>>

\* The command is run as it stands: the script looks for its -d only to show
\* it.  The build wipes the directory it is given (-p always), whosever build
\* was there, and reads the sources; it has not succeeded yet.  A command that
\* cannot be started (127) counts as a build that fails at once.
Build ==
    /\ pc = "decide" /\ ~can_skip
    /\ built' = [built EXCEPT ![target] =
                   [src |-> src[target], cmds |-> loaded.version, ok |-> FALSE]]
    /\ holds' = [holds EXCEPT ![loaded.dir[target]] = target]
    /\ pc' = "build"
    /\ UNCHANGED <<world, script, saved>>

Record(ok) == [ok |-> ok, last_content_mtime |-> content.second,
               cmds_mtime |-> cmds_mtime]

\* Bug for comparison: the second is taken when the build has ended.
MutBuilt(ok) ==
    /\ built' = [built EXCEPT ![target].ok = ok]
    /\ state' = [state EXCEPT ![target] = [Record(ok) EXCEPT !.last_content_mtime = mtime[target]]]

\* The exit code of the build goes into the record, whatever it is.
Built(ok) ==
    /\ built' = [built EXCEPT ![target].ok = ok]
    /\ state' = [state EXCEPT ![target] = Record(ok)]

BuildEnds(ok) ==
    /\ pc = "build" /\ Built(ok)
    /\ pc' = "save"
    /\ UNCHANGED <<world, next, saved, loaded, cmds_mtime, content, holds>>

\* save_state truncates the file, then writes it.  Between the two load_state
\* finds a file it cannot parse, which it takes for no record at all.
Truncate ==
    /\ pc = "save"
    /\ saved' = NoRecords
    /\ pc' = "write"
    /\ UNCHANGED <<world, script, built, holds>>

Write ==
    /\ pc = "write"
    /\ saved' = state
    /\ next' = next + 1
    /\ pc' = "stat"
    /\ UNCHANGED <<world, state, loaded, cmds_mtime, content, built, holds>>

\* The summary is written and the script ends.
Finish ==
    /\ pc = "stat" /\ next > Len(Targets)
    /\ pc' = "off"
    /\ UNCHANGED <<world, script, saved, built, holds>>

Step == \/ StatCommands \/ StatTarget \/ Skip \/ Build
        \/ (\E ok \in BOOLEAN : BuildEnds(ok)) \/ Truncate \/ Write \/ Finish

\* Ctrl-C, or the machine stops.
Interrupt ==
    /\ Running /\ stops < MaxStops
    /\ stops' = stops + 1
    /\ pc' = "off"
    /\ UNCHANGED <<clock, edits, untimely, src, mtime, cmds, script, saved, built, holds>>

(***************************************************************************)
(* The developer.                                                          *)
(***************************************************************************)

Tick ==
    /\ clock < MaxClock
    /\ clock' = clock + 1
    /\ UNCHANGED <<edits, stops, untimely, src, mtime, cmds, pc, script, saved, built, holds>>

Edited == edits < MaxEdits /\ edits' = edits + 1

EditFile(d) ==
    /\ Edited
    /\ src' = [src EXCEPT ![d] = @ + 1]
    /\ \/ /\ "spaced" \in Edits /\ clock > mtime[d]
          /\ mtime' = [mtime EXCEPT ![d] = clock] /\ UNCHANGED untimely
       \/ /\ "hurried" \in Edits /\ clock = mtime[d]
          /\ UNCHANGED mtime /\ untimely' = TRUE
       \/ /\ "quiet" \in Edits
          /\ \E s \in 1..mtime[d] : mtime' = [mtime EXCEPT ![d] = s]
          /\ untimely' = TRUE
    /\ UNCHANGED <<clock, stops, cmds, pc, script, saved, built, holds>>

EditCommands ==
    /\ Edited
    /\ \/ "commands" \in Edits /\ pc # "stat_cmds" /\ UNCHANGED untimely
       \/ "commands_race" \in Edits /\ pc = "stat_cmds" /\ untimely' = TRUE
    /\ clock > cmds.second
    /\ \E l \in Layouts :
          cmds' = [version |-> cmds.version + 1, second |-> clock, dir |-> l]
    /\ UNCHANGED <<clock, stops, src, mtime, pc, script, saved, built, holds>>

Developer == Tick \/ EditCommands \/ (\E d \in Ids : EditFile(d))

Next == Start \/ Step \/ Interrupt \/ Developer

\* A script that runs goes on, and the developer starts it again and again.
Spec == Init /\ [][Next]_vars /\ WF_vars(Start) /\ WF_vars(Step)

(***************************************************************************)
(* Properties.                                                             *)
(***************************************************************************)

Seconds == 0..MaxClock
Records == [Ids -> [ok : BOOLEAN, last_content_mtime : Seconds \cup {-1},
                    cmds_mtime : Seconds \cup {-1}]]

\* Every variable has its type.
TypeOK ==
    /\ clock \in Seconds
    /\ edits \in 0..MaxEdits /\ stops \in 0..MaxStops /\ untimely \in BOOLEAN
    /\ src \in [Ids -> 0..MaxEdits] /\ mtime \in [Ids -> Seconds]
    /\ cmds \in [version : 0..MaxEdits, second : Seconds, dir : Layouts]
    /\ pc \in {"off", "stat_cmds", "stat", "decide", "build", "save", "write"}
    /\ next \in 1..Len(Targets) + 1
    /\ state \in Records
    /\ saved \in Records
    /\ loaded \in [version : 0..MaxEdits, dir : Layouts]
    /\ cmds_mtime \in Seconds
    /\ content \in [second : Seconds, version : 0..MaxEdits]
    /\ built \in [Ids -> [src : -1..MaxEdits, cmds : -1..MaxEdits, ok : BOOLEAN]]
    /\ holds \in [Dirs -> Ids \cup {NoTarget}]

\* The last build of the target about to be skipped succeeded, and was of the
\* directory as it was just looked at, with the commands as they were read.
BuildIsCurrent ==
    /\ built[target].ok
    /\ built[target].src = content.version
    /\ built[target].cmds = loaded.version

\* No other target is built into the directory the layout l gives t.
Alone(l, t) == \A u \in Ids \ {t} : l[u] # l[t]

\* The build of t is in the directory the layout l gives it - if it has that
\* directory for itself.
InPlace(l, t) == Alone(l, t) => holds[l[t]] = t

\* While every edit gets a later second, a skipped target is up to date,
\* whichever runs were interrupted before, be it between the two writes of the
\* state file or in the middle of a build ("skip only if the last build
\* succeeded, and neither the sources nor the commands file changed",
\* all_building.py:255), and its build still lies in its directory, whatever
\* the commands files of earlier runs had other targets do there.  A target
\* that shares its directory is excepted: the builds of the others wipe its
\* own, and it is skipped all the same.  So do the two overrides that
\* all_building.md:84-86 gives as an example (both end up in "build"), although
\* :70 says that a command without -d has a directory that no other overwrites.
SkipIsCurrent ==
    pc = "decide" /\ can_skip /\ ~untimely
        => BuildIsCurrent /\ InPlace(loaded.dir, target)

\* A target whose last build failed is built again, whatever was edited, and
\* however fast ("recorded too; never skipped when unchanged",
\* all_building.py:296), as long as no run was interrupted.
FailuresRebuilt == pc = "decide" /\ can_skip /\ stops = 0 => built[target].ok

\* When the developer has stopped editing, every target has been built from its
\* files and commands as they are, and its build stays where it is, unless it
\* shares its directory (see SkipIsCurrent): nothing makes the script skip an
\* edited target for ever, unless the edit kept the second it is compared by.
BuildsCatchUp ==
    <>[](\/ untimely
         \/ \A d \in Ids : /\ built[d].src = src[d] /\ built[d].cmds = cmds.version
                           /\ InPlace(cmds.dir, d))
=============================================================================
