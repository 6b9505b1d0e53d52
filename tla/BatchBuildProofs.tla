-------------------------- MODULE BatchBuildProofs --------------------------
(***************************************************************************)
(* Proofs about the build script (BatchBuild), for any list of targets,    *)
(* any number of edits and any number of interruptions.                    *)
(*                                                                         *)
(* SkipIsCurrent compares a record with what the script looked at; it is   *)
(* not inductive, because the record, the directory, the commands file and *)
(* the build are each changed by steps of their own.  As long as no edit   *)
(* was untimely seconds only grow, so a record that agrees in both seconds *)
(* is of the present contents or of those the script looked at, and either *)
(* way the build is of the same contents (Sound, Handled).  It is also in  *)
(* its place: only a run with those same commands can have skipped by the  *)
(* record, and the other targets it built went elsewhere.                  *)
(***************************************************************************)
EXTENDS BatchBuild, TLAPS

USE EditsAssumption, BoundsAssumption, TargetsAssumption

Handling == pc \in {"decide", "build", "save", "write"}
CommandsRead == pc = "stat" \/ Handling

\* The types, and what keeps versions and the index in their ranges.
Typed ==
    /\ TypeOK
    /\ Handling => next <= Len(Targets)
    /\ (\A d \in Ids : src[d] <= edits) /\ cmds.version <= edits

\* For a directory of version v and second m, and commands c of second s, the
\* record r of d is not from the future; if it has the two seconds, and is of a
\* build that succeeded, the build b is of the two versions, and it lies in its
\* place among what the build directories hold, h.
Agrees(d, r, b, h, m, v, s, c) ==
    /\ r.last_content_mtime <= m /\ r.cmds_mtime <= s
    /\ r.ok /\ r.last_content_mtime = m /\ r.cmds_mtime = s
         => /\ b.ok /\ b.src = v /\ b.cmds = c.version
            /\ Alone(c.dir, d) => h[c.dir[d]] = d

\* The record r of d agrees with the present directory and commands, and with
\* the commands the script has read.
Sound(d, r) ==
    /\ Agrees(d, r, built[d], holds, mtime[d], src[d], cmds.second, cmds)
    /\ CommandsRead => Agrees(d, r, built[d], holds, mtime[d], src[d], cmds_mtime, loaded)

\* The commands the script has read are those of the second it compares.
CommandsKnown ==
    /\ pc = "stat_cmds" => loaded.version = cmds.version /\ loaded.dir = cmds.dir
    /\ CommandsRead => /\ cmds_mtime <= cmds.second
                       /\ cmds_mtime = cmds.second =>
                            loaded.version = cmds.version /\ loaded.dir = cmds.dir

\* The target in hand, between the look at its directory and the new record.
Handled ==
    /\ pc \in {"stat_cmds", "stat", "decide", "build"} => saved = state
    /\ pc \in {"decide", "build"} =>
         /\ content.second <= mtime[target]
         /\ content.second = mtime[target] => content.version = src[target]
         /\ state[target].last_content_mtime <= content.second
    /\ pc = "decide" =>
         Agrees(target, state[target], built[target], holds, content.second,
                content.version, cmds_mtime, loaded)
    /\ pc = "build" =>
         /\ ~built[target].ok /\ built[target].cmds = loaded.version
         /\ holds[loaded.dir[target]] = target
         /\ content.second = mtime[target] => built[target].src = src[target]

Current ==
    ~untimely => /\ \A d \in Ids : Sound(d, state[d]) /\ Sound(d, saved[d])
                 /\ CommandsKnown
                 /\ Handled

\* While nothing was interrupted, a record of a build that succeeded is of the
\* last one - the target in hand excepted, until its new record is there.
Honest ==
    stops = 0 =>
        \A d \in Ids :
            /\ state[d].ok => built[d].ok \/ (pc = "build" /\ d = target)
            /\ saved[d].ok => built[d].ok \/ (pc \in {"build", "save"} /\ d = target)

IInv == Typed /\ Current /\ Honest

(***************************************************************************)
(* Types.                                                                  *)
(***************************************************************************)

LEMMA TargetFacts ==
    ASSUME Typed, Handling \/ (pc = "stat" /\ next <= Len(Targets))
    PROVE  target \in Ids
  BY DEF Typed, TypeOK, Handling, target, Ids

LEMMA InitTyped == Init => Typed
<1> SUFFICES ASSUME Init PROVE Typed
  OBVIOUS
<1>1. NoRecords \in Records
  BY DEF NoRecords, NoRecord, Records, Seconds
<1>2. /\ cmds \in [version : 0..MaxEdits, second : Seconds, dir : Layouts]
      /\ cmds.version = 0
  BY LayoutsAssumption DEF Init, Seconds
<1>2a. loaded \in [version : 0..MaxEdits, dir : Layouts]
  BY <1>2 DEF Init
<1>2b. holds \in [Dirs -> Ids \cup {NoTarget}]
  BY DEF Init
<1>3. built \in [Ids -> [src : -1..MaxEdits, cmds : -1..MaxEdits, ok : BOOLEAN]]
  BY DEF Init, NotBuilt
<1>4. content \in [second : Seconds, version : 0..MaxEdits]
  BY DEF Init, Seconds
<1>5. next \in 1..Len(Targets) + 1
  BY DEF Init
<1>6. src \in [Ids -> 0..MaxEdits] /\ mtime \in [Ids -> Seconds]
  BY DEF Init, Seconds
<1>6a. clock \in Seconds /\ edits \in 0..MaxEdits /\ stops \in 0..MaxStops
       /\ cmds_mtime \in Seconds
  BY DEF Init, Seconds
<1>6b. untimely \in BOOLEAN /\ pc = "off" /\ state = NoRecords /\ saved = NoRecords
  BY DEF Init
<1>7. TypeOK
  BY <1>1, <1>2, <1>2a, <1>2b, <1>3, <1>4, <1>5, <1>6, <1>6a, <1>6b DEF TypeOK
<1>8. ~Handling /\ \A d \in Ids : src[d] <= edits
  BY DEF Init, Handling
<1> QED
  BY <1>2, <1>7, <1>8 DEF Init, Typed

\* What an edit does to the version of a directory.
LEMMA VersionFacts ==
    ASSUME NEW d \in Ids, EditFile(d), src \in [Ids -> 0..MaxEdits], edits \in 0..MaxEdits,
           \A e \in Ids : src[e] <= edits
    PROVE  src' \in [Ids -> 0..MaxEdits] /\ \A e \in Ids : src'[e] <= edits'
<1>1. src' = [src EXCEPT ![d] = src[d]+1] /\ edits' = edits+1 /\ edits < MaxEdits
  BY DEF EditFile, Edited
<1>2. src[d] \in 0..MaxEdits /\ src[d] <= edits
  OBVIOUS
<1>3. src[d]+1 \in 0..MaxEdits /\ src[d]+1 <= edits'
  BY <1>1, <1>2
<1> QED
  BY <1>1, <1>3

\* What an edit does to the second of its newest file.
LEMMA SecondFacts ==
    ASSUME NEW d \in Ids, EditFile(d), mtime \in [Ids -> Seconds], clock \in Seconds
    PROVE  \E s \in Seconds : mtime' = [mtime EXCEPT ![d] = s] \/ UNCHANGED mtime
<1>1. mtime[d] \in Seconds
  OBVIOUS
<1>2. 1..mtime[d] \subseteq Seconds
  BY <1>1 DEF Seconds
<1>3. \/ mtime' = [mtime EXCEPT ![d] = clock]
      \/ UNCHANGED mtime
      \/ \E s \in 1..mtime[d] : mtime' = [mtime EXCEPT ![d] = s]
  BY DEF EditFile
<1> QED
  BY <1>1, <1>2, <1>3

LEMMA StepTyped == Typed /\ [Next]_vars => Typed'
<1> SUFFICES ASSUME Typed, [Next]_vars
             PROVE  Typed'
  OBVIOUS
<1> USE DEF Typed, TypeOK, Handling, world, script
<1>1. CASE Start
  BY <1>1 DEF Start, SpecialCommands
<1>2. CASE StatCommands
  BY <1>2 DEF StatCommands, CommandsSecond
<1>3. CASE StatTarget
  <2>1. target \in Ids
    BY <1>3, TargetFacts DEF StatTarget
  <2>2. content' \in [second : Seconds, version : 0..MaxEdits]
    BY <1>3, <2>1 DEF StatTarget, Present
  <2> QED
    BY <1>3, <2>2 DEF StatTarget
<1>4. CASE Skip
  BY <1>4 DEF Skip
<1>5. CASE Build
  <2>1. target \in Ids
    BY <1>5, TargetFacts DEF Build
  <2>2. [src |-> src[target], cmds |-> loaded.version, ok |-> FALSE]
           \in [src : -1..MaxEdits, cmds : -1..MaxEdits, ok : BOOLEAN]
    BY <2>1
  <2>3. built' \in [Ids -> [src : -1..MaxEdits, cmds : -1..MaxEdits, ok : BOOLEAN]]
    BY <1>5, <2>2 DEF Build
  <2>4. holds' \in [Dirs -> Ids \cup {NoTarget}]
    BY <1>5, <2>1 DEF Build
  <2> QED
    BY <1>5, <2>3, <2>4 DEF Build
<1>6. ASSUME NEW ok \in BOOLEAN, BuildEnds(ok)
      PROVE  Typed'
  <2>1. target \in Ids
    BY <1>6, TargetFacts DEF BuildEnds
  <2>2. Record(ok) \in [ok : BOOLEAN, last_content_mtime : Seconds \cup {-1},
                        cmds_mtime : Seconds \cup {-1}]
    BY DEF Record
  <2>3. state' \in Records
    BY <1>6, <2>2 DEF BuildEnds, Built, Records
  <2>3a. built[target] \in [src : -1..MaxEdits, cmds : -1..MaxEdits, ok : BOOLEAN]
    BY <2>1
  <2>4. [built[target] EXCEPT !.ok = ok]
           \in [src : -1..MaxEdits, cmds : -1..MaxEdits, ok : BOOLEAN]
    <3> DEFINE b == built[target]
    <3> HIDE DEF b
    <3> QED
      BY <2>3a DEF b
  <2>5. built' = [built EXCEPT ![target] = [built[target] EXCEPT !.ok = ok]]
    BY <1>6 DEF BuildEnds, Built
  <2>6. built' \in [Ids -> [src : -1..MaxEdits, cmds : -1..MaxEdits, ok : BOOLEAN]]
    BY <2>4, <2>5
  <2> QED
    BY <1>6, <2>3, <2>6 DEF BuildEnds
<1>7. CASE Truncate
  <2>1. NoRecords \in Records
    BY DEF NoRecords, NoRecord, Records, Seconds
  <2> QED
    BY <1>7, <2>1 DEF Truncate
<1>8. CASE Write
  BY <1>8 DEF Write
<1>9. CASE Finish
  BY <1>9 DEF Finish
<1>10. CASE Interrupt
  BY <1>10 DEF Interrupt
<1>11. CASE Tick
  BY <1>11 DEF Tick, Seconds
<1>12. ASSUME NEW d \in Ids, EditFile(d)
       PROVE  Typed'
  <2>1. edits' = edits+1 /\ edits' \in 0..MaxEdits
    BY <1>12 DEF EditFile, Edited
  <2>2. src' \in [Ids -> 0..MaxEdits] /\ \A e \in Ids : src'[e] <= edits'
    BY <1>12, VersionFacts
  <2>3. PICK s \in Seconds : mtime' = [mtime EXCEPT ![d] = s] \/ UNCHANGED mtime
    BY <1>12, SecondFacts
  <2>4. untimely' \in BOOLEAN
    BY <1>12 DEF EditFile
  <2>5. UNCHANGED <<clock, stops, cmds, pc, next, state, saved, loaded, cmds_mtime, content,
                    built, holds>>
    BY <1>12 DEF EditFile
  <2>6. mtime' \in [Ids -> Seconds]
    BY <2>3
  <2>7. cmds.version <= edits'
    BY <2>1
  <2> QED
    BY <2>1, <2>2, <2>4, <2>5, <2>6, <2>7
<1>13. CASE EditCommands
  <2>1. edits' = edits+1 /\ edits' \in 0..MaxEdits
    BY <1>13 DEF EditCommands, Edited
  <2>2. /\ cmds' \in [version : 0..MaxEdits, second : Seconds, dir : Layouts]
        /\ cmds'.version <= edits'
    BY <1>13, <2>1 DEF EditCommands
  <2>3. untimely' \in BOOLEAN
    BY <1>13 DEF EditCommands
  <2>4. UNCHANGED <<clock, stops, src, mtime, pc, next, state, saved, loaded, cmds_mtime, content,
                    built, holds>>
    BY <1>13 DEF EditCommands
  <2>5. \A d \in Ids : src[d] <= edits'
    BY <2>1
  <2> QED
    BY <2>1, <2>2, <2>3, <2>4, <2>5
<1>14. CASE UNCHANGED vars
  BY <1>14 DEF vars
<1> QED
  BY <1>1, <1>2, <1>3, <1>4, <1>5, <1>6, <1>7, <1>8, <1>9, <1>10, <1>11, <1>12, <1>13,
     <1>14 DEF Next, Step, Developer

(***************************************************************************)
(* Failed builds.                                                          *)
(***************************************************************************)

LEMMA HonestKept == Typed /\ Honest /\ [Next]_vars => Honest'
<1> SUFFICES ASSUME Typed, Honest, [Next]_vars, stops' = 0, NEW d \in Ids
             PROVE  /\ state'[d].ok => built'[d].ok \/ (pc' = "build" /\ d = target')
                    /\ saved'[d].ok => built'[d].ok \/ (pc' \in {"build", "save"} /\ d = target')
  BY DEF Honest
<1>1. stops = 0
  BY DEF Next, Start, SpecialCommands, Step, StatCommands, StatTarget, Skip, Build, BuildEnds, Truncate, Write,
         Finish, Interrupt, Developer, Tick, EditFile, EditCommands, world, vars, Typed, TypeOK
<1>2. /\ state[d].ok => built[d].ok \/ (pc = "build" /\ d = target)
      /\ saved[d].ok => built[d].ok \/ (pc \in {"build", "save"} /\ d = target)
  BY <1>1 DEF Honest
<1>3. CASE Start
  BY <1>2, <1>3 DEF Start, SpecialCommands, target
<1>4. CASE StatCommands \/ StatTarget \/ Skip \/ Finish
  BY <1>2, <1>4 DEF StatCommands, StatTarget, Skip, Finish, target, script
<1>5. CASE Build
  <2>1. target \in Ids
    BY <1>5, TargetFacts DEF Build, Handling
  <2>2. target' = target /\ pc' = "build" /\ UNCHANGED <<state, saved>>
    BY <1>5 DEF Build, target, script
  <2>3. d # target => built'[d] = built[d]
    BY <1>5 DEF Build, Typed, TypeOK
  <2> QED
    BY <1>2, <1>5, <2>2, <2>3 DEF Build
<1>6. ASSUME NEW ok \in BOOLEAN, BuildEnds(ok)
      PROVE  /\ state'[d].ok => built'[d].ok
             /\ saved'[d].ok => built'[d].ok \/ (pc' = "save" /\ d = target')
  <2>1. target \in Ids
    BY <1>6, TargetFacts DEF BuildEnds, Handling
  <2>2. target' = target /\ pc' = "save" /\ pc = "build" /\ UNCHANGED saved
    BY <1>6 DEF BuildEnds, target
  <2>3. CASE d = target
    <3>1. state'[d].ok = ok
      BY <1>6, <2>1, <2>3 DEF BuildEnds, Built, Typed, TypeOK, Records, Record
    <3>2. built'[d].ok = ok
      BY <1>6, <2>1, <2>3 DEF BuildEnds, Built, Typed, TypeOK
    <3> QED
      BY <2>2, <2>3, <3>1, <3>2
  <2>4. CASE d # target
    <3>1. state'[d] = state[d] /\ built'[d] = built[d]
      BY <1>6, <2>4 DEF BuildEnds, Built, Typed, TypeOK, Records
    <3> QED
      BY <1>2, <2>2, <2>4, <3>1
  <2> QED
    BY <2>3, <2>4
<1>7. CASE Truncate
  BY <1>2, <1>7 DEF Truncate, NoRecords, NoRecord, script, target
<1>8. CASE Write
  BY <1>2, <1>8 DEF Write
<1>9. CASE Developer \/ UNCHANGED vars
  <2>1. UNCHANGED <<pc, next, state, saved, built>>
    BY <1>9 DEF Developer, Tick, EditFile, EditCommands, vars, script
  <2> QED
    BY <1>2, <2>1 DEF target
<1>10. CASE Interrupt
  BY <1>10 DEF Interrupt, Typed, TypeOK
<1> QED
  BY <1>3, <1>4, <1>5, <1>6, <1>7, <1>8, <1>9, <1>10 DEF Next, Step

(***************************************************************************)
(* Skipped builds.                                                         *)
(***************************************************************************)

\* No step takes back that an edit was untimely.
LEMMA UntimelyStays == Typed /\ [Next]_vars /\ ~untimely' => ~untimely
  BY DEF Next, Start, SpecialCommands, Step, StatCommands, StatTarget, Skip, Build, BuildEnds, Truncate, Write,
         Finish, Interrupt, Developer, Tick, EditFile, EditCommands, world, vars

\* What the types say of one target.
LEMMA EntryFacts ==
    ASSUME Typed, NEW d \in Ids
    PROVE  /\ mtime[d] \in Nat /\ src[d] \in Nat
           /\ \A r \in {state[d], saved[d]} :
                 r.last_content_mtime \in Int /\ r.cmds_mtime \in Int
           /\ clock \in Nat /\ cmds.second \in Nat /\ cmds_mtime \in Nat
           /\ content.second \in Nat
<1>1. state[d] \in [ok : BOOLEAN, last_content_mtime : Seconds \cup {-1},
                    cmds_mtime : Seconds \cup {-1}]
  BY DEF Typed, TypeOK, Records
<1>2. saved[d] \in [ok : BOOLEAN, last_content_mtime : Seconds \cup {-1},
                    cmds_mtime : Seconds \cup {-1}]
  BY DEF Typed, TypeOK, Records
<1>3. mtime[d] \in Seconds /\ src[d] \in 0..MaxEdits
  BY DEF Typed, TypeOK
<1>4. clock \in Seconds /\ cmds.second \in Seconds /\ cmds_mtime \in Seconds
      /\ content.second \in Seconds
  BY DEF Typed, TypeOK
<1>5. \A n \in Seconds : n \in Nat
  BY DEF Seconds
<1>6. \A n \in Seconds \cup {-1} : n \in Int
  BY DEF Seconds
<1>7. mtime[d] \in Nat /\ src[d] \in Nat
  BY <1>3, <1>5
<1>8. \A r \in {state[d], saved[d]} : r.last_content_mtime \in Int /\ r.cmds_mtime \in Int
  BY <1>1, <1>2, <1>6
<1>9. clock \in Nat /\ cmds.second \in Nat /\ cmds_mtime \in Nat /\ content.second \in Nat
  BY <1>4, <1>5
<1> QED
  BY <1>7, <1>8, <1>9

LEMMA DirFacts ==
    ASSUME NEW l \in Layouts, NEW t \in Ids
    PROVE  l[t] \in Dirs
  BY DEF Dirs

\* A build leaves those in place that are not of its directory.
LEMMA OthersInPlace ==
    ASSUME NEW l \in Layouts, NEW t \in Ids, NEW d \in Ids \ {t},
           holds \in [Dirs -> Ids \cup {NoTarget}],
           holds' = [holds EXCEPT ![l[t]] = t], Alone(l, d)
    PROVE  holds'[l[d]] = holds[l[d]]
<1>1. l[t] # l[d]
  BY DEF Alone
<1>2. l[d] \in Dirs
  BY DirFacts
<1> QED
  BY <1>1, <1>2

\* With no untimely edit, records stay sound.
LEMMA CurrentKept == Typed /\ Current /\ [Next]_vars => Current'
<1> SUFFICES ASSUME Typed, Current, [Next]_vars, ~untimely'
             PROVE  /\ \A d \in Ids : Sound(d, state[d])' /\ Sound(d, saved[d])'
                    /\ CommandsKnown' /\ Handled'
  BY DEF Current
<1>1. /\ \A d \in Ids : Sound(d, state[d]) /\ Sound(d, saved[d])
      /\ CommandsKnown /\ Handled
  BY UntimelyStays DEF Current
<1>2. CASE Start
  <2>1. ASSUME NEW d \in Ids
        PROVE  Sound(d, state[d])' /\ Sound(d, saved[d])'
    BY <1>1, <1>2 DEF Start, SpecialCommands, Sound, CommandsRead, Handling, world
  <2>2. CommandsKnown' /\ Handled'
    BY <1>2 DEF Start, SpecialCommands, CommandsKnown, Handled, CommandsRead, Handling, world
  <2> QED
    BY <2>1, <2>2
<1>3. CASE StatCommands
  <2>1. ASSUME NEW d \in Ids
        PROVE  Sound(d, state[d])' /\ Sound(d, saved[d])'
    BY <1>1, <1>3 DEF StatCommands, CommandsSecond, CommandsKnown, Sound, Agrees, world
  <2>2. CommandsKnown' /\ Handled'
    BY <1>1, <1>3, EntryFacts
    DEF StatCommands, CommandsSecond, CommandsKnown, Handled, CommandsRead, Handling, world,
        Typed, TypeOK, Seconds
  <2> QED
    BY <2>1, <2>2
<1>4. CASE StatTarget
  <2>1. target \in Ids /\ target' = target
    BY <1>4, TargetFacts DEF StatTarget, target
  <2>2. Sound(target, state[target]) /\ CommandsRead
    BY <1>1, <1>4, <2>1 DEF StatTarget, CommandsRead
  <2>3. ASSUME NEW d \in Ids
        PROVE  Sound(d, state[d])' /\ Sound(d, saved[d])'
    BY <1>1, <1>4 DEF StatTarget, Sound, CommandsRead, Handling, world
  <2>4. CommandsKnown'
    BY <1>1, <1>4 DEF StatTarget, CommandsKnown, CommandsRead, Handling, world
  <2>5. content'.second = mtime[target] /\ content'.version = src[target]
    BY <1>4 DEF StatTarget, Present
  <2>6. /\ pc = "stat" /\ pc' = "decide"
        /\ UNCHANGED <<src, mtime, state, saved, loaded, cmds_mtime, built, holds>>
    BY <1>4 DEF StatTarget, world
  <2>7. Handled'
    BY <1>1, <2>1, <2>2, <2>5, <2>6, EntryFacts DEF Handled, Sound, Agrees
  <2> QED
    BY <2>3, <2>4, <2>7
<1>5. CASE Skip \/ Finish
  <2>1. /\ pc \in {"decide", "stat"} /\ pc' \in {"stat", "off"}
        /\ UNCHANGED <<world, state, saved, loaded, cmds_mtime, built, holds>>
    BY <1>5 DEF Skip, Finish, script
  <2>2. ASSUME NEW d \in Ids
        PROVE  Sound(d, state[d])' /\ Sound(d, saved[d])'
    BY <1>1, <2>1 DEF Sound, CommandsRead, Handling, world
  <2>3. CommandsKnown' /\ Handled'
    BY <1>1, <2>1 DEF CommandsKnown, Handled, CommandsRead, Handling, world
  <2> QED
    BY <2>2, <2>3

\* The record of the target cannot be skipped by: from now on its build is one
\* that has not succeeded, and it agrees with that, having other seconds.
<1>6. CASE Build
  <2>1. target \in Ids /\ target' = target
    BY <1>6, TargetFacts DEF Build, Handling, target, script
  <2>2. /\ pc = "decide" /\ pc' = "build"
        /\ UNCHANGED <<world, state, saved, loaded, cmds_mtime, content>>
    BY <1>6 DEF Build, script
  <2>3. /\ \A d \in Ids : d # target => built'[d] = built[d]
        /\ built'[target] = [src |-> src[target], cmds |-> loaded.version, ok |-> FALSE]
    BY <1>6, <2>1 DEF Build, Typed, TypeOK
  <2>3a. /\ loaded.dir \in Layouts
         /\ holds' = [holds EXCEPT ![loaded.dir[target]] = target]
    BY <1>6 DEF Build, Typed, TypeOK
  <2>3b. /\ holds'[loaded.dir[target]] = target
         /\ \A d \in Ids \ {target} :
               Alone(loaded.dir, d) => holds'[loaded.dir[d]] = holds[loaded.dir[d]]
    BY <2>1, <2>3a, OthersInPlace, DirFacts DEF Typed, TypeOK
  <2>4. /\ state[target].last_content_mtime <= content.second /\ saved = state
        /\ content.second <= mtime[target]
        /\ content.second = mtime[target] => content.version = src[target]
    BY <1>1, <2>2 DEF Handled
  <2>5. CommandsRead /\ cmds_mtime <= cmds.second
    BY <1>1, <2>2 DEF CommandsKnown, CommandsRead, Handling
  <2>5a. cmds_mtime = cmds.second => loaded.version = cmds.version /\ loaded.dir = cmds.dir
    BY <1>1, <2>5 DEF CommandsKnown
  <2>6. /\ state[target].cmds_mtime <= cmds_mtime
        /\ state[target].cmds_mtime <= cmds.second
    BY <1>1, <2>1, <2>5 DEF Sound, Agrees
  <2>7. ~ /\ state[target].ok
          /\ state[target].last_content_mtime = content.second
          /\ state[target].cmds_mtime = cmds_mtime
    BY <1>6 DEF Build, can_skip
  <2>8. ASSUME NEW d \in Ids
        PROVE  Sound(d, state[d])' /\ Sound(d, saved[d])'
    <3>1. CASE d # target
      BY <1>1, <2>2, <2>3, <2>3b, <2>5, <2>5a, <3>1, EntryFacts DEF Sound, Agrees, world
    <3>2. CASE d = target
      BY <2>1, <2>2, <2>3, <2>4, <2>5, <2>6, <2>7, <3>2, EntryFacts DEF Sound, Agrees, world
    <3> QED
      BY <3>1, <3>2
  <2>9. CommandsKnown'
    BY <1>1, <2>2, <2>5 DEF CommandsKnown, CommandsRead, Handling, world
  <2>10. Handled'
    BY <2>1, <2>2, <2>3, <2>3b, <2>4 DEF Handled, world
  <2> QED
    BY <2>8, <2>9, <2>10
<1>7. ASSUME NEW ok \in BOOLEAN, BuildEnds(ok)
      PROVE  /\ \A d \in Ids : Sound(d, state[d])' /\ Sound(d, saved[d])'
             /\ CommandsKnown' /\ Handled'
  <2>1. target \in Ids /\ target' = target
    BY <1>7, TargetFacts DEF BuildEnds, Handling, target
  <2>2. /\ pc = "build" /\ pc' = "save" /\ CommandsRead /\ CommandsRead'
        /\ UNCHANGED <<world, saved, loaded, cmds_mtime, content>>
    BY <1>7 DEF BuildEnds, CommandsRead, Handling
  <2>3. \A d \in Ids : d # target => built'[d] = built[d] /\ state'[d] = state[d]
    BY <1>7 DEF BuildEnds, Built, Typed, TypeOK, Records
  <2>4. state'[target] = Record(ok)
    BY <1>7, <2>1 DEF BuildEnds, Built, Typed, TypeOK, Records
  <2>4a. holds' = holds
    BY <1>7 DEF BuildEnds
  <2>5. built'[target].src = built[target].src /\ built'[target].cmds = built[target].cmds
        /\ built'[target].ok = ok
    BY <1>7, <2>1 DEF BuildEnds, Built, Typed, TypeOK
  <2>6. /\ content.second <= mtime[target]
        /\ ~built[target].ok /\ built[target].cmds = loaded.version
        /\ holds[loaded.dir[target]] = target
        /\ content.second = mtime[target] => built[target].src = src[target]
    BY <1>1, <2>2 DEF Handled
  <2>7. /\ cmds_mtime <= cmds.second
        /\ cmds_mtime = cmds.second => loaded.version = cmds.version /\ loaded.dir = cmds.dir
    BY <1>1, <2>2 DEF CommandsKnown
  <2>8. ASSUME NEW d \in Ids
        PROVE  Sound(d, state[d])'
    <3>1. CASE d # target
      BY <1>1, <2>2, <2>3, <2>4a, <3>1 DEF Sound, world
    <3>2. CASE d = target
      BY <2>1, <2>2, <2>4, <2>4a, <2>5, <2>6, <2>7, <3>2, EntryFacts DEF Sound, Agrees, Record, world
    <3> QED
      BY <3>1, <3>2
  <2>9. ASSUME NEW d \in Ids
        PROVE  Sound(d, saved[d])'
    <3>1. CASE d # target
      BY <1>1, <2>2, <2>3, <2>4a, <3>1 DEF Sound, world
    <3>2. CASE d = target
      BY <1>1, <2>1, <2>2, <2>4a, <2>5, <2>6, <3>2 DEF Sound, Agrees, world
    <3> QED
      BY <3>1, <3>2
  <2>10. CommandsKnown'
    BY <2>2, <2>7 DEF CommandsKnown, world
  <2>11. Handled'
    BY <2>2 DEF Handled
  <2> QED
    BY <2>8, <2>9, <2>10, <2>11
<1>8. CASE Truncate
  <2>1. /\ pc = "save" /\ pc' = "write" /\ saved' = NoRecords
        /\ CommandsRead /\ CommandsRead'
        /\ UNCHANGED <<world, state, loaded, cmds_mtime, built, holds>>
    BY <1>8 DEF Truncate, CommandsRead, Handling, script
  <2>2. ASSUME NEW d \in Ids
        PROVE  Sound(d, state[d])' /\ Sound(d, saved[d])'
    <3>1. saved'[d] = NoRecord
      BY <2>1 DEF NoRecords
    <3> QED
      BY <1>1, <2>1, <3>1, EntryFacts DEF Sound, Agrees, NoRecord, world
  <2>3. CommandsKnown' /\ Handled'
    BY <1>1, <2>1 DEF CommandsKnown, Handled, world
  <2> QED
    BY <2>2, <2>3
<1>9. CASE Write
  <2>1. /\ pc = "write" /\ pc' = "stat" /\ saved' = state
        /\ CommandsRead /\ CommandsRead'
        /\ UNCHANGED <<world, state, loaded, cmds_mtime, built, holds>>
    BY <1>9 DEF Write, CommandsRead, Handling
  <2>2. ASSUME NEW d \in Ids
        PROVE  Sound(d, state[d])' /\ Sound(d, saved[d])'
    BY <1>1, <2>1 DEF Sound, world
  <2>3. CommandsKnown' /\ Handled'
    BY <1>1, <2>1 DEF CommandsKnown, Handled, world
  <2> QED
    BY <2>2, <2>3
<1>10. CASE Interrupt
  <2>1. pc' = "off" /\ UNCHANGED <<src, mtime, cmds, state, saved, built, holds>>
    BY <1>10 DEF Interrupt, script
  <2>2. ASSUME NEW d \in Ids
        PROVE  Sound(d, state[d])' /\ Sound(d, saved[d])'
    BY <1>1, <2>1 DEF Sound, CommandsRead, Handling
  <2>3. CommandsKnown' /\ Handled'
    BY <2>1 DEF CommandsKnown, Handled, CommandsRead, Handling
  <2> QED
    BY <2>2, <2>3
<1>11. CASE Tick \/ UNCHANGED vars
  <2>1. /\ UNCHANGED <<src, mtime, cmds, pc, next, state, saved, loaded, cmds_mtime,
                       content, built, holds>>
        /\ target' = target
    BY <1>11 DEF Tick, vars, script, target
  <2>2. ASSUME NEW d \in Ids
        PROVE  Sound(d, state[d])' /\ Sound(d, saved[d])'
    BY <1>1, <2>1 DEF Sound, CommandsRead, Handling
  <2>3. CommandsKnown' /\ Handled'
    BY <1>1, <2>1 DEF CommandsKnown, Handled, CommandsRead, Handling
  <2> QED
    BY <2>2, <2>3
\* A directory that is edited gets a second no record and no look has.
<1>12. ASSUME NEW e \in Ids, EditFile(e)
       PROVE  /\ \A d \in Ids : Sound(d, state[d])' /\ Sound(d, saved[d])'
              /\ CommandsKnown' /\ Handled'
  <2>1. /\ UNCHANGED <<cmds, pc, next, state, saved, loaded, cmds_mtime, content, built, holds>>
        /\ target' = target
    BY <1>12 DEF EditFile, script, target
  <2>2. clock > mtime[e] /\ mtime' = [mtime EXCEPT ![e] = clock]
    BY <1>12 DEF EditFile
  <2>3. mtime'[e] = clock /\ mtime'[e] > mtime[e] /\ mtime'[e] \in Nat
    BY <2>2 DEF Typed, TypeOK, Seconds
  <2>4. \A d \in Ids : d # e => mtime'[d] = mtime[d] /\ src'[d] = src[d]
    BY <1>12, <2>2 DEF EditFile, Typed, TypeOK
  <2>5. CommandsRead' = CommandsRead
    BY <2>1 DEF CommandsRead, Handling
  <2>6. ASSUME NEW d \in Ids
        PROVE  Sound(d, state[d])' /\ Sound(d, saved[d])'
    <3>1. CASE d # e
      BY <1>1, <2>1, <2>4, <2>5, <3>1 DEF Sound
    <3>2. CASE d = e
      <4>1. \A r \in {state[e], saved[e]} : r.last_content_mtime < mtime'[e]
        BY <1>1, <2>3, EntryFacts DEF Sound, Agrees
      <4> QED
        BY <1>1, <2>1, <2>3, <2>5, <3>2, <4>1, EntryFacts DEF Sound, Agrees
    <3> QED
      BY <3>1, <3>2
  <2>7. CommandsKnown'
    BY <1>1, <2>1, <2>5 DEF CommandsKnown
  <2>8. Handled'
    <3>1. CASE target # e \/ pc \notin {"decide", "build"}
      <4>1. pc \in {"decide", "build"} => target \in Ids
        BY TargetFacts DEF Handling
      <4> QED
        BY <1>1, <2>1, <2>4, <3>1, <4>1 DEF Handled
    <3>2. CASE target = e /\ pc \in {"decide", "build"}
      <4>1. content.second < mtime'[e]
        BY <1>1, <2>3, <3>2, EntryFacts DEF Handled
      <4> QED
        BY <1>1, <2>1, <2>3, <3>2, <4>1, EntryFacts DEF Handled
    <3> QED
      BY <3>1, <3>2
  <2> QED
    BY <2>6, <2>7, <2>8
<1>13. CASE EditCommands
  <2>1. /\ UNCHANGED <<src, mtime, pc, next, state, saved, loaded, cmds_mtime, content, built, holds>>
        /\ target' = target
    BY <1>13 DEF EditCommands, script, target
  <2>2. pc # "stat_cmds" /\ clock > cmds.second /\ cmds'.second = clock
    BY <1>13 DEF EditCommands
  <2>3. CommandsRead' = CommandsRead
    BY <2>1 DEF CommandsRead, Handling
  <2>4. ASSUME NEW d \in Ids
        PROVE  Sound(d, state[d])' /\ Sound(d, saved[d])'
    <3>1. \A r \in {state[d], saved[d]} : r.cmds_mtime < cmds'.second
      BY <1>1, <2>2, EntryFacts DEF Sound, Agrees
    <3>2. cmds'.second \in Nat
      BY <2>2, EntryFacts
    <3> QED
      BY <1>1, <2>1, <2>3, <3>1, <3>2, EntryFacts DEF Sound, Agrees
  <2>5. CommandsKnown'
    <3>1. CommandsRead => cmds_mtime < cmds'.second
      BY <1>1, <2>2 DEF CommandsKnown, Typed, TypeOK, Seconds
    <3>2. cmds'.second \in Nat /\ cmds_mtime \in Nat
      BY <2>2 DEF Typed, TypeOK, Seconds
    <3> QED
      BY <2>1, <2>2, <2>3, <3>1, <3>2 DEF CommandsKnown
  <2>6. Handled'
    BY <1>1, <2>1 DEF Handled
  <2> QED
    BY <2>4, <2>5, <2>6
<1> QED
  BY <1>2, <1>3, <1>4, <1>5, <1>6, <1>7, <1>8, <1>9, <1>10, <1>11, <1>12, <1>13
  DEF Next, Step, Developer

(***************************************************************************)
(* The theorems.                                                           *)
(***************************************************************************)

LEMMA Invariant == Spec => []IInv
<1>1. Init => Current /\ Honest
  <2> SUFFICES ASSUME Init
               PROVE  Current /\ Honest
    OBVIOUS
  <2>1. /\ ~CommandsRead /\ pc = "off" /\ cmds.second \in Nat
        /\ \A d \in Ids : state[d] = NoRecord /\ saved[d] = NoRecord /\ mtime[d] = 1
    BY DEF Init, CommandsRead, Handling, NoRecords
  <2>2. \A d \in Ids : Sound(d, state[d]) /\ Sound(d, saved[d])
    BY <2>1 DEF Sound, Agrees, NoRecord
  <2>3. CommandsKnown /\ Handled
    BY <2>1 DEF CommandsKnown, Handled
  <2>4. Honest
    BY <2>1 DEF Honest, NoRecord
  <2> QED
    BY <2>2, <2>3, <2>4 DEF Current
<1> QED
  BY <1>1, InitTyped, StepTyped, CurrentKept, HonestKept, PTL DEF Spec, IInv

\* The clock, the files, the script and its records keep their types.
THEOREM TypeCorrect == Spec => []TypeOK
<1>1. IInv => TypeOK
  BY DEF IInv, Typed
<1> QED
  BY <1>1, Invariant, PTL

\* While every edit gets a later second a target that is skipped has a build of
\* the contents and the commands just looked at, and that build lies in its
\* directory unless the commands give it to another target too - for any number
\* of targets and edits, whatever directories each version of the commands file
\* names, and wherever earlier runs were interrupted.
THEOREM SkippedIsCurrent == Spec => []SkipIsCurrent
<1>1. IInv => SkipIsCurrent
  <2> SUFFICES ASSUME IInv, pc = "decide", can_skip, ~untimely
               PROVE  BuildIsCurrent /\ InPlace(loaded.dir, target)
    BY DEF SkipIsCurrent
  <2>1. Agrees(target, state[target], built[target], holds, content.second,
               content.version, cmds_mtime, loaded)
    BY DEF IInv, Current, Handled
  <2> QED
    BY <2>1 DEF Agrees, can_skip, BuildIsCurrent, InPlace
<1> QED
  BY <1>1, Invariant, PTL

\* Without an interruption a target whose last build failed is never skipped,
\* whatever was edited and however fast.
THEOREM FailedIsRebuilt == Spec => []FailuresRebuilt
<1>1. IInv => FailuresRebuilt
  <2> SUFFICES ASSUME IInv, pc = "decide", can_skip, stops = 0
               PROVE  built[target].ok
    BY DEF FailuresRebuilt
  <2>1. target \in Ids
    BY TargetFacts DEF IInv, Handling
  <2> QED
    BY <2>1 DEF IInv, Honest, can_skip
<1> QED
  BY <1>1, Invariant, PTL
=============================================================================
