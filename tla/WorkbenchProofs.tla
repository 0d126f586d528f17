-------------------------- MODULE WorkbenchProofs --------------------------
(***************************************************************************)
(* Proofs about the jobs of Workbench, for any texts, projects and hosts.  *)
(*                                                                         *)
(* A job stays with the module it began in: each module's first states are *)
(* of its own kinds, and each of its steps leaves the kind.  So what the   *)
(* steps of one module keep holds in the whole.  That is proved of the     *)
(* window of the front end, of the tools of a build, of what clangd is     *)
(* given, of the project's files, of the recorder of events and of the     *)
(* pump of the command line.                                               *)
(***************************************************************************)
EXTENDS Workbench, FiniteSetTheorems, SequenceTheorems, WellFoundedInduction, TLAPS

-----------------------------------------------------------------------------
(* Numbers. *)

\* A set of numbers up to n has a greatest member.
LEMMA GreatestIsThere ==
    ASSUME NEW n \in Nat, NEW T \in SUBSET (0 .. n), T # {}
    PROVE  \E x \in T : \A y \in T : x >= y
<1> DEFINE Above == {k .. n : k \in T}
<1>1. IsWellFoundedOn(StrictSubsetOrdering(Nat), FiniteSubsetsOf(Nat))
  BY FS_StrictSubsetOrderingWellFounded
<1>2. Above \subseteq FiniteSubsetsOf(Nat)
  <2>1. \A k \in T : k .. n \in SUBSET Nat /\ IsFiniteSet(k .. n)
    BY FS_Interval
  <2>2. QED
    BY <2>1 DEF FiniteSubsetsOf
<1>3. Above # {}
  OBVIOUS
<1> HIDE DEF Above
<1>4. PICK least \in Above : \A other \in Above : <<other, least>> \notin StrictSubsetOrdering(Nat)
  BY <1>1, <1>2, <1>3, WFMin
<1> USE DEF Above
<1>5. PICK x \in T : least = x .. n
  BY <1>4
<1>6. ASSUME NEW y \in T, ~ (x >= y) PROVE FALSE
  <2>1. y .. n \subseteq x .. n /\ x \in x .. n /\ x \notin y .. n /\ x .. n \in SUBSET Nat
    BY <1>6
  <2>2. <<y .. n, x .. n>> \in StrictSubsetOrdering(Nat)
    BY <2>1 DEF StrictSubsetOrdering
  <2>3. QED
    BY <1>4, <1>5, <2>2
<1>7. QED
  BY <1>6

\* A set of positive numbers up to n has a least member.
LEMMA LeastIsThere ==
    ASSUME NEW n \in Nat, NEW T \in SUBSET (1 .. n), T # {}
    PROVE  \E x \in T : \A y \in T : x <= y
<1> DEFINE Below == {1 .. k : k \in T}
<1>1. IsWellFoundedOn(StrictSubsetOrdering(Nat), FiniteSubsetsOf(Nat))
  BY FS_StrictSubsetOrderingWellFounded
<1>2. Below \subseteq FiniteSubsetsOf(Nat)
  <2>1. \A k \in T : 1 .. k \in SUBSET Nat /\ IsFiniteSet(1 .. k)
    BY FS_Interval
  <2>2. QED
    BY <2>1 DEF FiniteSubsetsOf
<1>3. Below # {}
  OBVIOUS
<1> HIDE DEF Below
<1>4. PICK least \in Below : \A other \in Below : <<other, least>> \notin StrictSubsetOrdering(Nat)
  BY <1>1, <1>2, <1>3, WFMin
<1> USE DEF Below
<1>5. PICK x \in T : least = 1 .. x
  BY <1>4
<1>6. ASSUME NEW y \in T, ~ (x <= y) PROVE FALSE
  <2>1. 1 .. y \subseteq 1 .. x /\ x \in 1 .. x /\ x \notin 1 .. y /\ 1 .. x \in SUBSET Nat
    BY <1>6
  <2>2. <<1 .. y, 1 .. x>> \in StrictSubsetOrdering(Nat)
    BY <2>1 DEF StrictSubsetOrdering
  <2>3. QED
    BY <1>4, <1>5, <2>2
<1>7. QED
  BY <1>6

-----------------------------------------------------------------------------
(* A job belongs to the module it began in. *)

HasKind == "kind" \in DOMAIN job
Stays(kinds) == job.kind \in kinds /\ job'.kind = job.kind /\ HasKind'

LEMMA StreamsStep == HasKind /\ Streams!Next => Stays({"feed"})
BY DEF HasKind, Stays, Streams!Next, Streams!TakeItem, Streams!Read, Streams!Eof

\* What the pump does to a job, whichever branch it takes, leaves its kind.
Kept(j, k) == "kind" \in DOMAIN k /\ k.kind = j.kind

LEMMA PumpKeeps ==
    ASSUME NEW j, "kind" \in DOMAIN j, NEW code, NEW to
    PROVE  Kept(j, Pump!Show(j, to)) /\ Kept(j, Pump!After(j, code)) /\ Kept(j, Pump!KillGroup(j, code))
<1>1. Kept(j, Pump!Show(j, to))
  BY DEF Kept, Pump!Show
<1>2. Kept(j, Pump!KillGroup(j, code))
  BY DEF Kept, Pump!KillGroup
<1>3. Kept(j, Pump!After(j, code))
  <2>1. Kept(j, Pump!BuildAfter(j, code))
    BY <1>2 DEF Kept, Pump!BuildAfter
  <2>2. Kept(j, Pump!RunAfter(j, code))
    BY <1>2 DEF Kept, Pump!RunAfter, Pump!Reap
  <2>3. QED
    BY <2>1, <2>2 DEF Pump!After
<1>4. QED
  BY <1>1, <1>2, <1>3

LEMMA PumpStep == HasKind /\ Pump!Next => Stays({"pump"})
<1> SUFFICES ASSUME HasKind, Pump!Next PROVE Stays({"pump"})
  OBVIOUS
<1>1. ASSUME NEW k, Kept(job, k), Pump!Branch(k) PROVE Kept(job, job')
  BY <1>1, PumpKeeps DEF Kept, Pump!Branch
<1> USE DEF HasKind, Stays
<1>2. CASE Pump!Processes \/ Pump!SetToken \/ Pump!SinkFails \/ Pump!LeaveLoop
  BY <1>2 DEF Pump!Processes, Pump!Write, Pump!Exit, Pump!HelperEnds, Pump!SetToken,
     Pump!SinkFails, Pump!LeaveLoop, Pump!Pumping
<1>3. CASE Pump!ReadOut
  <2>1. PICK n \in 1 .. Pump!Unread : Pump!Branch(Pump!take_lines([job EXCEPT !.read = @ + n]))
    BY <1>3 DEF Pump!ReadOut
  <2>2. Kept(job, [job EXCEPT !.read = @ + n])
    BY DEF Kept
  <2>3. Kept(job, Pump!take_lines([job EXCEPT !.read = @ + n]))
    BY <2>2, PumpKeeps DEF Kept, Pump!take_lines
  <2>4. QED
    BY <1>1, <1>3, <2>1, <2>3 DEF Kept, Pump!ReadOut, Pump!Pumping
<1>4. CASE Pump!EndOfPipe
  <2>1. PICK pipe \in job.open :
          Pump!Branch([(IF pipe = "out" THEN Pump!take_available(job) ELSE job)
                          EXCEPT !.open = @ \ {pipe}])
    BY <1>4 DEF Pump!EndOfPipe
  <2>2. Kept(job, IF pipe = "out" THEN Pump!take_available(job) ELSE job)
    BY PumpKeeps DEF Kept, Pump!take_available
  <2>3. Kept(job, [(IF pipe = "out" THEN Pump!take_available(job) ELSE job)
                      EXCEPT !.open = @ \ {pipe}])
    BY <2>2 DEF Kept
  <2>4. QED
    BY <1>1, <1>4, <2>1, <2>3 DEF Kept, Pump!EndOfPipe, Pump!Pumping
<1>5. CASE Pump!Wait
  <2>1. Kept(job, Pump!Reap(job))
    BY DEF Kept, Pump!Reap
  <2>2. QED
    BY <1>1, <1>5, <2>1 DEF Kept, Pump!Wait, Pump!Pumping
<1>6. CASE Pump!Idle
  <2>1. Kept(job, Pump!take_available(job))
    BY PumpKeeps DEF Pump!take_available
  <2>2. QED
    BY <1>1, <1>6, <2>1 DEF Kept, Pump!Idle, Pump!Pumping
<1>7. CASE Pump!Deadline
  <2>1. PICK code \in Pump!KillCodes :
          Pump!Branch(Pump!KillGroup([job EXCEPT !.deadline = FALSE, !.timed = TRUE], code))
    BY <1>7 DEF Pump!Deadline
  <2>2. Kept(job, [job EXCEPT !.deadline = FALSE, !.timed = TRUE])
    BY DEF Kept
  <2>3. Kept(job, Pump!KillGroup([job EXCEPT !.deadline = FALSE, !.timed = TRUE], code))
    BY <2>2, PumpKeeps DEF Kept
  <2>4. QED
    BY <1>1, <1>7, <2>1, <2>3 DEF Kept, Pump!Deadline, Pump!Pumping
<1>8. CASE Pump!CancelAfter
  <2>1. PICK code \in Pump!KillCodes :
          Pump!Branch(Pump!KillGroup([job EXCEPT !.cancelAfter = FALSE, !.token = TRUE], code))
    BY <1>8 DEF Pump!CancelAfter
  <2>2. Kept(job, [job EXCEPT !.cancelAfter = FALSE, !.token = TRUE])
    BY DEF Kept
  <2>3. Kept(job, Pump!KillGroup([job EXCEPT !.cancelAfter = FALSE, !.token = TRUE], code))
    BY <2>2, PumpKeeps DEF Kept
  <2>4. QED
    BY <1>1, <1>8, <2>1, <2>3 DEF Kept, Pump!CancelAfter, Pump!Pumping
<1>9. CASE Pump!Finish
  <2>1. Kept(job, Pump!take_available(job))
    BY PumpKeeps DEF Pump!take_available
  <2>2. Kept(job, [Pump!take_available(job) EXCEPT !.leader = "reaped", !.status = TRUE])
    BY <2>1 DEF Kept
  <2> DEFINE reaped == [Pump!take_available(job) EXCEPT !.leader = "reaped", !.status = TRUE]
  <2>3. job.kind = "pump" /\ \E code \in Pump!KillCodes :
          \/ job' = [reaped EXCEPT !.pc = "done", !.result = Pump!BuildStatus(job)]
          \/ job' = [Pump!KillGroup(reaped, code) EXCEPT !.pc = "done", !.result = Pump!Reason(job)]
    BY <1>9 DEF Pump!Finish
  <2> HIDE DEF reaped
  <2>4. \A code : Kept(job, Pump!KillGroup(reaped, code))
    BY <2>2, PumpKeeps DEF Kept, reaped
  <2>5. Kept(job, job')
    BY <2>2, <2>3, <2>4 DEF Kept, reaped
  <2>6. QED
    BY <2>3, <2>5 DEF Kept
<1>10. QED
  BY <1>2, <1>3, <1>4, <1>5, <1>6, <1>7, <1>8, <1>9 DEF Pump!Next, Pump!Loop

LEMMA CommandStep == HasKind /\ Command!Next => Stays({"args"})
BY DEF HasKind, Stays, Command!Next, Command!TakeHelp, Command!TakeCommand,
       Command!TakeOption, Command!EndOfArgs, Command!Reading, Command!UsageError

LEMMA OutputStep == HasKind /\ Output!Next => Stays({"transcript", "serial"})
BY DEF HasKind, Stays, Output!Next, Output!Feed, Output!Observe

LEMMA ProjectStep == HasKind /\ Project!Next => Stays({"open", "languages"})
BY DEF HasKind, Stays, Project!Next, Project!LookForManifest, Project!Load,
       Project!SynthesiseDefaults, Project!ManifestChanges, Project!LoadFromFile,
       Project!EndOfDir, Project!Refuse

LEMMA ContractStep == HasKind /\ Contract!Next => Stays({"event", "recorder", "scroll"})
BY DEF HasKind, Stays, Contract!Next, Contract!Receive, Contract!emit_at, Contract!record,
       Contract!Close, Contract!Scroll, Contract!Grow, Contract!MayWrite

LEMMA WindowStep == HasKind /\ Window!Next => Stays({"window", "dock"})
BY DEF HasKind, Stays, Window!Next, Window!Receive, Window!loadFixture, Window!Type,
       Window!Click, Window!Answer, Window!refreshTools, Window!ToolsDetected,
       Window!onProjectOpen, Window!ProjectOpened, Window!showPanel, Window!onStopBuild,
       Window!render, Window!Redraw

LEMMA ToolsStep == HasKind /\ Tools!Next => Stays({"tools"})
BY DEF HasKind, Stays, Tools!Next, Tools!Find, Tools!Fail, Tools!Unavailable, Tools!Refuse,
       Tools!plan, Tools!Detecting, Tools!Planning, Tools!Detected

LEMMA ClangdStep == HasKind /\ Clangd!Next => Stays({"database", "clangd"})
BY DEF HasKind, Stays, Clangd!Next, Clangd!SkipLine, Clangd!PassWord, Clangd!TakeUnit,
       Clangd!NoUnit, Clangd!NormaliseEntry, Clangd!Write, Clangd!WalkLine, Clangd!Verdict,
       Clangd!Reading, Clangd!InWords, Clangd!NextLine

\* The states that a module's jobs begin in are of its own kinds.
Began(kinds) == HasKind /\ job.kind \in kinds

LEMMA StreamsStart == Streams!Init => Began({"feed"})
BY DEF Streams!Init, Streams!Feed, Began, HasKind

LEMMA PumpStart == Pump!Init => Began({"pump"})
BY DEF Pump!Init, Began, HasKind

LEMMA CommandStart == Command!Init => Began({"args", "env", "medium", "run args", "build args"})
<1> SUFFICES ASSUME Command!Init
             PROVE  Began({"args", "env", "medium", "run args", "build args"})
  OBVIOUS
<1>1. \/ \E tokens : job = Command!Parse(tokens)
      \/ \E path, holders, roots, hint :
           job = [kind |-> "env", path |-> path, holders |-> holders, roots |-> roots,
                  hint |-> hint]
      \/ \E files, kernel, symbols :
           job = [kind |-> "medium", files |-> files, kernel |-> kernel, symbols |-> symbols]
      \/ \E items : job = [kind |-> "run args", items |-> items]
      \/ \E command, backend, targets, own :
           job = [kind |-> "build args", command |-> command, backend |-> backend,
                  targets |-> targets, own |-> own]
  BY Zenon DEF Command!Init
<1>2. ASSUME NEW kind, NEW items, job = [kind |-> kind, items |-> items]
      PROVE  HasKind /\ job.kind = kind
  BY <1>2 DEF HasKind
<1>3. ASSUME NEW kind, NEW command, NEW backend, NEW targets, NEW own,
             job = [kind |-> kind, command |-> command, backend |-> backend,
                    targets |-> targets, own |-> own]
      PROVE  HasKind /\ job.kind = kind
  BY <1>3 DEF HasKind
<1>4. (\E items : job = [kind |-> "run args", items |-> items])
      => HasKind /\ job.kind = "run args"
  BY <1>2, Zenon
<1>5. (\E command, backend, targets, own :
           job = [kind |-> "build args", command |-> command, backend |-> backend,
                  targets |-> targets, own |-> own])
      => HasKind /\ job.kind = "build args"
  BY <1>3, Zenon
<1>6. (\E tokens : job = Command!Parse(tokens)) => HasKind /\ job.kind = "args"
  BY DEF Command!Parse, HasKind
<1>7. (\E path, holders, roots, hint :
           job = [kind |-> "env", path |-> path, holders |-> holders, roots |-> roots,
                  hint |-> hint])
      => HasKind /\ job.kind = "env"
  BY DEF HasKind
<1>8. (\E files, kernel, symbols :
           job = [kind |-> "medium", files |-> files, kernel |-> kernel, symbols |-> symbols])
      => HasKind /\ job.kind = "medium"
  BY DEF HasKind
<1>9. QED
  BY <1>1, <1>4, <1>5, <1>6, <1>7, <1>8, Zenon DEF Began

LEMMA OutputStart == Output!Init => Began({"transcript", "line", "serial"})
<1> SUFFICES ASSUME Output!Init PROVE Began({"transcript", "line", "serial"})
  OBVIOUS
<1>1. \/ \E block : job = Output!Transcript(block)
      \/ \E line : job = [kind |-> "line", line |-> line]
      \/ \E text : job = Output!Serial(text)
  BY Zenon DEF Output!Init
<1>2. QED
  BY <1>1 DEF Output!Transcript, Output!Serial, Began, HasKind

LEMMA ProjectStart == Project!Init => Began({"path", "open", "languages", "ai", "config", "url"})
<1> SUFFICES ASSUME Project!Init
             PROVE  Began({"path", "open", "languages", "ai", "config", "url"})
  OBVIOUS
<1>1. \/ \E text, value, root :
           job = [kind |-> "path", text |-> text, value |-> value, root |-> root]
      \/ \E dir, manifest, makefile : job = Project!Opening(dir, manifest, makefile)
      \/ \E files : job = Project!Languages(files)
      \/ \E provider, base, model : job = Project!Ai(provider, base, model)
      \/ \E section, keys, key, value, unknown :
           job = Project!Manifest(section, keys, key, value, unknown)
      \/ \E url : job = [kind |-> "url", url |-> url]
  BY Zenon DEF Project!Init
<1>2. QED
  BY <1>1 DEF Project!Opening, Project!Languages, Project!Ai, Project!Manifest, Began, HasKind

LEMMA ContractStart == Contract!Init => Began({"event", "recorder", "scroll"})
BY DEF Contract!Init, Contract!Sent, Contract!Recorder, Contract!Scrolling, Began, HasKind

LEMMA ToolsStart == Tools!Init => Began({"tools"})
BY DEF Tools!Init, Began, HasKind

LEMMA ClangdStart == Clangd!Init => Began({"database", "clangd"})
<1> SUFFICES ASSUME Clangd!Init PROVE Began({"database", "clangd"})
  OBVIOUS
<1>1. \/ \E from, lines :
           job = [kind |-> "database", from |-> from, lines |-> lines, at |-> 1,
                  word |-> 2, skip |-> FALSE, db |-> <<>>, state |-> "reading"]
      \/ \E flags, lines, generated : job = Clangd!Check(flags, lines, generated)
  BY Zenon DEF Clangd!Init, Clangd!ClangdInit, Clangd!ShimInit, Clangd!BearInit
<1>2. QED
  BY <1>1 DEF Clangd!Check, Began, HasKind

LEMMA MountStart == Window!Init => Began({"window", "dock"})
BY DEF Window!Init, Window!Mounted, Window!Docked, Began, HasKind

\* So a step of a job is one of its own module.
LEMMA JobsStay ==
    HasKind /\ [Next]_job =>
        /\ HasKind' /\ job'.kind = job.kind
        /\ job.kind = "pump" => [Pump!Next]_job
        /\ job.kind \in {"open", "languages"} => [Project!Next]_job
        /\ job.kind \in {"recorder", "scroll"} => [Contract!Next]_job
        /\ job.kind \in {"window", "dock"} => [Window!Next]_job
        /\ job.kind = "tools" => [Tools!Next]_job
        /\ job.kind \in {"database", "clangd"} => [Clangd!Next]_job
BY StreamsStep, PumpStep, CommandStep, OutputStep, ProjectStep, ContractStep, WindowStep,
   ToolsStep, ClangdStep
   DEF Next, Stays, HasKind

LEMMA JobsStart ==
    Init =>
        /\ HasKind
        /\ job.kind = "pump" => Pump!Init
        /\ job.kind \in {"open", "languages"} => Project!Init
        /\ job.kind \in {"recorder", "scroll"} => Contract!Init
        /\ job.kind \in {"window", "dock"} => Window!Init
        /\ job.kind = "tools" => Tools!Init
        /\ job.kind \in {"database", "clangd"} => Clangd!Init
BY StreamsStart, PumpStart, CommandStart, OutputStart, ProjectStart, ContractStart, MountStart,
   ToolsStart, ClangdStart
   DEF Init, Began

-----------------------------------------------------------------------------
(* The window of the front end.                                            *)

Event == [what : {"build.started", "build.finished", "other"}]

WindowFields ==
    /\ {"kind", "listening", "fixture", "live", "shown", "typed", "calls", "answers", "asked",
        "asking", "loading", "tools", "cancelled"} \subseteq DOMAIN job
    /\ job.live \in Seq(Event)

\* A call is drawn where nothing is shown any more, or over what is shown now.
CallsAreCurrent ==
    \A c \in job.calls :
        /\ {"section", "drawn"} \subseteq DOMAIN c
        /\ c.drawn = Window!Detached \/ c.drawn = Window!Drawn

WindowInv == HasKind /\ (job.kind = "window" => WindowFields /\ CallsAreCurrent) /\ WindowIsConsistent

\* The window is mounted on a fixture, with no call out.
LEMMA WindowStart == Window!Init => WindowInv
<1>1. CASE job = Window!Docked
  BY <1>1 DEF Window!Docked, WindowInv, HasKind, WindowIsConsistent, Window!WindowIsConsistent,
     Window!AnswersAreCurrent, Window!ToolsSettle, Window!OneSource
<1>2. ASSUME NEW listening \in BOOLEAN, NEW fixture \in {"finished", "running"},
             job = Window!Mounted(listening, fixture)
      PROVE  WindowInv
  <2>1. HasKind /\ job.live = <<>> /\ job.shown = "fixture" /\ job.calls = {} /\ job.answers = {}
        /\ job.asked = 0 /\ ~ job.loading /\ job.cancelled = {}
    BY <1>2 DEF HasKind, Window!Mounted, Window!Fixture
  <2>2. WindowFields
    BY <1>2, <2>1 DEF Window!Mounted, WindowFields, Event
  <2>3. CallsAreCurrent /\ Window!AnswersAreCurrent /\ Window!ToolsSettle
    BY <2>1 DEF CallsAreCurrent, Window!AnswersAreCurrent, Window!ToolsSettle
  <2>4. Window!OneSource
    BY <2>1 DEF Window!OneSource, Window!Live
  <2>5. QED
    BY <2>1, <2>2, <2>3, <2>4 DEF WindowInv, WindowIsConsistent, Window!WindowIsConsistent
<1>3. QED
  BY <1>1, <1>2 DEF Window!Init

\* Drawing again keeps everything but the calls, the answers and what was typed.
LEMMA RenderKeeps ==
    ASSUME NEW k, NEW r, r = Window!render(k),
           {"calls", "answers", "typed"} \subseteq DOMAIN k,
           \A c \in k.calls : {"section", "drawn"} \subseteq DOMAIN c
    PROVE  /\ DOMAIN r = DOMAIN k
           /\ r.answers = {}
           /\ \A c \in r.calls : {"section", "drawn"} \subseteq DOMAIN c /\ c.drawn = Window!Detached
           /\ \A f \in DOMAIN k \ {"calls", "answers", "typed"} : r[f] = k[f]
BY DEF Window!render, Window!Redraw

\* So the last build of the live stream is one that it announced.
LEMMA LastBuildStarted ==
    ASSUME job.live \in Seq(Event), Window!lastBuildOpId # 0
    PROVE  Window!lastBuildOpId \in Window!Started(job.live)
<1> DEFINE ops == Window!Started(job.live) \cup {0}
<1>1. ops \in SUBSET (0 .. Len(job.live)) /\ ops # {} /\ Len(job.live) \in Nat
  BY DEF Window!Started
<1>2. \E x \in ops : \A y \in ops : x >= y
  BY <1>1, GreatestIsThere
<1>3. Window!lastBuildOpId \in ops
  BY <1>2 DEF Window!lastBuildOpId, Window!Max
<1>4. QED
  BY <1>3

\* Every callback keeps it; the ones that change what is shown draw everything again.
LEMMA WindowKeeps == WindowInv /\ Window!Next => WindowInv'
<1> SUFFICES ASSUME WindowInv, Window!Next PROVE WindowInv'
  OBVIOUS
<1>1. Stays({"window", "dock"})
  BY WindowStep DEF WindowInv
<1>2. CASE job.kind = "dock"
  BY <1>1, <1>2 DEF Stays, WindowInv, HasKind, WindowIsConsistent, Window!WindowIsConsistent,
     Window!AnswersAreCurrent, Window!ToolsSettle, Window!OneSource
<1>3. CASE job.kind = "window"
  <2>1. HasKind' /\ job'.kind = "window" /\ job.kind = "window" /\ WindowFields /\ CallsAreCurrent
    BY <1>1, <1>3 DEF Stays, WindowInv
  <2>2. /\ Window!AnswersAreCurrent /\ Window!ToolsSettle /\ Window!OneSource
    BY DEF WindowInv, WindowIsConsistent, Window!WindowIsConsistent
  <2> SUFFICES /\ WindowFields' /\ CallsAreCurrent'
               /\ Window!AnswersAreCurrent' /\ Window!ToolsSettle' /\ Window!OneSource'
    BY <2>1 DEF WindowInv, WindowIsConsistent, Window!WindowIsConsistent
  <2> USE <2>1, <2>2
  <2>3. ASSUME NEW k, job' = Window!render(k),
               DOMAIN k = DOMAIN job, k.calls = job.calls, k.live \in Seq(Event),
               k.loading => k.asking # {},
               (k.asked > 0 /\ k.asking = {}) => k.tools # <<>>,
               k.shown = Window!Live => k.listening /\ k.live # <<>>,
               k.cancelled \subseteq Window!Started(k.live)
        PROVE  /\ WindowFields' /\ CallsAreCurrent'
               /\ Window!AnswersAreCurrent' /\ Window!ToolsSettle' /\ Window!OneSource'
    <3>1. /\ DOMAIN job' = DOMAIN k /\ job'.answers = {}
          /\ \A c \in job'.calls : {"section", "drawn"} \subseteq DOMAIN c /\ c.drawn = Window!Detached
          /\ \A f \in DOMAIN k \ {"calls", "answers", "typed"} : job'[f] = k[f]
      BY <2>3, RenderKeeps DEF WindowFields, CallsAreCurrent
    <3>2. /\ job'.live = k.live /\ job'.loading = k.loading /\ job'.asking = k.asking
          /\ job'.asked = k.asked /\ job'.tools = k.tools /\ job'.shown = k.shown
          /\ job'.listening = k.listening /\ job'.cancelled = k.cancelled
      BY <2>3, <3>1 DEF WindowFields
    <3>3. WindowFields' /\ CallsAreCurrent'
      BY <2>3, <3>1, <3>2 DEF WindowFields, CallsAreCurrent
    <3>4. Window!AnswersAreCurrent' /\ Window!ToolsSettle' /\ Window!OneSource'
      BY <2>3, <3>1, <3>2 DEF Window!AnswersAreCurrent, Window!ToolsSettle, Window!OneSource,
         Window!Started
    <3>5. QED
      BY <3>3, <3>4
  <2>4. CASE Window!Receive
    <3>1. PICK what \in {"build.started", "build.finished", "other"} :
            job' = Window!render([job EXCEPT !.live = Append(job.live, [what |-> what]),
                                             !.shown = Window!Live])
      BY <2>4 DEF Window!Receive
    <3> DEFINE events == Append(job.live, [what |-> what])
    <3>2. events \in Seq(Event) /\ events # <<>>
      BY DEF WindowFields, Event
    <3>3. Window!Started(job.live) \subseteq Window!Started(events)
      BY DEF WindowFields, Event, Window!Started
    <3> HIDE DEF events
    <3> DEFINE k == [job EXCEPT !.live = events, !.shown = Window!Live]
    <3>4. /\ job' = Window!render(k) /\ DOMAIN k = DOMAIN job
          /\ k.calls = job.calls /\ k.live = events /\ k.loading = job.loading
          /\ k.asking = job.asking /\ k.asked = job.asked /\ k.tools = job.tools
          /\ k.cancelled = job.cancelled /\ k.listening = job.listening
      BY <3>1 DEF WindowFields, events
    <3> HIDE DEF k
    <3>5. job.listening
      BY <2>4 DEF Window!Receive
    <3>6. QED
      BY <2>3, <3>2, <3>3, <3>4, <3>5 DEF Window!ToolsSettle, Window!OneSource
  <2>5. CASE Window!loadFixture
    <3> DEFINE k == [job EXCEPT !.shown = Window!Fixture]
    <3>1. /\ job' = Window!render(k) /\ DOMAIN k = DOMAIN job /\ k.shown = Window!Fixture
          /\ k.calls = job.calls /\ k.live = job.live /\ k.loading = job.loading
          /\ k.asking = job.asking /\ k.asked = job.asked /\ k.tools = job.tools
          /\ k.cancelled = job.cancelled /\ Window!Fixture # Window!Live
      BY <2>5 DEF Window!loadFixture, WindowFields, Window!Fixture, Window!Live
    <3> HIDE DEF k
    <3>2. QED
      BY <2>3, <3>1 DEF Window!ToolsSettle, Window!OneSource, WindowFields
  <2>6. CASE Window!refreshTools
    <3> DEFINE k == [job EXCEPT !.asked = @ + 1, !.asking = @ \cup {job.asked + 1}, !.loading = TRUE]
    <3>1. /\ job' = Window!render(k) /\ DOMAIN k = DOMAIN job
          /\ k.shown = job.shown /\ k.listening = job.listening
          /\ k.calls = job.calls /\ k.live = job.live /\ k.asking # {}
          /\ k.cancelled = job.cancelled
      BY <2>6 DEF Window!refreshTools, WindowFields
    <3> HIDE DEF k
    <3>2. QED
      BY <2>3, <3>1 DEF Window!OneSource, WindowFields
  <2>7. CASE Window!ToolsDetected
    <3>1. PICK ask \in job.asking, ok \in BOOLEAN :
            job' = Window!render([job EXCEPT !.asking = @ \ {ask}, !.loading = FALSE,
                                             !.tools = IF ok THEN <<ask>> ELSE <<0>>])
      BY <2>7 DEF Window!ToolsDetected
    <3> DEFINE report == IF ok THEN <<ask>> ELSE <<0>>
    <3>2. report # <<>>
      OBVIOUS
    <3> HIDE DEF report
    <3> DEFINE k == [job EXCEPT !.asking = @ \ {ask}, !.loading = FALSE, !.tools = report]
    <3>3. /\ job' = Window!render(k) /\ DOMAIN k = DOMAIN job
          /\ k.shown = job.shown /\ k.listening = job.listening
          /\ k.calls = job.calls /\ k.live = job.live /\ ~ k.loading /\ k.tools = report
          /\ k.cancelled = job.cancelled
      BY <3>1 DEF WindowFields, report
    <3> HIDE DEF k
    <3>4. QED
      BY <2>3, <3>2, <3>3 DEF Window!OneSource, WindowFields
  <2>8. CASE Window!Type
    <3>1. job' = [job EXCEPT !.typed = TRUE]
      BY <2>8 DEF Window!Type
    <3>2. /\ DOMAIN job' = DOMAIN job
          /\ \A f \in DOMAIN job \ {"typed"} : job'[f] = job[f]
      BY <3>1
    <3>3. /\ job'.live = job.live /\ job'.shown = job.shown /\ job'.asked = job.asked
          /\ job'.tools = job.tools /\ job'.calls = job.calls /\ job'.answers = job.answers
          /\ job'.loading = job.loading /\ job'.asking = job.asking
          /\ job'.listening = job.listening /\ job'.cancelled = job.cancelled
      BY <3>2 DEF WindowFields
    <3>4. WindowFields' /\ CallsAreCurrent'
      BY <3>2, <3>3 DEF WindowFields, CallsAreCurrent, Window!Drawn
    <3>5. Window!AnswersAreCurrent' /\ Window!ToolsSettle' /\ Window!OneSource'
      BY <3>3 DEF Window!AnswersAreCurrent, Window!ToolsSettle, Window!OneSource, Window!Drawn,
         Window!Started
    <3>6. QED
      BY <3>4, <3>5
  <2>9. ASSUME NEW section \in Sections, Window!Click(section)
        PROVE  /\ WindowFields' /\ CallsAreCurrent'
               /\ Window!AnswersAreCurrent' /\ Window!ToolsSettle' /\ Window!OneSource'
    <3> DEFINE call == [section |-> section, drawn |-> Window!Drawn]
    <3>1. job' = [job EXCEPT !.calls = @ \cup {call},
                             !.answers = {a \in @ : a.section # section}]
      BY <2>9 DEF Window!Click
    <3>2. call.drawn = Window!Drawn /\ {"section", "drawn"} \subseteq DOMAIN call
      OBVIOUS
    <3> HIDE DEF call
    <3>3. /\ job'.live = job.live /\ job'.shown = job.shown /\ job'.asked = job.asked
          /\ job'.tools = job.tools /\ job'.calls = job.calls \cup {call}
          /\ job'.answers \subseteq job.answers /\ DOMAIN job' = DOMAIN job
          /\ job'.loading = job.loading /\ job'.asking = job.asking
          /\ job'.listening = job.listening /\ job'.cancelled = job.cancelled
      BY <3>1 DEF WindowFields
    <3>4. Window!Drawn' = Window!Drawn
      BY <3>3 DEF Window!Drawn
    <3>5. WindowFields' /\ CallsAreCurrent'
      BY <3>2, <3>3, <3>4 DEF WindowFields, CallsAreCurrent, Window!Detached
    <3>6. Window!AnswersAreCurrent' /\ Window!ToolsSettle' /\ Window!OneSource'
      BY <3>3, <3>4 DEF Window!AnswersAreCurrent, Window!ToolsSettle, Window!OneSource,
         Window!Started
    <3>7. QED
      BY <3>5, <3>6
  <2>10. CASE Window!Answer
    <3>1. PICK call \in job.calls : job' = [job EXCEPT
           !.calls = @ \ {call},
           !.answers = IF call.drawn = Window!Detached \/ Window!debug_handler(call.section) = "shapeless" THEN @
                       ELSE @ \cup {[section |-> call.section, drawn |-> call.drawn]}]
      BY <2>10 DEF Window!Answer
    <3> DEFINE answer == [section |-> call.section, drawn |-> call.drawn]
    <3>2. /\ job'.live = job.live /\ job'.shown = job.shown /\ job'.asked = job.asked
          /\ job'.tools = job.tools /\ job'.calls \subseteq job.calls /\ DOMAIN job' = DOMAIN job
          /\ job'.loading = job.loading /\ job'.asking = job.asking
          /\ job'.listening = job.listening /\ job'.cancelled = job.cancelled
      BY <3>1 DEF WindowFields
    <3>3. job'.answers = IF call.drawn = Window!Detached \/ Window!debug_handler(call.section) = "shapeless"
                         THEN job.answers ELSE job.answers \cup {answer}
      BY <3>1 DEF WindowFields
    <3>4. Window!Drawn' = Window!Drawn
      BY <3>2 DEF Window!Drawn
    <3>5. WindowFields' /\ CallsAreCurrent'
      BY <3>2, <3>4 DEF WindowFields, CallsAreCurrent, Window!Detached
    <3>6. Window!AnswersAreCurrent'
      <4>1. answer.drawn = call.drawn /\ answer.section = call.section
        OBVIOUS
      <4>2. call.drawn = Window!Detached \/ call.drawn = Window!Drawn
        BY DEF CallsAreCurrent
      <4> HIDE DEF answer
      <4>3. QED
        BY <3>3, <3>4, <4>1, <4>2 DEF Window!AnswersAreCurrent, Window!debug_handler
    <3>7. Window!ToolsSettle' /\ Window!OneSource'
      BY <3>2 DEF Window!ToolsSettle, Window!OneSource, Window!Started
    <3>8. QED
      BY <3>5, <3>6, <3>7
  <2>11. CASE Window!onStopBuild
    <3>1. /\ Window!lastBuildOpId # 0
          /\ job' = [job EXCEPT !.cancelled = @ \cup {Window!OpToCancel(Window!lastBuildOpId)}]
      BY <2>11 DEF Window!onStopBuild
    <3>2. Window!OpToCancel(Window!lastBuildOpId) \in Window!Started(job.live)
      BY <3>1, LastBuildStarted DEF Window!OpToCancel, WindowFields
    <3>3. /\ job'.live = job.live /\ job'.shown = job.shown /\ job'.asked = job.asked
          /\ job'.tools = job.tools /\ job'.calls = job.calls /\ job'.answers = job.answers
          /\ DOMAIN job' = DOMAIN job
          /\ job'.loading = job.loading /\ job'.asking = job.asking
          /\ job'.listening = job.listening
          /\ job'.cancelled = job.cancelled \cup {Window!OpToCancel(Window!lastBuildOpId)}
      BY <3>1 DEF WindowFields
    <3>4. WindowFields' /\ CallsAreCurrent'
      BY <3>3 DEF WindowFields, CallsAreCurrent, Window!Drawn, Window!Detached
    <3>5. Window!AnswersAreCurrent' /\ Window!ToolsSettle'
      BY <3>3 DEF Window!AnswersAreCurrent, Window!ToolsSettle, Window!Drawn
    <3>6. Window!OneSource'
      <4>1. Window!Started(job'.live) = Window!Started(job.live)
        BY <3>3
      <4>2. QED
        BY <3>2, <3>3, <4>1 DEF Window!OneSource
    <3>7. QED
      BY <3>4, <3>5, <3>6
  <2>12. CASE Window!onProjectOpen \/ Window!ProjectOpened \/ Window!showPanel
    BY <2>12 DEF Window!onProjectOpen, Window!ProjectOpened, Window!showPanel
  <2>13. QED
    BY <2>4, <2>5, <2>6, <2>7, <2>8, <2>9, <2>10, <2>11, <2>12 DEF Window!Next
<1>4. QED
  BY <1>1, <1>2, <1>3 DEF Stays

\* Whatever the order of clicks, answers, events, fixtures and reports (app.ts): the window
\* shows one source, its answers are over what it still shows, and it cancels its own builds.
THEOREM WindowStaysConsistent == Spec => []WindowIsConsistent
<1>1. Init => WindowInv
  <2> SUFFICES ASSUME Init PROVE WindowInv
    OBVIOUS
  <2>1. CASE job.kind = "window"
    BY <2>1, JobsStart, WindowStart
  <2>2. CASE job.kind # "window"
    BY <2>2, JobsStart DEF WindowInv, WindowIsConsistent, Window!WindowIsConsistent,
       Window!AnswersAreCurrent, Window!ToolsSettle, Window!OneSource
  <2>3. QED
    BY <2>1, <2>2
<1>2. WindowInv /\ [Next]_job => WindowInv'
  <2> SUFFICES ASSUME WindowInv, [Next]_job PROVE WindowInv'
    OBVIOUS
  <2>1. HasKind' /\ job'.kind = job.kind /\ (job.kind = "window" => [Window!Next]_job)
    BY JobsStay DEF WindowInv
  <2>2. CASE job.kind # "window"
    BY <2>1, <2>2 DEF WindowInv, WindowIsConsistent, Window!WindowIsConsistent,
       Window!AnswersAreCurrent, Window!ToolsSettle, Window!OneSource
  <2>3. CASE UNCHANGED job
    BY <2>3 DEF WindowInv, HasKind, WindowFields, CallsAreCurrent, WindowIsConsistent,
       Window!WindowIsConsistent, Window!AnswersAreCurrent, Window!ToolsSettle,
       Window!OneSource, Window!Drawn, Window!Started
  <2>4. CASE Window!Next
    BY <2>4, WindowKeeps
  <2>5. QED
    BY <2>1, <2>2, <2>3, <2>4
<1>3. WindowInv => WindowIsConsistent
  BY DEF WindowInv
<1>4. QED
  BY <1>1, <1>2, <1>3, PTL DEF Spec

-----------------------------------------------------------------------------
(* The tools of a build.                                                   *)

LEMMA NamesAreListed ==
    ASSUME NEW tool
    PROVE  \E T : Tools!candidates(tool) \in Seq(T)
<1>1. CASE tool = "make"
  <2>1. <<"make", "gmake">> \in Seq({"make", "gmake"})
    OBVIOUS
  <2>2. QED
    BY <1>1, <2>1 DEF Tools!candidates
<1>2. CASE tool = "gcc"
  <2> DEFINE crossed == {"x86_64-elf-gcc", "x86_64-linux-gnu-gcc", "x86_64-pc-elf-gcc", "gcc"}
  <2>1. Tools!CrossPrefixed.gcc \in Seq(crossed) /\ <<"clang", "cc">> \in Seq({"clang", "cc"})
    BY DEF Tools!CrossPrefixed
  <2>2. Tools!CrossPrefixed.gcc \o <<"clang", "cc">> \in Seq(crossed \cup {"clang", "cc"})
    BY <2>1
  <2>3. QED
    BY <1>2, <2>2 DEF Tools!candidates
<1>3. CASE tool = "ld"
  <2> DEFINE crossed == {"x86_64-elf-ld", "x86_64-linux-gnu-ld", "x86_64-pc-elf-ld", "ld"}
  <2>1. Tools!CrossPrefixed.ld \in Seq(crossed) /\ <<"ld.lld", "ld">> \in Seq({"ld.lld", "ld"})
    BY DEF Tools!CrossPrefixed
  <2>2. Tools!CrossPrefixed.ld \o <<"ld.lld", "ld">> \in Seq(crossed \cup {"ld.lld", "ld"})
    BY <2>1
  <2>3. QED
    BY <1>3, <2>2 DEF Tools!candidates
<1>4. CASE tool = "nasm"
  <2>1. <<"nasm", "yasm">> \in Seq({"nasm", "yasm"})
    OBVIOUS
  <2>2. QED
    BY <1>4, <2>1 DEF Tools!candidates
<1>5. CASE tool \notin {"make", "gcc", "ld", "nasm"}
  <2>1. Tools!candidates(tool) = <<tool>>
    BY <1>5 DEF Tools!candidates
  <2>2. <<tool>> \in Seq({tool})
    OBVIOUS
  <2>3. QED
    BY <2>1, <2>2
<1>6. QED
  BY <1>1, <1>2, <1>3, <1>4, <1>5

LEMMA CandidatesAreListed ==
    ASSUME NEW tool
    PROVE  \E n \in Nat : DOMAIN Tools!Candidates(tool) = 1 .. n
<1>1. PICK T : Tools!candidates(tool) \in Seq(T)
  BY NamesAreListed
<1> DEFINE pin == job.pins[Tools!OverrideKey(tool)]
<1>2. \/ Tools!Candidates(tool) = <<pin>> \o Tools!candidates(tool)
      \/ Tools!Candidates(tool) = <<>> \o Tools!candidates(tool)
  BY DEF Tools!Candidates
<1> HIDE DEF pin
<1>3. Tools!Candidates(tool) \in Seq(T \cup {pin})
  BY <1>1, <1>2
<1>4. QED
  BY <1>3

Good(tool) ==
    {n \in DOMAIN Tools!Candidates(tool) : Tools!Runs(Tools!resolve(Tools!Candidates(tool)[n]))}

Least(set) == CHOOSE n \in set : \A m \in set : n <= m

Best(tool) ==
    IF Good(tool) = {} THEN <<>>
    ELSE Tools!resolve(Tools!Candidates(tool)[Least(Good(tool))])

LEMMA HostStays ==
    ASSUME job'.host = job.host, job'.pins = job.pins
    PROVE  /\ \A name : Tools!resolve(name)' = Tools!resolve(name)
           /\ \A tool : Tools!Candidates(tool)' = Tools!Candidates(tool)
           /\ \A tool : Good(tool)' = Good(tool) /\ Best(tool)' = Best(tool)
<1>1. \A file : Tools!There(file)' = Tools!There(file) /\ Tools!Runs(file)' = Tools!Runs(file)
  BY DEF Tools!There, Tools!Runs
<1>2. \A files : Tools!FirstThere(files)' = Tools!FirstThere(files)
  BY DEF Tools!FirstThere, Tools!There
<1>3. \A name : Tools!resolve(name)' = Tools!resolve(name)
  BY <1>2 DEF Tools!resolve, Tools!Places
<1>4. \A tool : Tools!Candidates(tool)' = Tools!Candidates(tool)
  BY DEF Tools!Candidates
<1>5. \A tool : Good(tool)' = Good(tool)
  BY <1>1, <1>3, <1>4 DEF Good
<1>6. \A tool : Best(tool)' = Best(tool)
  BY <1>3, <1>4, <1>5 DEF Best
<1>7. QED
  BY <1>3, <1>4, <1>5, <1>6

Specs == {"make", "gcc", "ld", "nasm", "bear", "clangd-16"}

ToolsFields ==
    /\ {"kind", "host", "pins", "specs", "assembles", "at", "candidate", "found", "outcome",
        "missing", "argv"} \subseteq DOMAIN job
    /\ job.host \in Hosts
    /\ job.specs \in Seq(Specs)
    /\ job.at \in 1 .. Len(job.specs) + 1
    /\ job.candidate \in Nat \ {0}
    /\ DOMAIN job.found = DOMAIN job.specs

\* The candidates that were tried do not run, and what was found is the first that does.
Searched ==
    /\ job.at <= Len(job.specs) => \A m \in 1 .. job.candidate - 1 : m \notin Good(job.specs[job.at])
    /\ \A i \in 1 .. job.at - 1 : job.found[i] = Best(job.specs[i])
    /\ \A i \in job.at .. Len(job.specs) : job.found[i] = <<>>

LEMMA LeastIsLeast ==
    ASSUME NEW n \in Nat, NEW T \in SUBSET (1 .. n), T # {}
    PROVE  Least(T) \in T /\ \A y \in T : Least(T) <= y
BY LeastIsThere DEF Least

\* What is found of a tool is there and runs, if one of its candidates does, and is <<>> if not.
LEMMA BestRuns ==
    ASSUME NEW tool, job.host \in Hosts
    PROVE  /\ Best(tool) # <<>> => Tools!Runs(Best(tool))
           /\ Best(tool) = <<>> <=> Good(tool) = {}
<1>1. PICK n \in Nat : DOMAIN Tools!Candidates(tool) = 1 .. n
  BY CandidatesAreListed
<1>2. Good(tool) \in SUBSET (1 .. n)
  BY <1>1 DEF Good
<1>3. Good(tool) # {} => Least(Good(tool)) \in Good(tool)
  BY <1>2, LeastIsLeast
<1>4. Good(tool) # {} => Tools!Runs(Best(tool))
  BY <1>3 DEF Best, Good
<1>5. ~ Tools!Runs(<<>>)
  BY HostsHaveFiles DEF Tools!Runs, Tools!There
<1>6. QED
  BY <1>4, <1>5 DEF Best

LEMMA ToolsKeepHost ==
    ASSUME HasKind, job.kind = "tools", ToolsFields, Tools!Next
    PROVE  /\ job'.host = job.host /\ job'.pins = job.pins /\ job'.specs = job.specs
           /\ job'.assembles = job.assembles
           /\ DOMAIN job' = DOMAIN job /\ job'.kind = "tools"
BY DEF Tools!Next, Tools!Find, Tools!Fail, Tools!Unavailable, Tools!Refuse, Tools!plan, ToolsFields

LEMMA SearchKeeps ==
    ASSUME HasKind, job.kind = "tools", ToolsFields, Searched, Tools!Next
    PROVE  ToolsFields' /\ Searched'
<1>1. /\ job'.host = job.host /\ job'.pins = job.pins /\ job'.specs = job.specs
      /\ DOMAIN job' = DOMAIN job
  BY ToolsKeepHost
<1>2. \A tool : Good(tool)' = Good(tool) /\ Best(tool)' = Best(tool)
  BY <1>1, HostStays
<1>3. CASE Tools!Find
  <2>1. /\ job.at <= Len(job.specs)
        /\ job.candidate <= Len(Tools!Candidates(job.specs[job.at]))
        /\ Tools!Runs(Tools!resolve(Tools!Candidates(job.specs[job.at])[job.candidate]))
        /\ job'.found = [job.found EXCEPT ![job.at]
                            = Tools!resolve(Tools!Candidates(job.specs[job.at])[job.candidate])]
        /\ job'.at = job.at + 1 /\ job'.candidate = 1
    BY <1>3 DEF Tools!Find, Tools!Detecting, Tools!Untried, Tools!Answers, Tools!Candidate,
       Tools!Tool, ToolsFields
  <2> DEFINE tool == job.specs[job.at]
  <2>2. PICK n \in Nat : DOMAIN Tools!Candidates(tool) = 1 .. n
    BY CandidatesAreListed
  <2>3. job.candidate \in Good(tool)
    BY <2>1, <2>2 DEF Good, ToolsFields
  <2>4. Good(tool) \in SUBSET (1 .. n)
    BY <2>2 DEF Good
  <2>5. \A m \in 1 .. job.candidate - 1 : m \notin Good(tool)
    BY <2>1 DEF Searched
  <2>6. Least(Good(tool)) = job.candidate
    <3> HIDE DEF tool
    <3>1. Least(Good(tool)) \in Good(tool) /\ Least(Good(tool)) <= job.candidate
      BY <2>3, <2>4, LeastIsLeast
    <3>2. QED
      BY <2>3, <2>4, <2>5, <3>1 DEF ToolsFields
  <2>7. Tools!resolve(Tools!Candidates(tool)[job.candidate]) = Best(tool)
    BY <2>3, <2>6 DEF Best
  <2>8. job'.found = [job.found EXCEPT ![job.at] = Best(job.specs[job.at])]
    BY <2>1, <2>7
  <2>9. ToolsFields'
    BY <1>1, <2>1, <2>8 DEF ToolsFields
  <2>10. /\ \A i \in 1 .. job.at : job'.found[i] = Best(job.specs[i])
         /\ \A i \in job.at + 1 .. Len(job.specs) : job'.found[i] = <<>>
    BY <2>8, <2>1 DEF Searched, ToolsFields
  <2>11. Searched'
    BY <1>1, <1>2, <2>1, <2>10 DEF Searched, ToolsFields
  <2>12. QED
    BY <2>9, <2>11
<1>4. CASE Tools!Fail
  <2>1. /\ job.at <= Len(job.specs)
        /\ ~ Tools!Runs(Tools!resolve(Tools!Candidates(job.specs[job.at])[job.candidate]))
        /\ job'.found = job.found /\ job'.at = job.at /\ job'.candidate = job.candidate + 1
    BY <1>4 DEF Tools!Fail, Tools!Detecting, Tools!Answers, Tools!Candidate,
       Tools!Tool, ToolsFields
  <2>2. job.candidate \notin Good(job.specs[job.at])
    BY <2>1 DEF Good
  <2>3. ToolsFields'
    BY <1>1, <2>1 DEF ToolsFields
  <2>4. \A m \in 1 .. job.candidate : m \notin Good(job.specs[job.at])
    BY <2>1, <2>2 DEF Searched, ToolsFields
  <2>5. Good(job.specs[job.at])' = Good(job.specs[job.at])
    BY <1>1, <1>2, <2>1
  <2>6. job'.candidate - 1 = job.candidate
    BY <2>1 DEF ToolsFields
  <2>7. \A m \in 1 .. job'.candidate - 1 : m \notin Good(job.specs[job.at])'
    BY <2>4, <2>5, <2>6
  <2>8. /\ \A i \in 1 .. job'.at - 1 : job'.found[i] = Best(job.specs[i])
        /\ \A i \in job'.at .. Len(job'.specs) : job'.found[i] = <<>>
    BY <1>1, <2>1 DEF Searched
  <2>9. (\A i \in 1 .. job.at - 1 : job.found[i] = Best(job.specs[i]))'
    BY <1>1, <1>2, <2>8
  <2>10. Searched'
    BY <2>7, <2>8, <2>9 DEF Searched
  <2>11. QED
    BY <2>3, <2>10
<1>5. CASE Tools!Unavailable
  <2>1. /\ job.at <= Len(job.specs)
        /\ ~ (job.candidate <= Len(Tools!Candidates(job.specs[job.at])))
        /\ job'.found = job.found /\ job'.at = job.at + 1 /\ job'.candidate = 1
    BY <1>5 DEF Tools!Unavailable, Tools!Detecting, Tools!Untried, Tools!Tool, ToolsFields
  <2> DEFINE tool == job.specs[job.at]
  <2>2. PICK n \in Nat : DOMAIN Tools!Candidates(tool) = 1 .. n
    BY CandidatesAreListed
  <2>3. Good(tool) = {}
    BY <2>1, <2>2 DEF Good, Searched, ToolsFields
  <2>4. job.found[job.at] = <<>>
    BY <2>1 DEF Searched, ToolsFields
  <2>5. Best(tool) = <<>>
    BY <2>3 DEF Best
  <2>6. ToolsFields'
    BY <1>1, <2>1 DEF ToolsFields
  <2>7. \A i \in 1 .. job.at : job.found[i] = Best(job.specs[i])
    BY <2>1, <2>4, <2>5 DEF Searched, ToolsFields
  <2>8. Searched'
    BY <1>1, <1>2, <2>1, <2>7 DEF Searched, ToolsFields
  <2>9. QED
    BY <2>6, <2>8
<1>6. CASE Tools!Refuse \/ Tools!plan
  <2>1. job'.found = job.found /\ job'.at = job.at /\ job'.candidate = job.candidate
    BY <1>6 DEF Tools!Refuse, Tools!plan, ToolsFields
  <2>2. QED
    BY <1>1, <1>2, <2>1 DEF Searched, ToolsFields
<1>7. QED
  BY <1>3, <1>4, <1>5, <1>6 DEF Tools!Next

\* A tool that was found is the one that is first.
LEMMA FoundIsBest ==
    ASSUME job.kind = "tools", ToolsFields, Searched, Tools!Planning,
           NEW tool \in {"make", "gcc", "ld", "nasm"}
    PROVE  Tools!Found(tool) = Best(tool)
<1>1. job.at > Len(job.specs) /\ job.specs = Tools!kernel_tool_specs
  BY DEF Tools!Planning, Tools!Detected
<1>2. \E i \in DOMAIN job.specs : job.specs[i] = tool
  <2>1. /\ 1 \in DOMAIN job.specs /\ 2 \in DOMAIN job.specs
        /\ 3 \in DOMAIN job.specs /\ 4 \in DOMAIN job.specs
        /\ job.specs[1] = "make" /\ job.specs[2] = "gcc"
        /\ job.specs[3] = "ld" /\ job.specs[4] = "nasm"
    BY <1>1 DEF Tools!kernel_tool_specs
  <2>2. QED
    BY <2>1
<1> DEFINE place == CHOOSE i \in DOMAIN job.specs : job.specs[i] = tool
<1>3. place \in DOMAIN job.specs /\ job.specs[place] = tool
  BY <1>2
<1>4. Tools!Found(tool) = job.found[place]
  BY DEF Tools!Found
<1> HIDE DEF place
<1>5. place \in 1 .. job.at - 1
  BY <1>1, <1>3 DEF ToolsFields
<1>6. job.found[place] = Best(job.specs[place])
  BY <1>5 DEF Searched
<1>7. QED
  BY <1>3, <1>4, <1>6

Needed == Tools!Required \cup (IF Tools!project_needs_nasm THEN {"nasm"} ELSE {})
Lacking == {tool \in Needed : Good(tool) = {}}

Decided ==
    /\ job.outcome = "refused" => job.missing = Lacking /\ Lacking # {}
    /\ job.outcome = "planned" => Lacking = {} /\ (job.argv[1] = "script" \/ Tools!Runs(job.argv[1]))

LEMMA MissingIsLacking ==
    ASSUME job.kind = "tools", ToolsFields, Searched, Tools!Planning
    PROVE  Tools!Missing = Lacking
<1>1. \A tool \in Needed : ~ Tools!Available(tool) <=> Good(tool) = {}
  BY FoundIsBest, BestRuns DEF Needed, Tools!Required, Tools!Available, ToolsFields
<1>2. "nasm" \in Needed <=> Tools!project_needs_nasm
  BY DEF Needed, Tools!Required
<1>3. QED
  BY <1>1, <1>2 DEF Tools!Missing, Tools!missing_required, Lacking, Needed

LEMMA PlanRuns ==
    ASSUME job.kind = "tools", ToolsFields, Searched, Tools!Planning, Tools!Missing = {},
           NEW command \in Tools!Commands, NEW targets \in {<<>>, <<"target">>},
           command # <<"quotes">>
    PROVE  LET first == Tools!Argv(command, targets)[1]
           IN  first = "script" \/ Tools!Runs(first)
<1>1. Good("make") # {}
  BY MissingIsLacking DEF Lacking, Needed, Tools!Required
<1>2. Tools!Runs(Tools!Found("make"))
  BY <1>1, FoundIsBest, BestRuns DEF ToolsFields
<1> DEFINE make == Tools!Found("make")
<1> HIDE DEF make
<1>3. targets \in Seq({"target"})
  <2>1. <<>> \in Seq({"target"}) /\ <<"target">> \in Seq({"target"})
    OBVIOUS
  <2>2. QED
    BY <2>1
<1>4. CASE command = <<>>
  <2>1. Tools!Argv(command, targets) = <<make>> \o targets
    BY <1>4 DEF Tools!Argv, make
  <2>2. (<<make>> \o targets)[1] = make
    BY <1>3
  <2>3. QED
    BY <1>2, <2>1, <2>2 DEF make
<1>5. CASE command = <<"make", "-f">>
  <2>1. Tools!Argv(command, targets) = <<make>> \o <<"-f">> \o targets
    BY <1>5 DEF Tools!Argv, make
  <2>2. (<<make>> \o <<"-f">> \o targets)[1] = make
    BY <1>3
  <2>3. QED
    BY <1>2, <2>1, <2>2 DEF make
<1>6. CASE command = <<"script">>
  <2>1. Tools!Argv(command, targets) = <<"script">> \o <<>> \o targets
    BY <1>6 DEF Tools!Argv
  <2>2. (<<"script">> \o <<>> \o targets)[1] = "script"
    BY <1>3
  <2>3. QED
    BY <2>1, <2>2
<1>7. QED
  BY <1>4, <1>5, <1>6 DEF Tools!Commands

LEMMA DecidedKeeps ==
    ASSUME HasKind, job.kind = "tools", ToolsFields, Searched, Decided, Tools!Next
    PROVE  Decided'
<1>1. /\ job'.host = job.host /\ job'.pins = job.pins /\ job'.specs = job.specs
      /\ job'.assembles = job.assembles
  BY ToolsKeepHost
<1>2. \A tool : Good(tool)' = Good(tool)
  BY <1>1, HostStays
<1>3. Needed' = Needed
  BY <1>1 DEF Needed, Tools!project_needs_nasm
<1>4. Lacking' = Lacking
  BY <1>2, <1>3 DEF Lacking
<1>5. CASE Tools!Find \/ Tools!Fail \/ Tools!Unavailable
  <2>1. job'.outcome = "detecting"
    BY <1>5 DEF Tools!Find, Tools!Fail, Tools!Unavailable, Tools!Detecting, ToolsFields
  <2>2. QED
    BY <2>1 DEF Decided
<1>6. CASE Tools!Refuse
  <2>1. job'.outcome = "refused" /\ job'.missing = Tools!Missing /\ Tools!Missing # {}
    BY <1>6 DEF Tools!Refuse, ToolsFields
  <2>2. Tools!Missing = Lacking
    BY <1>6, MissingIsLacking DEF Tools!Refuse
  <2>3. QED
    BY <1>4, <2>1, <2>2 DEF Decided
<1>7. CASE Tools!plan
  <2>1. Tools!Planning /\ Tools!Missing = {}
    BY <1>7 DEF Tools!plan
  <2>2. PICK command \in Tools!Commands, targets \in {<<>>, <<"target">>} :
          job' = IF command = <<"quotes">> THEN [job EXCEPT !.outcome = "E_INVALID_CONFIG"]
                 ELSE [job EXCEPT !.outcome = "planned", !.argv = Tools!Argv(command, targets)]
    BY <1>7 DEF Tools!plan
  <2>3. CASE command = <<"quotes">>
    BY <2>2, <2>3 DEF Decided, ToolsFields
  <2>4. CASE command # <<"quotes">>
    <3> DEFINE argv == Tools!Argv(command, targets)
    <3>1. argv[1] = "script" \/ Tools!Runs(argv[1])
      BY <2>1, <2>4, PlanRuns
    <3> HIDE DEF argv
    <3>2. job'.outcome = "planned" /\ job'.argv = argv
      BY <2>2, <2>4 DEF ToolsFields, argv
    <3>3. \A file : Tools!Runs(file)' <=> Tools!Runs(file)
      BY <1>1 DEF Tools!Runs, Tools!There
    <3>4. Lacking = {}
      BY <2>1, MissingIsLacking
    <3>5. Tools!Runs(job.argv[1])' <=> Tools!Runs(argv[1])
      BY <1>1, <3>2 DEF Tools!Runs, Tools!There
    <3>6. QED
      BY <1>4, <3>1, <3>2, <3>4, <3>5 DEF Decided
  <2>5. QED
    BY <2>3, <2>4
<1>8. QED
  BY <1>5, <1>6, <1>7 DEF Tools!Next

ToolsInv == HasKind /\ (job.kind = "tools" => ToolsFields /\ Searched /\ Decided)

\* A pin is the first candidate, and what the child finds is what the detector did.
LEMMA PinIsFirst ==
    ASSUME ToolsFields, NEW tool \in {"gcc", "ld"}, tool \in DOMAIN job.pins,
           Tools!Runs(Tools!resolve(job.pins[tool]))
    PROVE  Best(tool) = Tools!resolve(job.pins[tool])
<1>1. PICK n \in Nat : DOMAIN Tools!Candidates(tool) = 1 .. n
  BY CandidatesAreListed
<1>2. 1 \in DOMAIN Tools!Candidates(tool) /\ Tools!Candidates(tool)[1] = job.pins[tool]
  <2> DEFINE pin == job.pins[tool]
  <2>1. Tools!Candidates(tool) = <<pin>> \o Tools!candidates(tool)
    BY DEF Tools!Candidates, Tools!OverrideKey
  <2>2. PICK T : Tools!candidates(tool) \in Seq(T)
    BY NamesAreListed
  <2> HIDE DEF pin
  <2>3. 1 \in DOMAIN (<<pin>> \o Tools!candidates(tool)) /\ (<<pin>> \o Tools!candidates(tool))[1] = pin
    BY <2>2
  <2>4. QED
    BY <2>1, <2>3 DEF pin
<1>3. 1 \in Good(tool) /\ Good(tool) \in SUBSET (1 .. n)
  BY <1>1, <1>2 DEF Good
<1>4. Least(Good(tool)) \in Good(tool) /\ Least(Good(tool)) <= 1
  BY <1>3, LeastIsLeast
<1>5. Least(Good(tool)) = 1
  BY <1>3, <1>4
<1>6. QED
  BY <1>2, <1>3, <1>5 DEF Best

LEMMA ChildFindsTheSame == ASSUME NEW name PROVE Tools!ChildFinds(name) = Tools!resolve(name)
<1>1. Tools!build_env.path = <<"launcher", "path">>
  BY DEF Tools!build_env
<1>2. [n \in DOMAIN Tools!build_env.path |-> <<Tools!build_env.path[n], name>>]
        = <<<<"launcher", name>>, <<"path", name>>>>
  BY <1>1
<1>3. QED
  BY <1>2 DEF Tools!ChildFinds, Tools!resolve, Tools!Places

LEMMA ToolsInvSuffices == ToolsInv => Tools!ToolsAreTruthful
<1> SUFFICES ASSUME ToolsInv, job.kind = "tools" PROVE Tools!ToolsAreTruthful
  BY DEF Tools!ToolsAreTruthful, Tools!AvailableRuns, Tools!RefusedOrComplete, Tools!PinsAreUsed
<1> USE DEF ToolsInv
<1>1. Tools!AvailableRuns
  BY DEF Tools!AvailableRuns, Searched, Best, Good, Least
<1>2. Tools!RefusedOrComplete
  BY DEF Tools!RefusedOrComplete, Decided, Lacking, Needed, Good
<1>3. Tools!PinsAreUsed
  <2> SUFFICES ASSUME NEW i \in 1 .. job.at - 1, job.specs[i] \in DOMAIN Tools!build_env.tools,
                      Tools!Runs(Tools!ChildFinds(Tools!build_env.tools[job.specs[i]]))
               PROVE  job.found[i] = Tools!ChildFinds(Tools!build_env.tools[job.specs[i]])
    BY DEF Tools!PinsAreUsed
  <2>1. /\ job.specs[i] \in DOMAIN job.pins /\ job.specs[i] \in {"gcc", "ld"}
        /\ Tools!build_env.tools[job.specs[i]] = job.pins[job.specs[i]]
    BY DEF Tools!build_env
  <2>2. job.found[i] = Best(job.specs[i])
    BY DEF Searched
  <2>3. QED
    BY <2>1, <2>2, PinIsFirst, ChildFindsTheSame
<1>4. QED
  BY <1>1, <1>2, <1>3 DEF Tools!ToolsAreTruthful

LEMMA ToolsBegin == Tools!Init => ToolsInv
<1> SUFFICES ASSUME Tools!Init PROVE ToolsInv
  OBVIOUS
<1>1. PICK host \in Hosts, pins \in Pins, assembles \in BOOLEAN,
           specs \in {Tools!kernel_tool_specs, Tools!tool_specs_from_manifest(FALSE, "clangd-16")} :
        job = [kind |-> "tools", host |-> host, pins |-> pins, specs |-> specs,
               assembles |-> assembles, at |-> 1, candidate |-> 1,
               found |-> [i \in DOMAIN specs |-> <<>>],
               outcome |-> "detecting", missing |-> {}, argv |-> <<>>]
  BY DEF Tools!Init
<1>2. Tools!kernel_tool_specs \in Seq(Specs)
  BY DEF Tools!kernel_tool_specs, Specs
<1>3. Tools!tool_specs_from_manifest(FALSE, "clangd-16") \in Seq(Specs)
  <2>1. /\ <<"make", "gcc", "ld", "nasm">> \in Seq(Specs) /\ <<"clangd-16">> \in Seq(Specs)
        /\ <<>> \in Seq(Specs)
    BY DEF Specs
  <2>2. Tools!tool_specs_from_manifest(FALSE, "clangd-16")
          = <<"make", "gcc", "ld", "nasm">> \o <<>> \o <<"clangd-16">>
    BY DEF Tools!tool_specs_from_manifest
  <2>3. <<"make", "gcc", "ld", "nasm">> \o <<>> \o <<"clangd-16">> \in Seq(Specs)
    <3> DEFINE few == <<"make", "gcc", "ld", "nasm">>
    <3> DEFINE none == <<>>
    <3> DEFINE last == <<"clangd-16">>
    <3>1. few \in Seq(Specs) /\ none \in Seq(Specs) /\ last \in Seq(Specs)
      BY <2>1
    <3> HIDE DEF few, none, last
    <3>2. few \o none \o last \in Seq(Specs)
      BY <3>1
    <3>3. QED
      BY <3>2 DEF few, none, last
  <2>4. QED
    BY <2>2, <2>3
<1>4. specs \in Seq(Specs)
  BY <1>2, <1>3
<1>5. /\ HasKind /\ job.host \in Hosts /\ job.specs = specs /\ job.at = 1 /\ job.candidate = 1
      /\ job.found = [i \in DOMAIN specs |-> <<>>] /\ job.outcome = "detecting"
      /\ {"kind", "host", "pins", "specs", "assembles", "at", "candidate", "found", "outcome",
          "missing", "argv"} \subseteq DOMAIN job
  BY <1>1 DEF HasKind
<1>6. ToolsFields
  BY <1>4, <1>5 DEF ToolsFields
<1>7. Searched
  BY <1>4, <1>5 DEF Searched
<1>8. Decided
  BY <1>5 DEF Decided
<1>9. QED
  BY <1>5, <1>6, <1>7, <1>8 DEF ToolsInv

LEMMA ToolsInvKept == ToolsInv /\ Tools!Next => ToolsInv'
<1> SUFFICES ASSUME ToolsInv, Tools!Next PROVE ToolsInv'
  OBVIOUS
<1>1. job.kind = "tools"
  BY DEF Tools!Next, Tools!Find, Tools!Fail, Tools!Unavailable, Tools!Refuse, Tools!plan,
         Tools!Detecting, Tools!Planning, Tools!Detected
<1>2. HasKind'
  BY <1>1, ToolsKeepHost DEF ToolsInv, HasKind
<1>3. QED
  BY <1>1, <1>2, SearchKeeps, DecidedKeeps DEF ToolsInv

\* On any host and with any pins (toolchain.rs, backend.rs of princess-build): a tool that is
\* reported is the first of its candidates that runs, a pin that runs among them, and a plan
\* lacks no tool or names every tool that it lacks.
THEOREM BuildToolsStayTruthful == Spec => []Tools!ToolsAreTruthful
<1>1. Init => ToolsInv
  BY JobsStart, ToolsBegin DEF ToolsInv
<1>2. ToolsInv /\ [Next]_job => ToolsInv'
  <2> SUFFICES ASSUME ToolsInv, [Next]_job PROVE ToolsInv'
    OBVIOUS
  <2>1. HasKind' /\ job'.kind = job.kind /\ (job.kind = "tools" => [Tools!Next]_job)
    BY JobsStay DEF ToolsInv
  <2>2. CASE job.kind # "tools"
    BY <2>1, <2>2 DEF ToolsInv
  <2>3. CASE UNCHANGED job /\ job.kind = "tools"
    <3>1. /\ \A tool : Good(tool)' = Good(tool) /\ Best(tool)' = Best(tool)
          /\ \A name : Tools!resolve(name)' = Tools!resolve(name)
      BY <2>3, HostStays
    <3>2. Needed' = Needed /\ \A file : Tools!Runs(file)' <=> Tools!Runs(file)
      BY <2>3 DEF Needed, Tools!project_needs_nasm, Tools!Runs, Tools!There
    <3>3. Lacking' = Lacking
      BY <3>1, <3>2 DEF Lacking
    <3>4. Searched' /\ ToolsFields'
      BY <2>3, <3>1 DEF ToolsInv, Searched, ToolsFields
    <3>5. Decided'
      BY <2>3, <3>3 DEF ToolsInv, Decided, Tools!Runs, Tools!There
    <3>6. QED
      BY <2>1, <3>4, <3>5 DEF ToolsInv
  <2>4. CASE Tools!Next
    BY <2>4, ToolsInvKept
  <2>5. QED
    BY <2>1, <2>2, <2>3, <2>4
<1>3. ToolsInv => Tools!ToolsAreTruthful
  BY ToolsInvSuffices
<1>4. QED
  BY <1>1, <1>2, <1>3, PTL DEF Spec

-----------------------------------------------------------------------------
(* What clangd is given.                                                   *)

\* What a concatenation holds.
IsJoined(S, left, right, t) ==
    /\ t \in Seq(S) /\ Len(t) = Len(left) + Len(right)
    /\ Len(left) \in Nat /\ Len(right) \in Nat
    /\ \A i \in 1 .. Len(left) : t[i] = left[i]
    /\ \A i \in 1 .. Len(right) : t[Len(left) + i] = right[i]

LEMMA Joined ==
    ASSUME NEW S, NEW left \in Seq(S), NEW right \in Seq(S)
    PROVE  IsJoined(S, left, right, left \o right)
<1> DEFINE t == left \o right
<1>1. /\ t \in Seq(S) /\ Len(t) = Len(left) + Len(right)
      /\ Len(left) \in Nat /\ Len(right) \in Nat
  BY ConcatProperties
<1>2. \A i \in 1 .. Len(left) + Len(right) :
          t[i] = IF i <= Len(left) THEN left[i] ELSE right[i - Len(left)]
  BY ConcatProperties, Zenon
<1> HIDE DEF t
<1>3. ASSUME NEW i \in 1 .. Len(left) PROVE t[i] = left[i]
  BY <1>1, <1>2
<1>4. ASSUME NEW i \in 1 .. Len(right) PROVE t[Len(left) + i] = right[i]
  <2>1. Len(left) + i \in 1 .. Len(left) + Len(right) /\ ~(Len(left) + i <= Len(left))
        /\ Len(left) + i - Len(left) = i
    BY <1>1
  <2>2. QED
    BY <1>2, <2>1
<1>5. IsJoined(S, left, right, t)
  BY <1>1, <1>3, <1>4 DEF IsJoined
<1>6. QED
  BY <1>5 DEF t

\* What an Append holds.
LEMMA Appended ==
    ASSUME NEW S, NEW s \in Seq(S), NEW e \in S, NEW t, t = Append(s, e)
    PROVE  /\ t \in Seq(S) /\ Len(s) \in Nat /\ Len(t) = Len(s) + 1
           /\ \A i \in 1 .. Len(s) : t[i] = s[i]
           /\ t[Len(s) + 1] = e
BY AppendProperties

\* The words of a call, behind the driver.
LEMMA WordsAre ==
    ASSUME NEW call \in Calls
    PROVE  /\ Len(call) \in Nat /\ DOMAIN call = 1 .. Len(call)
           /\ Len(Clangd!Argv(call)) = Len(call) + 1
           /\ DOMAIN Clangd!Argv(call) = 1 .. Len(call) + 1
           /\ Clangd!Argv(call)[1] = "cc" /\ Clangd!Argv(call) # <<>>
           /\ \A i \in DOMAIN call : Clangd!Argv(call)[i + 1] = call[i].text
<1> DEFINE n == Len(call)
<1> DEFINE texts == [i \in DOMAIN call |-> call[i].text]
<1> DEFINE T == {call[i].text : i \in DOMAIN call} \cup {"cc"}
<1> DEFINE driver == <<"cc">>
<1> DEFINE words == driver \o texts
<1>1. n \in Nat /\ DOMAIN call = 1 .. n
  BY CallsAreRead
<1>2. texts \in Seq(T) /\ Len(texts) = n /\ \A i \in 1 .. n : texts[i] = call[i].text
  BY <1>1
<1>3. driver \in Seq(T) /\ Len(driver) = 1 /\ driver[1] = "cc"
  OBVIOUS
<1>4. Clangd!Argv(call) = words
  BY DEF Clangd!Argv
<1> HIDE DEF texts, T, driver, n
<1>5. IsJoined(T, driver, texts, words)
  BY <1>2, <1>3, Joined
<1> HIDE DEF words
<1>6. /\ words \in Seq(T) /\ Len(words) = 1 + n /\ words[1] = driver[1]
      /\ \A i \in 1 .. n : words[1 + i] = texts[i]
  BY <1>1, <1>2, <1>3, <1>5 DEF IsJoined
<1>7. ASSUME NEW i \in 1 .. n PROVE words[i + 1] = call[i].text
  <2>1. i + 1 = 1 + i
    BY <1>1
  <2>2. QED
    BY <1>2, <1>6, <2>1
<1>8. DOMAIN words = 1 .. n + 1 /\ Len(words) = n + 1 /\ words # <<>>
  BY <1>1, <1>6
<1>9. QED
  BY <1>1, <1>3, <1>4, <1>6, <1>7, <1>8 DEF n

LEMMA GarbledIsNone ==
    ASSUME NEW call \in Calls
    PROVE  Clangd!Argv(call) # Clangd!Garbled
<1>1. Clangd!Argv(call)[1] = "cc"
  BY WordsAre
<1>2. Clangd!Garbled[1] = "garbled"
  BY DEF Clangd!Garbled
<1>3. QED
  BY <1>1, <1>2

LEMMA PairIs ==
    ASSUME NEW a, NEW b
    PROVE  Append(<<>>, a) = <<a>> /\ Append(<<a>>, b) = <<a, b>> /\ <<a>> \o <<b>> = <<a, b>>
<1> DEFINE S == {a, b}
<1> DEFINE none == <<>>
<1> DEFINE one == <<a>>
<1> DEFINE other == <<b>>
<1> DEFINE both == <<a, b>>
<1>1. /\ none \in Seq(S) /\ Len(none) = 0
      /\ one \in Seq(S) /\ Len(one) = 1 /\ one[1] = a
      /\ other \in Seq(S) /\ Len(other) = 1 /\ other[1] = b
      /\ both \in Seq(S) /\ Len(both) = 2 /\ both[1] = a /\ both[2] = b
      /\ a \in S /\ b \in S
  OBVIOUS
<1> DEFINE first == Append(none, a)
<1> DEFINE second == Append(one, b)
<1> DEFINE joined == one \o other
<1>2. first \in Seq(S) /\ Len(first) = Len(none) + 1 /\ first[Len(none) + 1] = a
  <2> HIDE DEF S, none
  <2>1. QED
    BY <1>1, Appended
<1>3. /\ second \in Seq(S) /\ Len(second) = Len(one) + 1 /\ second[Len(one) + 1] = b
      /\ \A i \in 1 .. Len(one) : second[i] = one[i]
  <2> HIDE DEF S, one
  <2>1. QED
    BY <1>1, Appended
<1>4. IsJoined(S, one, other, joined)
  <2> HIDE DEF S, one, other
  <2>1. QED
    BY <1>1, Joined
<1> HIDE DEF S, none, one, other, both, first, second, joined
<1>5. first = one
  <2>1. \A i \in 1 .. 1 : first[i] = one[i]
    BY <1>1, <1>2
  <2>2. QED
    BY <1>1, <1>2, <2>1, SeqEqual
<1>6. second = both
  <2>1. \A i \in 1 .. 2 : second[i] = both[i]
    BY <1>1, <1>3
  <2>2. QED
    BY <1>1, <1>3, <2>1, SeqEqual
<1>7. joined = both
  <2>1. joined \in Seq(S) /\ Len(joined) = 2 /\ joined[1] = a /\ joined[2] = b
    BY <1>1, <1>4 DEF IsJoined
  <2>2. \A i \in 1 .. 2 : joined[i] = both[i]
    BY <1>1, <2>1
  <2>3. QED
    BY <1>1, <2>1, <2>2, SeqEqual
<1>8. QED
  BY <1>5, <1>6, <1>7 DEF first, second, joined, none, one, other, both

\* The name of a file of the build directory, made absolute.
LEMMA AbsolutiseFile ==
    ASSUME NEW file \in BuildFiles
    PROVE  Clangd!absolutise(Clangd!Path(FALSE, <<file>>), Clangd!BuildDir) = Clangd!Root(<<"b", file>>)
<1> DEFINE names == <<"b", file>>
<1> DEFINE Is(f) == f = [n \in 0 .. Len(names) |->
          IF n = 0 THEN <<>>
          ELSE IF names[n] # ".." THEN Append(f[n - 1], names[n])
          ELSE IF f[n - 1] = <<>> THEN <<>> ELSE Clangd!Front(f[n - 1])]
<1> DEFINE kept == CHOOSE f : Is(f)
<1>1. Clangd!normalize(names) = kept[Len(names)]
  BY Zenon DEF Clangd!normalize
<1>2. /\ Len(names) = 2 /\ names[1] = "b" /\ names[2] = file
      /\ names[1] # ".." /\ names[2] # ".."
  BY FilesHaveNames
<1>3. \E f : Is(f)
  <2> DEFINE f == [n \in 0 .. 2 |-> IF n = 0 THEN <<>> ELSE IF n = 1 THEN <<"b">> ELSE <<"b", file>>]
  <2> DEFINE v(n) == IF n = 0 THEN <<>>
          ELSE IF names[n] # ".." THEN Append(f[n - 1], names[n])
          ELSE IF f[n - 1] = <<>> THEN <<>> ELSE Clangd!Front(f[n - 1])
  <2>1. f[0] = <<>> /\ f[1] = <<"b">> /\ f[2] = <<"b", file>>
    OBVIOUS
  <2>2. Append(<<>>, "b") = <<"b">> /\ Append(<<"b">>, file) = <<"b", file>>
    BY PairIs
  <2> HIDE DEF names
  <2>3. v(0) = f[0] /\ v(1) = f[1] /\ v(2) = f[2]
    BY <1>2, <2>1, <2>2
  <2>4. \A n \in 0 .. 2 : n = 0 \/ n = 1 \/ n = 2
    OBVIOUS
  <2>5. f = [n \in 0 .. 2 |-> f[n]]
    OBVIOUS
  <2> HIDE DEF f, v
  <2>6. f = [n \in 0 .. 2 |-> v(n)]
    BY <2>3, <2>4, <2>5
  <2>7. Is(f)
    BY <1>2, <2>6 DEF v
  <2>8. QED
    BY <2>7
<1> HIDE DEF Is
<1>4. Is(kept)
  BY <1>3
<1> HIDE DEF kept
<1>5. /\ kept[0] = <<>>
      /\ kept[1] = Append(kept[0], "b") /\ kept[2] = Append(kept[1], file)
  <2> HIDE DEF names
  <2>1. \A n \in 0 .. 2 : kept[n] =
          IF n = 0 THEN <<>>
          ELSE IF names[n] # ".." THEN Append(kept[n - 1], names[n])
          ELSE IF kept[n - 1] = <<>> THEN <<>> ELSE Clangd!Front(kept[n - 1])
    BY <1>2, <1>4 DEF Is
  <2>2. 0 \in 0 .. 2 /\ 1 \in 0 .. 2 /\ 2 \in 0 .. 2 /\ 1 - 1 = 0 /\ 2 - 1 = 1 /\ 1 # 0 /\ 2 # 0
    OBVIOUS
  <2>3. kept[0] = <<>>
    BY <2>1, <2>2
  <2>4. kept[1] = Append(kept[0], names[1])
    BY <1>2, <2>1, <2>2
  <2>5. kept[2] = Append(kept[1], names[2])
    BY <1>2, <2>1, <2>2
  <2>6. QED
    BY <1>2, <2>3, <2>4, <2>5
<1>6. kept[2] = <<"b", file>>
  BY <1>5, PairIs
<1>7. <<"b">> \o <<file>> = names
  BY PairIs
<1>8. Clangd!absolutise(Clangd!Path(FALSE, <<file>>), Clangd!BuildDir)
        = Clangd!Root(Clangd!normalize(<<"b">> \o <<file>>))
  BY DEF Clangd!absolutise, Clangd!Path, Clangd!BuildDir, Clangd!Root
<1>9. QED
  BY <1>1, <1>2, <1>6, <1>7, <1>8

\* What is taken so far of a known call: whether the word at hand is the value of a flag, and
\* that no file is before it.
ReadSoFar(c, word, skip) ==
    /\ word <= Len(c) + 1 => (skip <=> c[word - 1].is = "value")
    /\ \A i \in Clangd!FilesOf(c) : i >= word - 1

LEMMA FirstWord ==
    ASSUME NEW c \in Calls
    PROVE  ReadSoFar(c, 2, FALSE)
<1>1. Len(c) \in Nat /\ DOMAIN c = 1 .. Len(c)
  BY CallsAreRead
<1>2. 2 <= Len(c) + 1 => c[2 - 1].is # "value"
  <2> SUFFICES ASSUME 2 <= Len(c) + 1 PROVE c[1].is # "value"
    OBVIOUS
  <2>1. 1 \in DOMAIN c
    BY <1>1
  <2>2. \A i \in DOMAIN c : c[i].is = "value" => i > 1
    BY CallsAreRead
  <2>3. ~(1 > 1)
    OBVIOUS
  <2>4. QED
    BY <2>1, <2>2, <2>3, Zenon
<1>3. QED
  BY <1>1, <1>2 DEF ReadSoFar, Clangd!FilesOf

\* A word that is passed by is no file of the call, and tells of the next whether it is a value.
LEMMA NextWord ==
    ASSUME NEW c \in Calls, Clangd!Known(c), NEW w \in Nat, 2 <= w, w <= Len(c) + 1,
           NEW skip \in BOOLEAN, ReadSoFar(c, w, skip), ~Clangd!IsUnit(Clangd!Argv(c)[w], skip),
           NEW next \in BOOLEAN, next <=> ~skip /\ Clangd!Argv(c)[w] \in Clangd!VALUE_TAKING_FLAGS
    PROVE  ReadSoFar(c, w + 1, next)
<1> DEFINE i == w - 1
<1> DEFINE text == c[i].text
<1>1. Len(c) \in Nat /\ DOMAIN c = 1 .. Len(c) /\ i \in DOMAIN c /\ i + 1 = w /\ i \in Nat
  BY CallsAreRead
<1>2. Clangd!Argv(c)[w] = text
  BY <1>1, WordsAre
<1>3. /\ c[i].is \in {"flag", "value", "file"}
      /\ c[i].is # "value" => (c[i].is = "flag" <=> text \in Clangd!Flags)
  BY <1>1, CallsAreRead
<1>4. skip <=> c[i].is = "value"
  BY DEF ReadSoFar
<1>5. Clangd!VALUE_TAKING_FLAGS \subseteq Clangd!Flags
  BY DEF Clangd!Flags
<1>6. w \in DOMAIN c =>
        /\ c[w].is = "value" => c[i].is = "flag" /\ text \in Clangd!VALUE_TAKING_FLAGS
        /\ c[i].is = "flag" /\ text \in Clangd!VALUE_TAKING_FLAGS => c[w].is = "value"
  <2> SUFFICES ASSUME w \in DOMAIN c
               PROVE  /\ c[w].is = "value" => c[i].is = "flag" /\ text \in Clangd!VALUE_TAKING_FLAGS
                      /\ c[i].is = "flag" /\ text \in Clangd!VALUE_TAKING_FLAGS => c[w].is = "value"
    OBVIOUS
  <2>1. w > 1 /\ w - 1 = i
    OBVIOUS
  <2>2. c[w].is = "value" => c[i].is = "flag"
    BY <2>1, CallsAreRead
  <2>3. c[w].is = "value" => text \in Clangd!VALUE_TAKING_FLAGS
    BY <2>1 DEF Clangd!Known
  <2>4. c[i].is = "flag" /\ text \in Clangd!VALUE_TAKING_FLAGS => c[w].is = "value"
    BY <2>1, CallsAreRead
  <2>5. QED
    BY <2>2, <2>3, <2>4
<1>7. i \notin Clangd!FilesOf(c)
  <2>1. c[i].is = "file" => ~skip /\ text \notin Clangd!Flags
    BY <1>3, <1>4
  <2>2. QED
    BY <1>2, <2>1 DEF Clangd!IsUnit, Clangd!FilesOf
<1> HIDE DEF text
<1>8. w + 1 <= Len(c) + 1 => (next <=> c[(w + 1) - 1].is = "value")
  <2> SUFFICES ASSUME w + 1 <= Len(c) + 1 PROVE next <=> c[w].is = "value"
    OBVIOUS
  <2>1. w \in DOMAIN c
    BY <1>1
  <2>2. c[w].is = "value" <=> c[i].is = "flag" /\ text \in Clangd!VALUE_TAKING_FLAGS
    BY <1>6, <2>1
  <2>3. next <=> ~skip /\ text \in Clangd!VALUE_TAKING_FLAGS
    BY <1>2
  <2>4. QED
    BY <1>3, <1>4, <1>5, <2>2, <2>3
<1>9. \A k \in Clangd!FilesOf(c) : k >= (w + 1) - 1
  <2> SUFFICES ASSUME NEW k \in Clangd!FilesOf(c) PROVE k >= w
    OBVIOUS
  <2>1. k \in Nat /\ k >= i /\ k # i
    BY <1>1, <1>7 DEF ReadSoFar, Clangd!FilesOf
  <2>2. QED
    BY <1>1, <2>1
<1>10. QED
  BY <1>8, <1>9 DEF ReadSoFar

\* A word that is a unit is the source of the call.
LEMMA UnitIsSource ==
    ASSUME NEW c \in Calls, NEW w \in Nat, 2 <= w, w <= Len(c) + 1,
           NEW skip \in BOOLEAN, ReadSoFar(c, w, skip), Clangd!IsUnit(Clangd!Argv(c)[w], skip)
    PROVE  Clangd!FilesOf(c) # {} /\ Clangd!Source(c) = Clangd!Argv(c)[w]
<1> DEFINE i == w - 1
<1> DEFINE text == c[i].text
<1> DEFINE files == Clangd!FilesOf(c)
<1>1. Len(c) \in Nat /\ DOMAIN c = 1 .. Len(c) /\ i \in DOMAIN c /\ i + 1 = w /\ i \in Nat
  BY CallsAreRead
<1>2. Clangd!Argv(c)[w] = text
  BY <1>1, WordsAre
<1>3. /\ c[i].is \in {"flag", "value", "file"}
      /\ c[i].is # "value" => (c[i].is = "flag" <=> text \in Clangd!Flags)
  BY <1>1, CallsAreRead
<1>4. c[i].is # "value"
  BY DEF ReadSoFar, Clangd!IsUnit
<1>5. i \in files
  BY <1>1, <1>2, <1>3, <1>4 DEF Clangd!IsUnit, Clangd!FilesOf
<1>6. files \subseteq Nat /\ \A j \in files : i <= j
  BY <1>1 DEF ReadSoFar, Clangd!FilesOf
<1> HIDE DEF files, i
<1>7. (CHOOSE k \in files : \A j \in files : k <= j) = i
  <2>1. \A k \in files : (\A j \in files : k <= j) => k = i
    BY <1>1, <1>5, <1>6
  <2>2. QED
    BY <1>5, <1>6, <2>1
<1>8. QED
  BY <1>2, <1>5, <1>7 DEF Clangd!Source, files

\* A call whose words are all passed by has none.
LEMMA NoSource ==
    ASSUME NEW c \in Calls, NEW w \in Nat, w > Len(c) + 1, NEW skip, ReadSoFar(c, w, skip)
    PROVE  Clangd!FilesOf(c) = {}
<1>1. Len(c) \in Nat /\ DOMAIN c = 1 .. Len(c)
  BY CallsAreRead
<1>2. QED
  BY <1>1 DEF ReadSoFar, Clangd!FilesOf

\* What a call adds to the database.
UnitOf(c) ==
    {entry \in {Clangd!Entry(Clangd!BuildDir, Clangd!Argv(c), Clangd!Root(<<"b", Clangd!Source(c)>>))} :
        Clangd!FilesOf(c) # {} /\ Clangd!looks_like_c_compilation(entry)}

LEMMA UnitsAre ==
    ASSUME NEW calls
    PROVE  Clangd!Compilations(calls) = UNION {UnitOf(c) : c \in calls}
BY DEF UnitOf, Clangd!Compilations

-----------------------------------------------------------------------------
(* The database. *)

Usable(e) == e.arguments # <<>> /\ e.directory.absolute /\ e.file.absolute

IsDatabase(db) ==
    /\ \E T : db \in Seq(T)
    /\ Clangd!IsInjective(db)
    /\ \A e \in Clangd!ToSet(db) : Usable(e)

LEMMA NewIsAppended ==
    ASSUME NEW db, IsDatabase(db), NEW e, Usable(e)
    PROVE  /\ IsDatabase(Clangd!AppendNew(db, e))
           /\ Clangd!ToSet(Clangd!AppendNew(db, e)) = Clangd!ToSet(db) \cup {e}
<1>1. CASE e \in Clangd!ToSet(db)
  BY <1>1 DEF Clangd!AppendNew
<1>2. CASE e \notin Clangd!ToSet(db)
  <2> DEFINE longer == Append(db, e)
  <2>1. PICK T : db \in Seq(T)
    BY DEF IsDatabase
  <2> DEFINE S == T \cup {e}
  <2>2. db \in Seq(S) /\ e \in S
    BY <2>1
  <2> HIDE DEF S
  <2>3. /\ longer \in Seq(S) /\ Len(db) \in Nat /\ Len(longer) = Len(db) + 1
        /\ \A i \in 1 .. Len(db) : longer[i] = db[i]
        /\ longer[Len(db) + 1] = e
    BY <2>2, Appended
  <2> HIDE DEF longer
  <2>4. DOMAIN db = 1 .. Len(db) /\ DOMAIN longer = 1 .. Len(db) + 1
    BY <2>2, <2>3
  <2>5. Clangd!ToSet(longer) = Clangd!ToSet(db) \cup {e}
    <3>1. \A x \in Clangd!ToSet(longer) : x \in Clangd!ToSet(db) \/ x = e
      BY <2>3, <2>4 DEF Clangd!ToSet
    <3>2. \A x \in Clangd!ToSet(db) : x \in Clangd!ToSet(longer)
      <4> SUFFICES ASSUME NEW i \in 1 .. Len(db) PROVE db[i] \in Clangd!ToSet(longer)
        BY <2>4 DEF Clangd!ToSet
      <4>1. i \in DOMAIN longer /\ longer[i] = db[i]
        BY <2>3, <2>4
      <4>2. QED
        BY <4>1 DEF Clangd!ToSet
    <3>3. e \in Clangd!ToSet(longer)
      <4>1. Len(db) + 1 \in DOMAIN longer
        BY <2>3, <2>4
      <4>2. QED
        BY <2>3, <4>1 DEF Clangd!ToSet
    <3>4. QED
      BY <3>1, <3>2, <3>3
  <2>6. Clangd!IsInjective(longer)
    <3> SUFFICES ASSUME NEW a \in 1 .. Len(db) + 1, NEW b \in 1 .. Len(db) + 1, longer[a] = longer[b]
                 PROVE  a = b
      BY <2>4 DEF Clangd!IsInjective
    <3>1. \A i \in 1 .. Len(db) : db[i] # e
      BY <1>2, <2>4 DEF Clangd!ToSet
    <3>2. CASE a \in 1 .. Len(db) /\ b \in 1 .. Len(db)
      BY <2>3, <2>4, <3>2 DEF IsDatabase, Clangd!IsInjective
    <3>3. CASE a = Len(db) + 1 \/ b = Len(db) + 1
      BY <2>3, <3>1, <3>3
    <3>4. QED
      BY <2>3, <3>2, <3>3
  <2>7. IsDatabase(longer)
    BY <2>3, <2>5, <2>6 DEF IsDatabase
  <2>8. QED
    BY <1>2, <2>5, <2>7 DEF Clangd!AppendNew, longer
<1>3. QED
  BY <1>1, <1>2

LEMMA EmptyDatabase == IsDatabase(<<>>) /\ Clangd!ToSet(<<>>) = {}
<1>1. <<>> \in Seq({}) /\ DOMAIN <<>> = {}
  OBVIOUS
<1>2. QED
  BY <1>1 DEF IsDatabase, Clangd!IsInjective, Clangd!ToSet

LEMMA UsableIsAccepted ==
    ASSUME NEW db, db # <<>>, \A e \in Clangd!ToSet(db) : Usable(e)
    PROVE  Clangd!Problems(db) \subseteq {"gone"}
BY DEF Usable, Clangd!Problems

\* The calls that the lines up to a place record, and what a database has of them.
Recorded(lines, at) == {c \in Calls : \E i \in 1 .. at - 1 : lines[i] = Clangd!Argv(c)}
HasUnits(db, calls) ==
    LET known == Clangd!Compilations({c \in calls : Clangd!Known(c)})
    IN  /\ known \subseteq Clangd!ToSet(db)
        /\ (\A c \in calls : Clangd!Known(c)) => Clangd!ToSet(db) = known

\* A line is done with when the database has, with what is added, the unit of each known call
\* that it records.
LEMMA LineIsDone ==
    ASSUME NEW lines, NEW at \in Nat, at >= 1,
           NEW db, NEW longer, NEW units,
           HasUnits(db, Recorded(lines, at)),
           Clangd!ToSet(longer) = Clangd!ToSet(db) \cup units,
           units # {} => \E c \in Calls : lines[at] = Clangd!Argv(c),
           \A c \in Calls : lines[at] = Clangd!Argv(c) /\ Clangd!Known(c) => UnitOf(c) = units
    PROVE  HasUnits(longer, Recorded(lines, at + 1))
<1> DEFINE old == Recorded(lines, at)
<1> DEFINE now == {c \in Calls : lines[at] = Clangd!Argv(c)}
<1> DEFINE all == Recorded(lines, at + 1)
<1>1. all = old \cup now
  <2>1. \A i \in 1 .. (at + 1) - 1 : i \in 1 .. at - 1 \/ i = at
    OBVIOUS
  <2>2. at \in 1 .. (at + 1) - 1 /\ \A i \in 1 .. at - 1 : i \in 1 .. (at + 1) - 1
    OBVIOUS
  <2>3. QED
    BY <2>1, <2>2 DEF Recorded
<1>2. \A c \in now : Clangd!Known(c) => UnitOf(c) = units
  OBVIOUS
<1>3. units # {} => now # {}
  OBVIOUS
<1> DEFINE before == {c \in old : Clangd!Known(c)}
<1> DEFINE after == {c \in all : Clangd!Known(c)}
<1> HIDE DEF old, now, all
<1>4. Clangd!Compilations(before) \subseteq Clangd!ToSet(db)
  BY DEF HasUnits, old
<1>5. (\A c \in old : Clangd!Known(c)) => Clangd!ToSet(db) = Clangd!Compilations(before)
  BY DEF HasUnits, old
<1>6. Clangd!Compilations(before) = UNION {UnitOf(c) : c \in before}
  BY UnitsAre
<1>7. Clangd!Compilations(after) = UNION {UnitOf(c) : c \in after}
  BY UnitsAre
<1>8. Clangd!Compilations(after) \subseteq Clangd!ToSet(longer)
  <2> SUFFICES ASSUME NEW c \in after, NEW e \in UnitOf(c) PROVE e \in Clangd!ToSet(longer)
    BY <1>7
  <2>1. CASE c \in old
    BY <2>1, <1>4, <1>6
  <2>2. CASE c \in now
    BY <2>2, <1>2
  <2>3. QED
    BY <1>1, <2>1, <2>2
<1>9. ASSUME \A c \in all : Clangd!Known(c)
      PROVE  Clangd!ToSet(longer) = Clangd!Compilations(after)
  <2>1. before \subseteq after /\ now \subseteq after /\ \A c \in old : Clangd!Known(c)
    BY <1>1, <1>9
  <2>2. Clangd!ToSet(db) \subseteq Clangd!Compilations(after)
    BY <1>5, <1>6, <1>7, <2>1
  <2>3. units \subseteq Clangd!Compilations(after)
    <3>1. CASE units = {}
      BY <3>1
    <3>2. CASE units # {}
      <4>1. PICK c \in now : TRUE
        BY <1>3, <3>2
      <4>2. c \in after /\ UnitOf(c) = units
        BY <1>2, <2>1
      <4>3. QED
        BY <1>7, <4>2
    <3>3. QED
      BY <3>1, <3>2
  <2>4. QED
    BY <1>8, <2>2, <2>3
<1>10. QED
  BY <1>8, <1>9 DEF HasUnits, all

-----------------------------------------------------------------------------
(* A database that is collected. *)

DatabaseFields ==
    /\ {"kind", "from", "lines", "at", "word", "skip", "db", "state"} \subseteq DOMAIN job
    /\ job.kind = "database" /\ job.from \in {"shim", "bear"}
    /\ IsDatabase(job.db) /\ (job.state = "written" => job.db # <<>>)

ShimFields ==
    /\ Len(job.lines) \in Nat /\ job.at \in Nat /\ 1 <= job.at
    /\ \A i \in 1 .. Len(job.lines) :
         job.lines[i] = Clangd!Garbled \/ \E c \in Calls : job.lines[i] = Clangd!Argv(c)
    /\ job.word \in Nat /\ 2 <= job.word /\ job.skip \in BOOLEAN

\* The known calls that the line at hand records are read so far as the job has it.
LineIsRead ==
    \A c \in Calls :
        job.at <= Len(job.lines) /\ job.lines[job.at] = Clangd!Argv(c) /\ Clangd!Known(c)
            => ReadSoFar(c, job.word, job.skip)

DatabaseInv ==
    /\ DatabaseFields
    /\ job.from = "shim" =>
         ShimFields /\ LineIsRead /\ HasUnits(job.db, Recorded(job.lines, job.at))

LEMMA ShimBegins == Clangd!ShimInit => DatabaseInv
<1> SUFFICES ASSUME Clangd!ShimInit PROVE DatabaseInv
  OBVIOUS
<1> DEFINE S == {Clangd!Argv(call) : call \in Calls} \cup {Clangd!Garbled}
<1>1. PICK lines \in Clangd!SeqOf(S, MaxCalls) :
        job = [kind |-> "database", from |-> "shim", lines |-> lines, at |-> 1,
               word |-> 2, skip |-> FALSE, db |-> <<>>, state |-> "reading"]
  BY DEF Clangd!ShimInit
<1>2. PICK m \in 0 .. MaxCalls : lines \in [1 .. m -> S]
  BY DEF Clangd!SeqOf
<1>3. m \in Nat /\ Len(lines) = m /\ \A i \in 1 .. m : lines[i] \in S
  BY <1>2
<1>4. /\ job.kind = "database" /\ job.from = "shim" /\ job.lines = lines /\ job.at = 1
      /\ job.word = 2 /\ job.skip = FALSE /\ job.db = <<>> /\ job.state = "reading"
      /\ DOMAIN job = {"kind", "from", "lines", "at", "word", "skip", "db", "state"}
  BY <1>1
<1>5. DatabaseFields
  BY <1>4, EmptyDatabase DEF DatabaseFields
<1>6. ShimFields
  <2>1. job.skip \in BOOLEAN
    BY <1>4, Zenon
  <2>2. /\ Len(job.lines) \in Nat /\ job.at \in Nat /\ 1 <= job.at
        /\ job.word \in Nat /\ 2 <= job.word
    BY <1>3, <1>4
  <2>3. \A i \in 1 .. Len(job.lines) :
          job.lines[i] = Clangd!Garbled \/ \E c \in Calls : job.lines[i] = Clangd!Argv(c)
    <3>1. \A i \in 1 .. m : lines[i] = Clangd!Garbled \/ \E c \in Calls : lines[i] = Clangd!Argv(c)
      BY <1>3
    <3>2. QED
      BY <1>3, <1>4, <3>1
  <2>4. QED
    BY <2>1, <2>2, <2>3 DEF ShimFields
<1>7. LineIsRead
  BY <1>4, FirstWord DEF LineIsRead
<1>8. HasUnits(job.db, Recorded(job.lines, job.at))
  <2>1. Recorded(job.lines, job.at) = {}
    BY <1>4 DEF Recorded
  <2>2. Clangd!Compilations({}) = {}
    BY UnitsAre
  <2>3. {c \in {} : Clangd!Known(c)} = {}
    OBVIOUS
  <2>4. QED
    BY <1>4, <2>1, <2>2, <2>3, EmptyDatabase DEF HasUnits
<1>9. QED
  BY <1>5, <1>6, <1>7, <1>8 DEF DatabaseInv

LEMMA BearBegins == Clangd!BearInit => DatabaseInv
<1> SUFFICES ASSUME Clangd!BearInit PROVE DatabaseInv
  OBVIOUS
<1>1. PICK lines \in Clangd!SeqOf(Clangd!RawEntries, MaxCalls) :
        job = [kind |-> "database", from |-> "bear", lines |-> lines, at |-> 1,
               word |-> 2, skip |-> FALSE, db |-> <<>>, state |-> "reading"]
  BY DEF Clangd!BearInit
<1>2. /\ job.kind = "database" /\ job.from = "bear" /\ job.db = <<>> /\ job.state = "reading"
      /\ DOMAIN job = {"kind", "from", "lines", "at", "word", "skip", "db", "state"}
  BY <1>1
<1>3. QED
  BY <1>2, EmptyDatabase DEF DatabaseInv, DatabaseFields

\* A line that is done leaves the first word of the next one.
LEMMA LineIsLeft ==
    ASSUME DatabaseInv, job.from = "shim", NEW db, NEW units,
           job.at <= Len(job.lines), job.state = "reading",
           job' = Clangd!NextLine(db),
           IsDatabase(db), Clangd!ToSet(db) = Clangd!ToSet(job.db) \cup units,
           units # {} => \E c \in Calls : job.lines[job.at] = Clangd!Argv(c),
           \A c \in Calls : job.lines[job.at] = Clangd!Argv(c) /\ Clangd!Known(c) => UnitOf(c) = units
    PROVE  DatabaseInv'
<1>1. DatabaseFields /\ ShimFields /\ HasUnits(job.db, Recorded(job.lines, job.at))
  BY DEF DatabaseInv
<1>2. /\ DOMAIN job' = DOMAIN job /\ job'.kind = job.kind /\ job'.from = job.from
      /\ job'.lines = job.lines /\ job'.at = job.at + 1 /\ job'.word = 2 /\ job'.skip = FALSE
      /\ job'.db = db /\ job'.state = job.state
  BY <1>1 DEF Clangd!NextLine, DatabaseFields
<1>3. DatabaseFields'
  BY <1>1, <1>2 DEF DatabaseFields
<1>4. ShimFields'
  <2>1. job'.skip \in BOOLEAN
    BY <1>2, Zenon
  <2>2. /\ Len(job'.lines) \in Nat /\ job'.at \in Nat /\ 1 <= job'.at
        /\ job'.word \in Nat /\ 2 <= job'.word
    BY <1>1, <1>2 DEF ShimFields
  <2>3. \A i \in 1 .. Len(job'.lines) :
          job'.lines[i] = Clangd!Garbled \/ \E c \in Calls : job'.lines[i] = Clangd!Argv(c)
    BY <1>1, <1>2, Zenon DEF ShimFields
  <2>4. QED
    BY <2>1, <2>2, <2>3 DEF ShimFields
<1>5. LineIsRead'
  BY <1>2, FirstWord DEF LineIsRead
<1>6. HasUnits(db, Recorded(job.lines, job.at + 1))
  BY <1>1, LineIsDone DEF ShimFields
<1>7. QED
  BY <1>2, <1>3, <1>4, <1>5, <1>6 DEF DatabaseInv

LEMMA DatabaseKeeps == DatabaseInv /\ Clangd!Next => DatabaseInv'
<1> SUFFICES ASSUME DatabaseInv, Clangd!Next PROVE DatabaseInv'
  OBVIOUS
<1>0. DatabaseFields /\ (job.from = "shim" => ShimFields /\ LineIsRead)
  BY DEF DatabaseInv
<1>1. CASE Clangd!SkipLine
  <2>1. /\ job.from = "shim" /\ job.state = "reading" /\ job.at <= Len(job.lines)
        /\ job.lines[job.at] = Clangd!Garbled /\ job' = Clangd!NextLine(job.db)
    BY <1>1 DEF Clangd!SkipLine, Clangd!Reading, Clangd!Line
  <2>2. \A c \in Calls : job.lines[job.at] # Clangd!Argv(c)
    BY <2>1, GarbledIsNone
  <2>3. IsDatabase(job.db) /\ Clangd!ToSet(job.db) = Clangd!ToSet(job.db) \cup {}
    BY <1>0 DEF DatabaseFields
  <2>4. QED
    BY <2>1, <2>2, <2>3, LineIsLeft
<1>2. ASSUME Clangd!Reading("shim"), Clangd!Line # Clangd!Garbled,
             Clangd!PassWord \/ Clangd!TakeUnit \/ Clangd!NoUnit
      PROVE  DatabaseInv'
  <2> DEFINE line == job.lines[job.at]
  <2>1. /\ job.from = "shim" /\ job.state = "reading" /\ job.at <= Len(job.lines)
        /\ Clangd!Line = line
    BY <1>2 DEF Clangd!Reading, Clangd!Line
  <2>2. ShimFields /\ LineIsRead
    BY <1>0, <2>1
  <2>3. job.at \in 1 .. Len(job.lines)
    BY <2>1, <2>2 DEF ShimFields
  <2>4. PICK call \in Calls : line = Clangd!Argv(call)
    BY <1>2, <2>1, <2>2, <2>3 DEF ShimFields
  <2>5. \A c \in Calls : line = Clangd!Argv(c) =>
          Len(line) = Len(c) + 1 /\ Len(c) \in Nat /\ (Clangd!Known(c) => ReadSoFar(c, job.word, job.skip))
    BY <2>1, <2>2, WordsAre DEF LineIsRead
  <2>6. job.word \in Nat /\ 2 <= job.word /\ job.skip \in BOOLEAN
    BY <2>2 DEF ShimFields
  <2>7. CASE Clangd!PassWord
    <3> DEFINE next == ~job.skip /\ line[job.word] \in Clangd!VALUE_TAKING_FLAGS
    <3>1. /\ job.word <= Len(line) /\ ~Clangd!IsUnit(line[job.word], job.skip)
          /\ job' = [job EXCEPT !.word = @ + 1, !.skip = next]
      BY <2>1, <2>7 DEF Clangd!PassWord, Clangd!InWords, Clangd!Word, Clangd!Line
    <3>2. next \in BOOLEAN
      OBVIOUS
    <3>3. ASSUME NEW c \in Calls, line = Clangd!Argv(c), Clangd!Known(c)
          PROVE  ReadSoFar(c, job.word + 1, next)
      <4>1. job.word <= Len(c) + 1 /\ ReadSoFar(c, job.word, job.skip)
        BY <2>5, <3>1, <3>3
      <4>2. QED
        BY <2>6, <3>1, <3>2, <3>3, <4>1, NextWord
    <3> HIDE DEF next
    <3>4. /\ DOMAIN job' = DOMAIN job /\ job'.kind = job.kind /\ job'.from = job.from
          /\ job'.lines = job.lines /\ job'.at = job.at /\ job'.word = job.word + 1
          /\ job'.skip = next /\ job'.db = job.db /\ job'.state = job.state
      BY <1>0, <3>1 DEF DatabaseFields
    <3>5. DatabaseFields'
      BY <1>0, <3>4 DEF DatabaseFields
    <3>6. ShimFields'
      BY <2>2, <3>2, <3>4 DEF ShimFields
    <3>7. LineIsRead'
      BY <3>3, <3>4 DEF LineIsRead
    <3>8. HasUnits(job.db, Recorded(job.lines, job.at))
      BY <2>1 DEF DatabaseInv
    <3>9. QED
      BY <3>4, <3>5, <3>6, <3>7, <3>8 DEF DatabaseInv
  <2>8. CASE Clangd!TakeUnit
    <3> DEFINE word == line[job.word]
    <3> DEFINE path == Clangd!absolutise(Clangd!Path(FALSE, <<word>>), Clangd!BuildDir)
    <3> DEFINE entry == Clangd!Entry(Clangd!BuildDir, line, path)
    <3> DEFINE units == {e \in {entry} : Clangd!looks_like_c_compilation(e)}
    <3> DEFINE db == Clangd!AppendCompilation(job.db, entry)
    <3>1. /\ job.word <= Len(line) /\ Clangd!IsUnit(word, job.skip)
          /\ job' = Clangd!NextLine(db)
      BY <2>1, <2>8 DEF Clangd!TakeUnit, Clangd!InWords, Clangd!Word, Clangd!Line
    <3>2. word \in BuildFiles
      BY <3>1 DEF Clangd!IsUnit
    <3>3. path = Clangd!Root(<<"b", word>>)
      BY <3>2, AbsolutiseFile
    <3>4. Usable(entry)
      <4>1. line # <<>>
        BY <2>4, WordsAre
      <4>2. QED
        BY <3>3, <4>1 DEF Usable, Clangd!Entry, Clangd!BuildDir, Clangd!Root, Clangd!Path
    <3>5. ASSUME NEW c \in Calls, line = Clangd!Argv(c), Clangd!Known(c)
          PROVE  UnitOf(c) = units
      <4>1. job.word <= Len(c) + 1 /\ ReadSoFar(c, job.word, job.skip)
        BY <2>5, <3>1, <3>5
      <4>2. Clangd!FilesOf(c) # {} /\ Clangd!Source(c) = word
        BY <2>6, <3>1, <3>5, <4>1, UnitIsSource
      <4>3. Clangd!Entry(Clangd!BuildDir, Clangd!Argv(c), Clangd!Root(<<"b", Clangd!Source(c)>>)) = entry
        BY <3>3, <3>5, <4>2
      <4> HIDE DEF entry
      <4>4. QED
        BY <4>2, <4>3 DEF UnitOf
    <3> HIDE DEF entry
    <3>6. IsDatabase(db) /\ Clangd!ToSet(db) = Clangd!ToSet(job.db) \cup units
      <4>1. IsDatabase(job.db)
        BY <1>0 DEF DatabaseFields
      <4>2. CASE Clangd!looks_like_c_compilation(entry)
        BY <3>4, <4>1, <4>2, NewIsAppended DEF Clangd!AppendCompilation
      <4>3. CASE ~Clangd!looks_like_c_compilation(entry)
        BY <4>1, <4>3 DEF Clangd!AppendCompilation
      <4>4. QED
        BY <4>2, <4>3
    <3> HIDE DEF units, db, line
    <3>7. QED
      BY <2>1, <2>4, <3>1, <3>5, <3>6, LineIsLeft DEF line
  <2>9. CASE Clangd!NoUnit
    <3>1. job.word > Len(line) /\ job' = Clangd!NextLine(job.db)
      BY <2>1, <2>9 DEF Clangd!NoUnit
    <3>2. ASSUME NEW c \in Calls, line = Clangd!Argv(c), Clangd!Known(c)
          PROVE  UnitOf(c) = {}
      <4>1. job.word > Len(c) + 1 /\ ReadSoFar(c, job.word, job.skip)
        BY <2>5, <3>1, <3>2
      <4>2. Clangd!FilesOf(c) = {}
        BY <2>6, <4>1, NoSource
      <4>3. QED
        BY <4>2 DEF UnitOf
    <3>3. IsDatabase(job.db) /\ Clangd!ToSet(job.db) = Clangd!ToSet(job.db) \cup {}
      BY <1>0 DEF DatabaseFields
    <3>4. QED
      BY <2>1, <3>1, <3>2, <3>3, LineIsLeft
  <2>10. QED
    BY <1>2, <2>7, <2>8, <2>9
<1>3. CASE Clangd!PassWord \/ Clangd!TakeUnit \/ Clangd!NoUnit
  <2>1. Clangd!Reading("shim") /\ Clangd!Line # Clangd!Garbled
    BY <1>3 DEF Clangd!PassWord, Clangd!TakeUnit, Clangd!NoUnit, Clangd!InWords
  <2>2. QED
    BY <1>2, <1>3, <2>1
<1>4. CASE Clangd!NormaliseEntry
  <2> DEFINE db == IF Clangd!looks_like_c_compilation(Clangd!Line)
                   THEN Clangd!AppendNew(job.db, Clangd!Normalised(Clangd!Line)) ELSE job.db
  <2>1. job.from = "bear" /\ job.state = "reading" /\ job' = Clangd!NextLine(db)
    BY <1>4 DEF Clangd!NormaliseEntry, Clangd!Reading
  <2>2. IsDatabase(job.db)
    BY <1>0 DEF DatabaseFields
  <2>3. IsDatabase(db)
    <3>1. CASE Clangd!looks_like_c_compilation(Clangd!Line)
      <4>1. Usable(Clangd!Normalised(Clangd!Line))
        BY <3>1 DEF Usable, Clangd!Normalised, Clangd!looks_like_c_compilation, Clangd!Entry,
           Clangd!absolutise, Clangd!Root, Clangd!Path
      <4>2. QED
        BY <2>2, <3>1, <4>1, NewIsAppended
    <3>2. CASE ~Clangd!looks_like_c_compilation(Clangd!Line)
      BY <2>2, <3>2
    <3>3. QED
      BY <3>1, <3>2
  <2> HIDE DEF db
  <2>4. /\ DOMAIN job' = DOMAIN job /\ job'.kind = job.kind /\ job'.from = job.from
        /\ job'.db = db /\ job'.state = job.state
    BY <1>0, <2>1 DEF Clangd!NextLine, DatabaseFields
  <2>5. QED
    BY <1>0, <2>1, <2>3, <2>4 DEF DatabaseInv, DatabaseFields
<1>5. CASE Clangd!Write
  <2> DEFINE state == IF job.db = <<>> THEN "left" ELSE "written"
  <2>1. job' = [job EXCEPT !.state = state] /\ (state = "written" => job.db # <<>>)
    BY <1>5 DEF Clangd!Write
  <2> HIDE DEF state
  <2>2. /\ DOMAIN job' = DOMAIN job /\ job'.kind = job.kind /\ job'.from = job.from
        /\ job'.lines = job.lines /\ job'.at = job.at /\ job'.word = job.word
        /\ job'.skip = job.skip /\ job'.db = job.db /\ job'.state = state
    BY <1>0, <2>1 DEF DatabaseFields
  <2>3. DatabaseFields'
    BY <1>0, <2>1, <2>2 DEF DatabaseFields
  <2>4. CASE job.from = "bear"
    BY <2>2, <2>3, <2>4 DEF DatabaseInv
  <2>5. CASE job.from = "shim"
    <3>1. ShimFields' /\ LineIsRead'
      BY <1>0, <2>2, <2>5 DEF ShimFields, LineIsRead
    <3>2. HasUnits(job.db, Recorded(job.lines, job.at))
      BY <2>5 DEF DatabaseInv
    <3>3. QED
      BY <2>2, <2>3, <3>1, <3>2 DEF DatabaseInv
  <2>6. QED
    BY <1>0, <2>4, <2>5 DEF DatabaseFields
<1>6. CASE Clangd!WalkLine \/ Clangd!Verdict
  BY <1>0, <1>6 DEF Clangd!WalkLine, Clangd!Verdict, DatabaseFields
<1>7. QED
  BY <1>1, <1>3, <1>4, <1>5, <1>6 DEF Clangd!Next

LEMMA DatabaseInvSuffices ==
    DatabaseInv => Clangd!EveryUnitOnce /\ Clangd!WrittenIsUsable /\ Clangd!AcceptedIsRead
<1> SUFFICES ASSUME DatabaseInv PROVE Clangd!EveryUnitOnce /\ Clangd!WrittenIsUsable /\ Clangd!AcceptedIsRead
  OBVIOUS
<1>1. DatabaseFields
  BY DEF DatabaseInv
<1>2. Clangd!IsInjective(job.db) /\ \A e \in Clangd!ToSet(job.db) : Usable(e)
  BY <1>1 DEF DatabaseFields, IsDatabase
<1>3. Clangd!EveryUnitOnce
  BY <1>2 DEF DatabaseInv, HasUnits, Recorded, Clangd!EveryUnitOnce
<1>4. Clangd!WrittenIsUsable
  BY <1>1, <1>2, UsableIsAccepted DEF DatabaseFields, Clangd!WrittenIsUsable
<1>5. Clangd!AcceptedIsRead
  BY <1>1 DEF DatabaseFields, Clangd!AcceptedIsRead
<1>6. QED
  BY <1>3, <1>4, <1>5

-----------------------------------------------------------------------------
(* A configuration that is checked. *)

\* What the walk has seen: the lines before are in the block, an entry among them ends it, and
\* a child that is found is one of them.
WalkedSoFar(lines, at, direct, child) ==
    /\ \A k \in 1 .. at - 1 : lines[k].is = "comment" \/ lines[k].indent > 0
    /\ ~direct => \A k \in 1 .. at - 1 : ~(lines[k].indent = 2 /\ lines[k].is = "item")
    /\ child => \E k \in 1 .. at - 1 : Clangd!IsChild(lines[k])

\* A line that is generated takes nothing away and is in the block, and no entry stands where
\* a key should.
Harmless(line) ==
    /\ line.is = "comment" \/ line.indent > 0
    /\ ~(line.indent = 2 /\ line.is = "item")
    /\ "-nostdinc" \notin line.says
    /\ ~Clangd!Globs(line)

\* The lines have a child key in a place, all that is wanted, and are harmless.
ReadsWell(lines, key) ==
    /\ key \in 1 .. Len(lines) /\ Clangd!IsChild(lines[key])
    /\ \A k \in 1 .. Len(lines) : Harmless(lines[k])
    /\ \A text \in Clangd!Wanted : \E k \in 1 .. Len(lines) : text \in lines[k].says

LEMMA GeneratedIs ==
    ASSUME NEW n \in 0 .. 2
    PROVE  (\E T : Clangd!Generated(n) \in Seq(T)) /\ ReadsWell(Clangd!Generated(n), 3)
<1> DEFINE head == <<Clangd!ConfigLine(2, "comment", {}), Clangd!ConfigLine(2, "scalar", {}),
                     Clangd!ConfigLine(2, "key", {}), Clangd!ConfigLine(4, "item", {"--target="}),
                     Clangd!ConfigLine(4, "item", {"-nostdlibinc"})>>
<1> DEFINE includes == [i \in 1 .. n |-> Clangd!ConfigLine(4, "item", {"-I"})]
<1> DEFINE remove == <<Clangd!ConfigLine(2, "comment", {"-W*"}), Clangd!ConfigLine(2, "key", {})>>
<1> DEFINE flags == <<Clangd!ConfigLine(4, "item", {"-fconserve-stack"}),
                      Clangd!ConfigLine(4, "item", {"-mpreferred-stack-boundary=*"})>>
<1> DEFINE S == {head[1], head[2], head[3], head[4], head[5], Clangd!ConfigLine(4, "item", {"-I"}),
                 remove[1], remove[2], flags[1], flags[2]}
<1>1. Clangd!Generated(n) = ((head \o includes) \o remove) \o flags
  BY DEF Clangd!Generated
<1>2. /\ head \in Seq(S) /\ Len(head) = 5
      /\ includes \in Seq(S) /\ Len(includes) = n
      /\ remove \in Seq(S) /\ Len(remove) = 2
      /\ flags \in Seq(S) /\ Len(flags) = 2 /\ n \in Nat
  OBVIOUS
<1>3. \A line \in S : Harmless(line)
  BY DEF Harmless, Clangd!Globs, Clangd!ConfigLine
<1>4. /\ Clangd!IsChild(head[3])
      /\ "--target=" \in head[4].says /\ "-nostdlibinc" \in head[5].says
      /\ "-fconserve-stack" \in flags[1].says /\ "-mpreferred-stack-boundary=*" \in flags[2].says
  BY DEF Clangd!IsChild, Clangd!ConfigLine
<1> DEFINE begin == head \o includes
<1> DEFINE most == begin \o remove
<1> DEFINE all == most \o flags
<1> HIDE DEF head, includes, remove, flags, S
<1>5. IsJoined(S, head, includes, begin)
  BY <1>2, Joined
<1>6. begin \in Seq(S)
  BY <1>5 DEF IsJoined
<1> HIDE DEF begin
<1>7. IsJoined(S, begin, remove, most)
  BY <1>2, <1>6, Joined
<1>8. most \in Seq(S)
  BY <1>7 DEF IsJoined
<1> HIDE DEF most
<1>9. IsJoined(S, most, flags, all)
  BY <1>2, <1>8, Joined
<1> HIDE DEF all
<1>10. /\ all \in Seq(S) /\ Len(begin) = 5 + n /\ Len(most) = 7 + n /\ Len(all) = 9 + n
  BY <1>2, <1>5, <1>7, <1>9 DEF IsJoined
<1>11. /\ all[3] = head[3] /\ all[4] = head[4] /\ all[5] = head[5]
  <2>1. ASSUME NEW k \in 1 .. 5 PROVE all[k] = head[k]
    <3>1. k \in 1 .. Len(head) /\ k \in 1 .. Len(begin) /\ k \in 1 .. Len(most)
      BY <1>2, <1>10
    <3>2. QED
      BY <1>5, <1>7, <1>9, <3>1 DEF IsJoined
  <2>2. 3 \in 1 .. 5 /\ 4 \in 1 .. 5 /\ 5 \in 1 .. 5
    OBVIOUS
  <2>3. QED
    BY <2>1, <2>2
<1>12. all[Len(most) + 1] = flags[1] /\ all[Len(most) + 2] = flags[2]
  <2>1. 1 \in 1 .. Len(flags) /\ 2 \in 1 .. Len(flags)
    BY <1>2
  <2>2. QED
    BY <1>9, <2>1 DEF IsJoined
<1>13. \A text \in Clangd!Wanted : \E k \in 1 .. Len(all) : text \in all[k].says
  <2>1. /\ 4 \in 1 .. Len(all) /\ 5 \in 1 .. Len(all)
        /\ Len(most) + 1 \in 1 .. Len(all) /\ Len(most) + 2 \in 1 .. Len(all)
    BY <1>2, <1>10
  <2>2. \A text \in Clangd!Wanted : text \in {"--target=", "-nostdlibinc", "-fconserve-stack",
                                               "-mpreferred-stack-boundary=*"}
    BY DEF Clangd!Wanted, Clangd!GCC_ONLY_FLAG_BLACKLIST
  <2>3. QED
    BY <1>4, <1>11, <1>12, <2>1, <2>2
<1>14. ReadsWell(all, 3)
  <2>1. 3 \in 1 .. Len(all) /\ \A k \in 1 .. Len(all) : all[k] \in S
    BY <1>2, <1>10
  <2>2. QED
    BY <1>3, <1>4, <1>11, <1>13, <2>1 DEF ReadsWell
<1>15. QED
  BY <1>1, <1>10, <1>14 DEF all, most, begin

ConfigInv ==
    /\ {"kind", "flags", "lines", "generated", "at", "direct", "child", "state", "problems"}
         \subseteq DOMAIN job
    /\ job.kind = "clangd" /\ \E T : job.lines \in Seq(T)
    /\ job.at \in Nat /\ 1 <= job.at /\ job.at <= Len(job.lines) + 1
    /\ WalkedSoFar(job.lines, job.at, job.direct, job.child)
    /\ job.generated => job.flags /\ ~job.direct
                        /\ \E key \in Nat : ReadsWell(job.lines, key)
                                           /\ (job.at > key => job.child)
    /\ Clangd!AcceptedIsRead

\* The walk begins at the first line.
LEMMA CheckBegins ==
    ASSUME NEW flags, NEW lines, NEW generated, NEW T, lines \in Seq(T),
           job = Clangd!Check(flags, lines, generated),
           generated => flags /\ ReadsWell(lines, 3)
    PROVE  ConfigInv
<1>1. /\ job.kind = "clangd" /\ job.flags = flags /\ job.lines = lines /\ job.generated = generated
      /\ job.at = 1 /\ job.direct = FALSE /\ job.child = FALSE /\ job.state = "walking"
      /\ DOMAIN job = {"kind", "flags", "lines", "generated", "at", "direct", "child", "state", "problems"}
  BY DEF Clangd!Check
<1>2. WalkedSoFar(job.lines, job.at, job.direct, job.child)
  BY <1>1 DEF WalkedSoFar
<1>3. Clangd!AcceptedIsRead
  BY <1>1 DEF Clangd!AcceptedIsRead
<1>4. \E U : job.lines \in Seq(U)
  BY <1>1
<1>5. job.generated => job.flags /\ ~job.direct
                        /\ \E key \in Nat : ReadsWell(job.lines, key)
                                           /\ (job.at > key => job.child)
  <2>1. 3 \in Nat /\ ~(1 > 3)
    OBVIOUS
  <2>2. QED
    BY <1>1, <2>1
<1>6. 1 <= Len(job.lines) + 1
  BY <1>1
<1>7. QED
  BY <1>1, <1>2, <1>3, <1>4, <1>5, <1>6 DEF ConfigInv

LEMMA ConfigBegins == Clangd!ClangdInit => ConfigInv
<1> SUFFICES ASSUME Clangd!ClangdInit PROVE ConfigInv
  OBVIOUS
<1>1. ASSUME NEW n \in 0 .. 2, job = Clangd!Check(TRUE, Clangd!Generated(n), TRUE)
      PROVE  ConfigInv
  BY <1>1, GeneratedIs, CheckBegins
<1>2. ASSUME NEW flags \in BOOLEAN, NEW lines \in Clangd!SeqOf(ConfigLines, MaxConfigLines),
             job = Clangd!Check(flags, lines, FALSE)
      PROVE  ConfigInv
  <2>1. PICK m \in 0 .. MaxConfigLines : lines \in [1 .. m -> ConfigLines]
    BY DEF Clangd!SeqOf
  <2>2. lines \in Seq(ConfigLines)
    BY <2>1
  <2>3. QED
    BY <1>2, <2>2, CheckBegins
<1>3. QED
  BY <1>1, <1>2, Zenon DEF Clangd!ClangdInit

LEMMA WalkKeeps == ConfigInv /\ Clangd!WalkLine => ConfigInv'
<1> SUFFICES ASSUME ConfigInv, Clangd!WalkLine PROVE ConfigInv'
  OBVIOUS
<1> DEFINE line == job.lines[job.at]
<1> DEFINE child == job.child \/ Clangd!IsChild(line)
<1> DEFINE direct == line.indent = 2 /\ line.is = "item"
<1>1. /\ job.flags /\ job.at <= Len(job.lines) /\ ~job.direct
      /\ line.is = "comment" \/ line.indent > 0
      /\ job' = [job EXCEPT !.at = @ + 1, !.child = child, !.direct = direct]
      /\ job.state = "walking"
  BY DEF Clangd!WalkLine, Clangd!InBlock
<1>2. /\ job.at \in Nat /\ 1 <= job.at /\ WalkedSoFar(job.lines, job.at, job.direct, job.child)
      /\ {"kind", "flags", "lines", "generated", "at", "direct", "child", "state", "problems"}
           \subseteq DOMAIN job
  BY DEF ConfigInv
<1>3. WalkedSoFar(job.lines, job.at + 1, direct, child)
  <2>1. \A k \in 1 .. (job.at + 1) - 1 : k \in 1 .. job.at - 1 \/ k = job.at
    BY <1>2
  <2>2. job.at \in 1 .. (job.at + 1) - 1 /\ \A k \in 1 .. job.at - 1 : k \in 1 .. (job.at + 1) - 1
    BY <1>2
  <2>3. QED
    BY <1>1, <1>2, <2>1, <2>2 DEF WalkedSoFar
<1>4. ASSUME NEW key \in Nat, ReadsWell(job.lines, key), job.at > key => job.child
      PROVE  job.at + 1 > key => child
  <2>1. job.at = key => Clangd!IsChild(line)
    BY <1>4 DEF ReadsWell
  <2>2. QED
    BY <1>2, <1>4, <2>1
<1>10. job.generated => ~direct
  <2> SUFFICES ASSUME job.generated PROVE ~direct
    OBVIOUS
  <2>1. PICK key \in Nat : ReadsWell(job.lines, key)
    BY DEF ConfigInv
  <2>2. job.at \in 1 .. Len(job.lines)
    BY <1>1, <1>2, <2>1 DEF ConfigInv
  <2>3. QED
    BY <2>1, <2>2 DEF ReadsWell, Harmless
<1> HIDE DEF child, direct
<1>5. /\ DOMAIN job' = DOMAIN job /\ job'.kind = job.kind /\ job'.flags = job.flags
      /\ job'.lines = job.lines /\ job'.generated = job.generated /\ job'.at = job.at + 1
      /\ job'.direct = direct /\ job'.child = child /\ job'.state = job.state
  BY <1>1, <1>2
<1>6. Clangd!AcceptedIsRead'
  BY <1>1, <1>5 DEF Clangd!AcceptedIsRead
<1>7. \E T : job'.lines \in Seq(T)
  BY <1>5 DEF ConfigInv
<1>8. job'.generated => job'.flags /\ ~job'.direct
                         /\ \E key \in Nat : ReadsWell(job'.lines, key)
                                            /\ (job'.at > key => job'.child)
  BY <1>1, <1>4, <1>5, <1>10 DEF ConfigInv
<1>9. job'.at <= Len(job'.lines) + 1
  <2>1. Len(job.lines) \in Nat
    BY DEF ConfigInv
  <2>2. QED
    BY <1>1, <1>2, <1>5, <2>1
<1>11. QED
  BY <1>2, <1>3, <1>5, <1>6, <1>7, <1>8, <1>9 DEF ConfigInv

LEMMA VerdictKeeps == ConfigInv /\ Clangd!Verdict => ConfigInv'
<1> SUFFICES ASSUME ConfigInv, Clangd!Verdict PROVE ConfigInv'
  OBVIOUS
<1> DEFINE problems ==
            (IF ~job.flags THEN {"no CompileFlags"} ELSE {})
            \cup (IF job.direct THEN {"a sequence"} ELSE {})
            \cup (IF job.flags /\ ~job.child THEN {"no child key"} ELSE {})
            \cup (Clangd!Wanted \ Clangd!Mentioned)
            \cup (IF "-nostdinc" \in Clangd!Mentioned THEN {"-nostdinc"} ELSE {})
            \cup (IF \E line \in Clangd!ToSet(job.lines) : Clangd!Globs(line) THEN {"a wildcard"} ELSE {})
<1>1. job' = [job EXCEPT !.state = "checked", !.problems = problems] /\ ~Clangd!InBlock
  BY DEF Clangd!Verdict
<1>2. problems = {} <=>
        /\ job.flags /\ ~job.direct /\ job.child
        /\ Clangd!Wanted \subseteq Clangd!Mentioned
        /\ "-nostdinc" \notin Clangd!Mentioned
        /\ \A line \in Clangd!ToSet(job.lines) : ~Clangd!Globs(line)
  OBVIOUS
<1> HIDE DEF problems
<1>3. /\ job.at \in Nat /\ 1 <= job.at /\ job.at <= Len(job.lines) + 1
      /\ WalkedSoFar(job.lines, job.at, job.direct, job.child)
      /\ {"kind", "flags", "lines", "generated", "at", "direct", "child", "state", "problems"}
           \subseteq DOMAIN job
  BY DEF ConfigInv
<1>4. /\ DOMAIN job' = DOMAIN job /\ job'.kind = job.kind /\ job'.flags = job.flags
      /\ job'.lines = job.lines /\ job'.generated = job.generated /\ job'.at = job.at
      /\ job'.direct = job.direct /\ job'.child = job.child /\ job'.problems = problems
  BY <1>1, <1>3
<1>5. PICK T : job.lines \in Seq(T)
  BY DEF ConfigInv
<1>6. Len(job.lines) \in Nat /\ DOMAIN job.lines = 1 .. Len(job.lines)
  BY <1>5
<1>7. ASSUME problems = {}
      PROVE  /\ job.flags
             /\ \E line \in Clangd!Block : line.indent = 2 /\ line.is = "key"
             /\ \A line \in Clangd!Block : line.indent = 2 => line.is # "item"
             /\ \A line \in Clangd!ToSet(job.lines) :
                  "-nostdinc" \notin line.says /\ (line.is = "item" => "-W*" \notin line.says)
  <2>1. /\ job.flags /\ ~job.direct /\ job.child
        /\ "-nostdinc" \notin Clangd!Mentioned
        /\ \A line \in Clangd!ToSet(job.lines) : ~Clangd!Globs(line)
    BY <1>2, <1>7
  <2>2. job.at > Len(job.lines)
        \/ ~(job.lines[job.at].is = "comment" \/ job.lines[job.at].indent > 0)
    BY <1>1, <1>3, <1>6, <2>1 DEF Clangd!InBlock
  <2>3. \E line \in Clangd!Block : line.indent = 2 /\ line.is = "key"
    <3>1. PICK k \in 1 .. job.at - 1 : Clangd!IsChild(job.lines[k])
      BY <1>3, <2>1 DEF WalkedSoFar
    <3>2. \A j \in 1 .. k : j \in 1 .. job.at - 1
      BY <1>3
    <3>3. \A j \in 1 .. k : job.lines[j].is = "comment" \/ job.lines[j].indent > 0
      BY <1>3, <3>2 DEF WalkedSoFar
    <3>4. k \in DOMAIN job.lines
      BY <1>3, <1>6, <3>1
    <3>5. QED
      BY <3>1, <3>3, <3>4 DEF Clangd!Block, Clangd!IsChild
  <2>4. \A line \in Clangd!Block : line.indent = 2 => line.is # "item"
    <3> SUFFICES ASSUME NEW i \in DOMAIN job.lines,
                        \A k \in 1 .. i : job.lines[k].is = "comment" \/ job.lines[k].indent > 0,
                        job.lines[i].indent = 2, job.lines[i].is = "item"
                 PROVE  FALSE
      BY DEF Clangd!Block
    <3>1. CASE i < job.at
      <4>1. i \in 1 .. job.at - 1
        BY <1>3, <1>6, <3>1
      <4>2. QED
        BY <1>3, <2>1, <4>1 DEF WalkedSoFar
    <3>2. CASE i >= job.at
      <4>1. job.at \in 1 .. i /\ ~(job.at > Len(job.lines))
        BY <1>3, <1>6, <3>2
      <4>2. QED
        BY <2>2, <4>1
    <3>3. QED
      BY <1>3, <1>6, <3>1, <3>2
  <2>5. \A line \in Clangd!ToSet(job.lines) :
          "-nostdinc" \notin line.says /\ (line.is = "item" => "-W*" \notin line.says)
    BY <2>1 DEF Clangd!Mentioned, Clangd!Globs
  <2>6. QED
    BY <2>1, <2>3, <2>4, <2>5
<1>8. ASSUME job.generated PROVE problems = {}
  <2>1. PICK key \in Nat : ReadsWell(job.lines, key) /\ (job.at > key => job.child)
    BY <1>8 DEF ConfigInv
  <2>2. job.flags /\ ~job.direct
    BY <1>8 DEF ConfigInv
  <2>3. job.at > Len(job.lines)
    <3> SUFFICES ASSUME job.at <= Len(job.lines) PROVE FALSE
      BY <1>3, <1>6
    <3>1. job.at \in 1 .. Len(job.lines)
      BY <1>3, <1>6
    <3>2. job.lines[job.at].is = "comment" \/ job.lines[job.at].indent > 0
      BY <2>1, <3>1 DEF ReadsWell, Harmless
    <3>3. QED
      BY <1>1, <2>2, <3>2 DEF Clangd!InBlock
  <2>4. job.child
    BY <1>3, <1>6, <2>1, <2>3 DEF ReadsWell
  <2>5. \A line \in Clangd!ToSet(job.lines) : Harmless(line)
    BY <1>6, <2>1 DEF Clangd!ToSet, ReadsWell
  <2>6. Clangd!Wanted \subseteq Clangd!Mentioned
    BY <1>6, <2>1 DEF Clangd!ToSet, Clangd!Mentioned, ReadsWell
  <2>7. QED
    BY <1>2, <2>2, <2>4, <2>5, <2>6 DEF Clangd!Mentioned, Harmless
<1>9. Clangd!AcceptedIsRead'
  <2>1. Clangd!Block' = Clangd!Block
    BY <1>4 DEF Clangd!Block
  <2>2. QED
    BY <1>4, <1>7, <1>8, <2>1 DEF Clangd!AcceptedIsRead
<1>10. job'.generated => job'.flags /\ ~job'.direct
                          /\ \E key \in Nat : ReadsWell(job'.lines, key)
                                             /\ (job'.at > key => job'.child)
  BY <1>4 DEF ConfigInv
<1>11. QED
  BY <1>3, <1>4, <1>5, <1>9, <1>10 DEF ConfigInv

-----------------------------------------------------------------------------
(* Both. *)

ClangdInv ==
    /\ HasKind
    /\ job.kind = "database" => DatabaseInv
    /\ job.kind = "clangd" => ConfigInv

LEMMA ClangdBegins == Clangd!Init => DatabaseInv \/ ConfigInv
BY ShimBegins, BearBegins, ConfigBegins DEF Clangd!Init

LEMMA ConfigKeeps == ConfigInv /\ Clangd!Next => ConfigInv'
<1> SUFFICES ASSUME ConfigInv, Clangd!Next PROVE ConfigInv'
  OBVIOUS
<1>1. job.kind # "database"
  BY DEF ConfigInv
<1>2. Clangd!WalkLine \/ Clangd!Verdict
  BY <1>1 DEF Clangd!Next, Clangd!SkipLine, Clangd!PassWord, Clangd!TakeUnit, Clangd!NoUnit,
     Clangd!NormaliseEntry, Clangd!Write, Clangd!Reading, Clangd!InWords
<1>3. QED
  BY <1>2, WalkKeeps, VerdictKeeps

LEMMA ConfigInvSuffices ==
    ConfigInv => Clangd!EveryUnitOnce /\ Clangd!WrittenIsUsable /\ Clangd!AcceptedIsRead
BY DEF ConfigInv, Clangd!EveryUnitOnce, Clangd!WrittenIsUsable

LEMMA ClangdInvSuffices == ClangdInv => Clangd!ClangdIsServed
<1> SUFFICES ASSUME ClangdInv PROVE Clangd!ClangdIsServed
  OBVIOUS
<1>1. CASE job.kind = "database"
  BY <1>1, DatabaseInvSuffices DEF ClangdInv, Clangd!ClangdIsServed
<1>2. CASE job.kind = "clangd"
  BY <1>2, ConfigInvSuffices DEF ClangdInv, Clangd!ClangdIsServed
<1>3. CASE job.kind \notin {"database", "clangd"}
  BY <1>3 DEF Clangd!ClangdIsServed, Clangd!EveryUnitOnce, Clangd!WrittenIsUsable,
     Clangd!AcceptedIsRead
<1>4. QED
  BY <1>1, <1>2, <1>3

\* Whatever calls the shim or bear recorded, and whatever the lines of a .clangd (clangd.rs):
\* the database has each compilation of a known call once, under its source, in entries that
\* the code's own check accepts, and a configuration that is accepted is one clangd reads.
THEOREM ClangdStaysServed == Spec => []Clangd!ClangdIsServed
<1>1. Init => ClangdInv
  <2> SUFFICES ASSUME Init PROVE ClangdInv
    OBVIOUS
  <2>1. HasKind /\ (job.kind \in {"database", "clangd"} => DatabaseInv \/ ConfigInv)
    BY JobsStart, ClangdBegins
  <2>2. (DatabaseInv => job.kind = "database") /\ (ConfigInv => job.kind = "clangd")
    BY DEF DatabaseInv, DatabaseFields, ConfigInv
  <2>3. QED
    BY <2>1, <2>2 DEF ClangdInv
<1>2. ClangdInv /\ [Next]_job => ClangdInv'
  <2> SUFFICES ASSUME ClangdInv, [Next]_job PROVE ClangdInv'
    OBVIOUS
  <2>1. HasKind' /\ job'.kind = job.kind
        /\ (job.kind \in {"database", "clangd"} => [Clangd!Next]_job)
    BY JobsStay DEF ClangdInv
  <2>2. CASE UNCHANGED job
    <3>1. DatabaseInv => DatabaseInv'
      BY <2>2 DEF DatabaseInv, DatabaseFields, ShimFields, LineIsRead
    <3>2. ConfigInv => ConfigInv'
      BY <2>2 DEF ConfigInv, Clangd!AcceptedIsRead, Clangd!Block
    <3>3. QED
      BY <2>1, <3>1, <3>2 DEF ClangdInv
  <2>3. CASE job.kind \in {"database", "clangd"} /\ Clangd!Next
    BY <2>1, <2>3, DatabaseKeeps, ConfigKeeps DEF ClangdInv
  <2>4. CASE job.kind \notin {"database", "clangd"}
    BY <2>1, <2>4 DEF ClangdInv
  <2>5. QED
    BY <2>1, <2>2, <2>3, <2>4
<1>3. QED
  BY <1>1, <1>2, ClangdInvSuffices, PTL DEF Spec

\* So the tools that are reported, and what clangd is given, are true (toolchain.rs, backend.rs
\* of princess-build, clangd.rs).
THEOREM ToolsStayTruthful == Spec => []ToolsAreTruthful
<1>1. Tools!ToolsAreTruthful /\ Clangd!ClangdIsServed => ToolsAreTruthful
  BY DEF ToolsAreTruthful
<1>2. QED
  BY <1>1, BuildToolsStayTruthful, ClangdStaysServed, PTL

-----------------------------------------------------------------------------
(* The project's files. *)

\* What was looked at decides, and whoever edits the manifest does so once.
OpenInv ==
    /\ {"kind", "dir", "manifest", "makefile", "pc", "changed", "result", "targets", "saw",
        "read"} \subseteq DOMAIN job
    /\ job.pc \in {"look", "load", "default", "done"}
    /\ job.pc \in {"look", "load", "default"} => job.result = "none"
    /\ job.pc = "load" => job.saw # "absent" /\ (~ job.changed => job.saw = job.manifest)
    /\ job.pc = "default" => job.saw = "absent" /\ (~ job.changed => job.saw = job.manifest)
    /\ Project!NothingIsGuessed

LEMMA OpenKeeps == HasKind /\ job.kind = "open" /\ OpenInv /\ Project!Next => OpenInv'
<1> SUFFICES ASSUME HasKind, job.kind = "open", OpenInv, Project!Next PROVE OpenInv'
  OBVIOUS
<1> USE DEF OpenInv, Project!NothingIsGuessed
<1>1. CASE Project!LookForManifest
  BY <1>1 DEF Project!LookForManifest
<1>2. CASE Project!Load
  BY <1>2 DEF Project!Load, Project!Accepted, Project!Refuse
<1>3. CASE Project!SynthesiseDefaults
  BY <1>3 DEF Project!SynthesiseDefaults, Project!Refuse
<1>4. CASE Project!ManifestChanges
  BY <1>4 DEF Project!ManifestChanges
<1>5. CASE Project!LoadFromFile \/ Project!EndOfDir
  BY <1>5 DEF Project!LoadFromFile, Project!EndOfDir
<1>6. QED
  BY <1>1, <1>2, <1>3, <1>4, <1>5 DEF Project!Next

\* The languages loaded are the TOML files before the one that is read, all different.
LoadedId(k) == job.files[job.loaded[k]].id

LanguagesInv ==
    /\ {"kind", "files", "at", "loaded", "adapters", "state"} \subseteq DOMAIN job
    /\ job.at \in Nat \ {0}
    /\ \E n \in Nat : DOMAIN job.files = 1 .. n /\ Len(job.files) = n
    /\ job.loaded \in Seq(1 .. job.at - 1)
    /\ \A k \in 1 .. job.at - 1 :
          k \in DOMAIN job.files /\ (job.files[k].toml <=> \E i \in DOMAIN job.loaded : job.loaded[i] = k)
    /\ \A i, j \in DOMAIN job.loaded : LoadedId(i) = LoadedId(j) => i = j
    /\ \A i \in DOMAIN job.loaded : Project!IsValid(job.files[job.loaded[i]])
    /\ job.adapters = {"c"} \cap {LoadedId(i) : i \in DOMAIN job.loaded}
    /\ job.state = "done" => job.at > Len(job.files)

LEMMA LanguagesInvSuffices == LanguagesInv => Project!LanguagesAreDistinct
<1> SUFFICES ASSUME LanguagesInv PROVE Project!LanguagesAreDistinct
  OBVIOUS
<1>1. DOMAIN job.loaded = 1 .. Len(job.loaded) /\ \A i \in DOMAIN job.loaded : job.loaded[i] \in 1 .. job.at - 1
  BY DEF LanguagesInv
<1>2. Project!IsInjective([i \in DOMAIN job.loaded |-> job.files[job.loaded[i]].id])
  BY DEF LanguagesInv, LoadedId, Project!IsInjective
<1>3. \A k \in Project!ToSet(job.loaded) : job.files[k].toml /\ Project!IsValid(job.files[k])
  BY <1>1 DEF LanguagesInv, Project!ToSet
<1>4. job.adapters = {"c"} \cap {job.files[k].id : k \in Project!ToSet(job.loaded)}
  <2>1. {job.files[k].id : k \in Project!ToSet(job.loaded)} = {LoadedId(i) : i \in DOMAIN job.loaded}
    BY DEF Project!ToSet, LoadedId
  <2>2. QED
    BY <2>1 DEF LanguagesInv
<1>5. ASSUME job.state = "done"
      PROVE  Project!ToSet(job.loaded) = {k \in DOMAIN job.files : job.files[k].toml}
  <2>1. \A k \in DOMAIN job.files : k \in 1 .. job.at - 1
    BY <1>5 DEF LanguagesInv
  <2>2. \A k \in DOMAIN job.files :
          job.files[k].toml <=> \E i \in DOMAIN job.loaded : job.loaded[i] = k
    BY <2>1 DEF LanguagesInv
  <2>3. \A i \in DOMAIN job.loaded : job.loaded[i] \in DOMAIN job.files
    BY <1>1 DEF LanguagesInv
  <2>4. QED
    BY <2>2, <2>3 DEF Project!ToSet
<1>6. QED
  BY <1>2, <1>3, <1>4, <1>5 DEF Project!LanguagesAreDistinct

LEMMA LanguagesStart == Project!Init /\ job.kind = "languages" => LanguagesInv
<1> SUFFICES ASSUME Project!Init, job.kind = "languages" PROVE LanguagesInv
  OBVIOUS
<1>1. \/ \E text, value, root :
           job = [kind |-> "path", text |-> text, value |-> value, root |-> root]
      \/ \E dir, manifest, makefile : job = Project!Opening(dir, manifest, makefile)
      \/ \E files \in Project!SeqOf(Project!LanguageFiles, MaxFiles) : job = Project!Languages(files)
      \/ \E provider, base, model : job = Project!Ai(provider, base, model)
      \/ \E section, keys, key, value, unknown :
           job = Project!Manifest(section, keys, key, value, unknown)
      \/ \E url : job = [kind |-> "url", url |-> url]
  BY Zenon DEF Project!Init
<1>2. PICK files \in Project!SeqOf(Project!LanguageFiles, MaxFiles) : job = Project!Languages(files)
  BY <1>1 DEF Project!Opening, Project!Ai, Project!Manifest
<1>3. PICK n \in 0 .. MaxFiles : files \in [1 .. n -> Project!LanguageFiles]
  BY DEF Project!SeqOf
<1>4. n \in Nat /\ DOMAIN files = 1 .. n /\ Len(files) = n
  BY <1>3
<1>5. /\ {"kind", "files", "at", "loaded", "adapters", "state"} \subseteq DOMAIN job
      /\ job.files = files /\ job.at = 1 /\ job.loaded = <<>> /\ job.adapters = {}
      /\ job.state = "reading"
  BY <1>2 DEF Project!Languages
<1>6. QED
  BY <1>4, <1>5 DEF LanguagesInv, LoadedId

LEMMA LanguagesKeep ==
    HasKind /\ job.kind = "languages" /\ LanguagesInv /\ Project!Next => LanguagesInv'
<1> SUFFICES ASSUME HasKind, job.kind = "languages", LanguagesInv, Project!Next
             PROVE  LanguagesInv'
  OBVIOUS
<1>1. CASE Project!EndOfDir
  <2>1. /\ job'.files = job.files /\ job'.at = job.at /\ job'.loaded = job.loaded
        /\ job'.adapters = job.adapters /\ job.at > Len(job.files) /\ DOMAIN job' = DOMAIN job
    BY <1>1 DEF Project!EndOfDir, LanguagesInv
  <2>2. QED
    BY <2>1 DEF LanguagesInv, LoadedId
<1>2. CASE Project!LoadFromFile
  <2> DEFINE file == job.files[job.at]
  <2>1. job.at <= Len(job.files) /\ job.state = "reading" /\ job.at \in DOMAIN job.files
    BY <1>2 DEF Project!LoadFromFile, LanguagesInv
  <2>2. CASE ~ file.toml
    <3>1. /\ job'.files = job.files /\ job'.at = job.at + 1 /\ job'.loaded = job.loaded
          /\ job'.adapters = job.adapters /\ job'.state = job.state /\ DOMAIN job' = DOMAIN job
      BY <1>2, <2>2 DEF Project!LoadFromFile, LanguagesInv
    <3>2. \A i \in DOMAIN job.loaded : job.loaded[i] # job.at
      BY DEF LanguagesInv
    <3>3. job.loaded \in Seq(1 .. job.at)
      BY DEF LanguagesInv
    <3>4. QED
      BY <2>1, <2>2, <3>1, <3>2, <3>3 DEF LanguagesInv, LoadedId
  <2>3. CASE file.toml /\ (~ Project!IsValid(file) \/ Project!IsDuplicate(file.id))
    <3>1. /\ job'.files = job.files /\ job'.at = job.at /\ job'.loaded = job.loaded
          /\ job'.adapters = job.adapters /\ job'.state # "done" /\ DOMAIN job' = DOMAIN job
      BY <1>2, <2>3 DEF Project!LoadFromFile, LanguagesInv
    <3>2. QED
      BY <3>1 DEF LanguagesInv, LoadedId
  <2>4. CASE file.toml /\ Project!IsValid(file) /\ ~ Project!IsDuplicate(file.id)
    <3>1. /\ job'.files = job.files /\ job'.at = job.at + 1
          /\ job'.loaded = Append(job.loaded, job.at)
          /\ job'.adapters = (IF file.id = "c" THEN job.adapters \cup {"c"} ELSE job.adapters)
          /\ job'.state = job.state /\ DOMAIN job' = DOMAIN job
      BY <1>2, <2>4 DEF Project!LoadFromFile, LanguagesInv, Project!CAdapter
    <3> DEFINE n == Len(job.loaded)
    <3>2. /\ n \in Nat /\ DOMAIN job.loaded = 1 .. n
          /\ \A i \in 1 .. n : job.loaded[i] \in 1 .. job.at - 1
      BY DEF LanguagesInv
    <3>3. /\ job'.loaded \in Seq(1 .. job.at) /\ DOMAIN job'.loaded = 1 .. n + 1
          /\ job'.loaded[n + 1] = job.at /\ \A i \in 1 .. n : job'.loaded[i] = job.loaded[i]
      BY <3>1 DEF LanguagesInv
    <3> HIDE DEF n, file
    <3> DEFINE Id(i) == job.files[job'.loaded[i]].id
    <3>4. \A i \in 1 .. n : LoadedId(i) # file.id
      BY <2>4, <3>2 DEF Project!IsDuplicate, Project!contains_key, Project!ToSet, LoadedId
    <3>5. /\ Id(n + 1) = file.id
          /\ \A i \in 1 .. n : Id(i) = LoadedId(i)
          /\ \A i \in 1 .. n + 1 : i = n + 1 \/ i \in 1 .. n
          /\ 1 .. n \subseteq 1 .. n + 1 /\ n + 1 \in 1 .. n + 1 /\ n + 1 \notin 1 .. n
      BY <3>2, <3>3 DEF LoadedId, file
    <3>6. \A i, j \in 1 .. n : LoadedId(i) = LoadedId(j) => i = j
      BY <3>2 DEF LanguagesInv
    <3> HIDE DEF Id
    <3>7. \A i, j \in 1 .. n + 1 : Id(i) = Id(j) => i = j
      BY <3>4, <3>5, <3>6
    <3>8. job'.adapters = {"c"} \cap {Id(i) : i \in 1 .. n + 1}
      <4>1. {Id(i) : i \in 1 .. n + 1} = {LoadedId(i) : i \in 1 .. n} \cup {file.id}
        BY <3>5
      <4>2. job.adapters = {"c"} \cap {LoadedId(i) : i \in 1 .. n}
        BY <3>2 DEF LanguagesInv
      <4>3. QED
        BY <3>1, <4>1, <4>2
    <3>9. \A k \in 1 .. job.at :
            k \in DOMAIN job.files /\ (job.files[k].toml <=> \E i \in 1 .. n + 1 : job'.loaded[i] = k)
      <4>1. \A k \in 1 .. job.at : k = job.at \/ k \in 1 .. job.at - 1
        BY DEF LanguagesInv
      <4>2. \A k \in 1 .. job.at - 1 : k # job.at /\ k \in DOMAIN job.files
                                     /\ (job.files[k].toml <=> \E i \in 1 .. n : job.loaded[i] = k)
        <5>1. \A k \in 1 .. job.at - 1 :
                k \in DOMAIN job.files /\ (job.files[k].toml <=> \E i \in DOMAIN job.loaded : job.loaded[i] = k)
          BY DEF LanguagesInv
        <5>2. \A k \in 1 .. job.at - 1 : k # job.at
          BY DEF LanguagesInv
        <5>3. QED
          BY <3>2, <5>1, <5>2
      <4>3. job.files[job.at].toml
        BY <2>4 DEF file
      <4>4. \A k \in 1 .. job.at - 1 :
              (\E i \in 1 .. n + 1 : job'.loaded[i] = k) <=> (\E i \in 1 .. n : job.loaded[i] = k)
        BY <3>3, <3>5, <4>2
      <4>5. \E i \in 1 .. n + 1 : job'.loaded[i] = job.at
        BY <3>3, <3>5
      <4>6. QED
        BY <2>1, <4>1, <4>2, <4>3, <4>4, <4>5
    <3>10. \A i \in 1 .. n + 1 : Project!IsValid(job.files[job'.loaded[i]])
      <4>1. \A i \in 1 .. n : Project!IsValid(job.files[job.loaded[i]])
        BY <3>2 DEF LanguagesInv
      <4>2. Project!IsValid(job.files[job.at])
        BY <2>4 DEF file
      <4>3. ASSUME NEW i \in 1 .. n + 1
            PROVE  Project!IsValid(job.files[job'.loaded[i]])
        <5>1. CASE i = n + 1
          BY <3>3, <4>2, <5>1
        <5>2. CASE i \in 1 .. n
          <6>1. job'.loaded[i] = job.loaded[i]
            BY <3>3, <5>2
          <6>2. QED
            BY <4>1, <5>2, <6>1
        <5>3. QED
          BY <3>5, <5>1, <5>2
      <4>4. QED
        BY <4>3
    <3>11. job'.at - 1 = job.at /\ job'.at \in Nat \ {0}
      BY <3>1 DEF LanguagesInv
    <3>12. /\ {"kind", "files", "at", "loaded", "adapters", "state"} \subseteq DOMAIN job'
           /\ \E m \in Nat : DOMAIN job'.files = 1 .. m /\ Len(job'.files) = m
           /\ job'.state = "reading"
      BY <2>1, <3>1 DEF LanguagesInv
    <3>13. (\A i, j \in DOMAIN job.loaded : LoadedId(i) = LoadedId(j) => i = j)'
      <4>1. \A i, j \in 1 .. n + 1 :
              job'.files[job'.loaded[i]].id = job'.files[job'.loaded[j]].id => i = j
        BY <3>1, <3>7 DEF Id
      <4>2. QED
        BY <3>3, <4>1 DEF LoadedId
    <3>14. (job.adapters = {"c"} \cap {LoadedId(i) : i \in DOMAIN job.loaded})'
      BY <3>1, <3>3, <3>8 DEF LoadedId, Id
    <3>15. (\A k \in 1 .. job.at - 1 :
          k \in DOMAIN job.files /\ (job.files[k].toml <=> \E i \in DOMAIN job.loaded : job.loaded[i] = k))'
      BY <3>1, <3>3, <3>9, <3>11
    <3>16. (\A i \in DOMAIN job.loaded : Project!IsValid(job.files[job.loaded[i]]))'
      BY <3>1, <3>3, <3>10 DEF Project!IsValid
    <3>17. QED
      BY <3>3, <3>11, <3>12, <3>13, <3>14, <3>15, <3>16 DEF LanguagesInv
  <2>5. QED
    BY <2>2, <2>3, <2>4
<1>3. CASE Project!LookForManifest \/ Project!Load \/ Project!SynthesiseDefaults \/ Project!ManifestChanges
  BY <1>3 DEF Project!LookForManifest, Project!Load, Project!SynthesiseDefaults, Project!ManifestChanges
<1>4. QED
  BY <1>1, <1>2, <1>3 DEF Project!Next

LEMMA OpenStart == Project!Init /\ job.kind = "open" => OpenInv
<1> SUFFICES ASSUME Project!Init, job.kind = "open" PROVE OpenInv
  OBVIOUS
<1>1. \/ \E text, value, root :
           job = [kind |-> "path", text |-> text, value |-> value, root |-> root]
      \/ \E dir, manifest, makefile : job = Project!Opening(dir, manifest, makefile)
      \/ \E files : job = Project!Languages(files)
      \/ \E provider, base, model : job = Project!Ai(provider, base, model)
      \/ \E section, keys, key, value, unknown :
           job = Project!Manifest(section, keys, key, value, unknown)
      \/ \E url : job = [kind |-> "url", url |-> url]
  BY Zenon DEF Project!Init
<1>2. PICK dir, manifest, makefile : job = Project!Opening(dir, manifest, makefile)
  BY <1>1 DEF Project!Languages, Project!Ai, Project!Manifest
<1>3. QED
  BY <1>2 DEF Project!Opening, OpenInv, Project!NothingIsGuessed, Project!None

FilesInv ==
    /\ HasKind
    /\ job.kind = "open" => OpenInv
    /\ job.kind = "languages" => LanguagesInv

\* Whatever the manifest, the Makefile and the files of the directory, and whoever edits them
\* meanwhile (config.rs, language.rs): a project is opened on what is there, and the
\* languages that are registered are valid and distinct.
THEOREM ProjectStaysUnderstood ==
    Spec => [](Project!NothingIsGuessed /\ Project!LanguagesAreDistinct)
<1>1. Init => FilesInv
  BY JobsStart, OpenStart, LanguagesStart DEF FilesInv
<1>2. FilesInv /\ [Next]_job => FilesInv'
  <2> SUFFICES ASSUME FilesInv, [Next]_job PROVE FilesInv'
    OBVIOUS
  <2>1. HasKind' /\ job'.kind = job.kind
        /\ (job.kind \in {"open", "languages"} => [Project!Next]_job)
    BY JobsStay DEF FilesInv
  <2>2. CASE UNCHANGED job
    <3>1. OpenInv => OpenInv'
      BY <2>2 DEF OpenInv, Project!NothingIsGuessed
    <3>2. LanguagesInv => LanguagesInv'
      BY <2>2 DEF LanguagesInv, LoadedId, Project!IsValid
    <3>3. QED
      BY <2>1, <3>1, <3>2 DEF FilesInv
  <2>3. CASE Project!Next
    BY <2>1, <2>3, OpenKeeps, LanguagesKeep DEF FilesInv
  <2>4. CASE job.kind \notin {"open", "languages"}
    BY <2>1, <2>4 DEF FilesInv
  <2>5. QED
    BY <2>1, <2>2, <2>3, <2>4
<1>3. FilesInv => Project!NothingIsGuessed /\ Project!LanguagesAreDistinct
  BY LanguagesInvSuffices DEF FilesInv, OpenInv, Project!NothingIsGuessed, Project!LanguagesAreDistinct
<1>4. QED
  BY <1>1, <1>2, <1>3, PTL DEF Spec

-----------------------------------------------------------------------------
(* The recorder of events and the view of the log. *)

RecorderInv ==
    /\ {"kind", "file", "next_seq", "acknowledged", "backward", "pc"} \subseteq DOMAIN job
    /\ job.next_seq \in Nat
    /\ job.file \in Seq([seq : Nat, form : {"whole", "torn", "unended"}])
    /\ \A i \in 1 .. Len(job.file) : job.file[i].seq < job.next_seq

ScrollInv ==
    /\ {"kind", "total", "limit", "seen", "pc"} \subseteq DOMAIN job
    /\ job.total \in Nat /\ job.limit \in Nat \ {0}
    /\ \E n \in 0 .. job.total :
          /\ job.seen = [i \in 1 .. n |-> i]
          /\ job.pc = "done" => n = job.total

LEMMA MinOfTwo == ASSUME NEW a \in Nat, NEW b \in Nat
                  PROVE Contract!Min({a, b}) = IF a <= b THEN a ELSE b
<1> DEFINE m == CHOOSE x \in {a, b} : \A y \in {a, b} : x =< y
<1>1. \E x \in {a, b} : \A y \in {a, b} : x =< y
  OBVIOUS
<1>2. m \in {a, b} /\ \A y \in {a, b} : m =< y
  BY <1>1
<1>3. Contract!Min({a, b}) = m
  BY DEF Contract!Min
<1> HIDE DEF m
<1>4. QED
  BY <1>2, <1>3

LEMMA MaxOfTwo == ASSUME NEW a \in Nat, NEW b \in Nat
                  PROVE Contract!Max({a, b}) = IF a >= b THEN a ELSE b
<1> DEFINE m == CHOOSE x \in {a, b} : \A y \in {a, b} : x >= y
<1>1. \E x \in {a, b} : \A y \in {a, b} : x >= y
  OBVIOUS
<1>2. m \in {a, b} /\ \A y \in {a, b} : m >= y
  BY <1>1
<1>3. Contract!Max({a, b}) = m
  BY DEF Contract!Max
<1> HIDE DEF m
<1>4. QED
  BY <1>2, <1>3

LEMMA RecorderKeeps ==
    HasKind /\ job.kind = "recorder" /\ RecorderInv /\ Contract!Next => RecorderInv'
<1> SUFFICES ASSUME HasKind, job.kind = "recorder", RecorderInv, Contract!Next
             PROVE  RecorderInv'
  OBVIOUS
<1>1. ASSUME NEW seq \in Nat, NEW form \in {"whole", "torn", "unended"},
             job'.file = Contract!Write(seq, form), DOMAIN job' = DOMAIN job,
             job'.next_seq \in Nat, seq < job'.next_seq, job.next_seq <= job'.next_seq
      PROVE  RecorderInv'
  <2> DEFINE event == [seq |-> seq, form |-> form]
  <2>1. event \in [seq : Nat, form : {"whole", "torn", "unended"}] /\ event.seq = seq
    OBVIOUS
  <2>2. job'.file = Append(job.file, event)
    BY <1>1 DEF Contract!Write
  <2> HIDE DEF event
  <2>3. job'.file \in Seq([seq : Nat, form : {"whole", "torn", "unended"}])
    BY <2>1, <2>2 DEF RecorderInv
  <2>4. ASSUME NEW i \in 1 .. Len(job'.file) PROVE job'.file[i].seq < job'.next_seq
    <3>1. CASE i \in 1 .. Len(job.file)
      <4>1. job.file \in Seq([seq : Nat, form : {"whole", "torn", "unended"}])
        BY DEF RecorderInv
      <4>2. job'.file[i] = job.file[i]
        BY <2>2, <3>1, <4>1
      <4>3. job.file[i] \in [seq : Nat, form : {"whole", "torn", "unended"}]
        <5> DEFINE Stamped == [seq : Nat, form : {"whole", "torn", "unended"}]
        <5> HIDE DEF Stamped
        <5>1. job.file \in Seq(Stamped)
          BY <4>1 DEF Stamped
        <5>2. job.file[i] \in Stamped
          BY <3>1, <5>1, ElementOfSeq
        <5>3. QED
          BY <5>2 DEF Stamped
      <4>4. job.file[i].seq \in Nat /\ job.file[i].seq < job.next_seq
        BY <3>1, <4>3 DEF RecorderInv
      <4>5. QED
        BY <1>1, <4>2, <4>4 DEF RecorderInv
    <3>2. CASE i = Len(job.file) + 1
      BY <1>1, <2>1, <2>2, <3>2 DEF RecorderInv
    <3>3. QED
      BY <2>2, <3>1, <3>2 DEF RecorderInv
  <2>5. QED
    BY <1>1, <2>3, <2>4 DEF RecorderInv
<1>2. CASE Contract!emit_at
  <2>1. PICK form \in {"whole", "torn", "unended"} :
          job'.file = Contract!Write(job.next_seq, form) /\ job'.next_seq = job.next_seq + 1
          /\ DOMAIN job' = DOMAIN job
    BY <1>2 DEF Contract!emit_at, Contract!TakeSeq, RecorderInv
  <2>2. job.next_seq \in Nat
    BY DEF RecorderInv
  <2>3. QED
    BY <1>1, <2>1, <2>2
<1>3. CASE Contract!record
  <2>1. PICK seq \in 1 .. MaxWrites :
          job'.file = Contract!Write(seq, "whole") /\ job'.next_seq = Contract!AdvancePast(seq)
          /\ DOMAIN job' = DOMAIN job
    BY <1>3 DEF Contract!record, RecorderInv
  <2>2. seq \in Nat /\ job.next_seq \in Nat
    BY DEF RecorderInv
  <2>3. Contract!AdvancePast(seq) = IF seq + 1 >= job.next_seq THEN seq + 1 ELSE job.next_seq
    BY <2>2, MaxOfTwo DEF Contract!AdvancePast
  <2>4. /\ job'.next_seq \in Nat /\ seq < job'.next_seq /\ job.next_seq <= job'.next_seq
    BY <2>1, <2>2, <2>3
  <2>5. QED
    BY <1>1, <2>1, <2>2, <2>4
<1>4. CASE Contract!Close
  BY <1>4 DEF Contract!Close, RecorderInv
<1>5. CASE Contract!Receive \/ Contract!Scroll \/ Contract!Grow
  BY <1>5 DEF Contract!Receive, Contract!Scroll, Contract!Grow
<1>6. QED
  BY <1>2, <1>3, <1>4, <1>5 DEF Contract!Next

LEMMA ScrollKeeps ==
    HasKind /\ job.kind = "scroll" /\ ScrollInv /\ Contract!Next => ScrollInv'
<1> SUFFICES ASSUME HasKind, job.kind = "scroll", ScrollInv, Contract!Next PROVE ScrollInv'
  OBVIOUS
<1>1. PICK n \in 0 .. job.total : job.seen = [i \in 1 .. n |-> i] /\ (job.pc = "done" => n = job.total)
  BY DEF ScrollInv
<1>2. CASE Contract!Scroll
  <2> DEFINE page == Contract!build(job.total, Len(job.seen), job.limit)
  <2> DEFINE to == IF n + job.limit <= job.total THEN n + job.limit ELSE job.total
  <2>1. /\ job'.seen = job.seen \o page /\ job'.total = job.total /\ job'.limit = job.limit
        /\ job'.pc = (IF page = <<>> THEN "done" ELSE "scroll") /\ DOMAIN job' = DOMAIN job
    BY <1>2 DEF Contract!Scroll, ScrollInv
  <2>2. Len(job.seen) = n /\ n \in Nat /\ job.total \in Nat /\ job.limit \in Nat \ {0} /\ n <= job.total
    BY <1>1 DEF ScrollInv
  <2>3. Contract!Min({n, job.total}) = n /\ Contract!Min({n + job.limit, job.total}) = to
    BY <2>2, MinOfTwo
  <2>4. to \in n .. job.total /\ (to = n => n = job.total) /\ to \in Nat
    BY <2>2
  <2> HIDE DEF to
  <2>5. page = SubSeq([i \in 1 .. job.total |-> i], n + 1, to)
    BY <2>2, <2>3 DEF Contract!build
  <2>6. page = [i \in 1 .. to - n |-> n + i]
    BY <2>2, <2>4, <2>5
  <2> HIDE DEF page
  <2> DEFINE more == to - n
  <2>7. more \in Nat /\ n + more = to
    BY <2>2, <2>4
  <2>8. page = [i \in 1 .. more |-> n + i] /\ job.seen = [i \in 1 .. n |-> i]
    BY <1>1, <2>6
  <2> HIDE DEF more
  <2>9. \A i \in 1 .. more : n + i \in Nat
    BY <2>2, <2>7
  <2>10. page \in [1 .. more -> Nat] /\ job.seen \in [1 .. n -> Nat]
    BY <2>8, <2>9
  <2>11. page \in Seq(Nat) /\ Len(page) = more /\ job.seen \in Seq(Nat) /\ Len(job.seen) = n
    <3>1. \A m \in Nat : \A s : s \in [1 .. m -> Nat] => s \in Seq(Nat) /\ Len(s) = m
      OBVIOUS
    <3>2. QED
      BY <2>2, <2>7, <2>10, <3>1
  <2>12. job.seen \o page = [i \in 1 .. to |-> i]
    <3> DEFINE whole == [i \in 1 .. to |-> i]
    <3>1. whole \in Seq(Nat) /\ Len(whole) = to /\ \A i \in 1 .. to : whole[i] = i
      BY <2>4
    <3> HIDE DEF whole
    <3>2. /\ job.seen \o page \in Seq(Nat) /\ Len(job.seen \o page) = to
          /\ \A i \in 1 .. to : (job.seen \o page)[i] = IF i <= n THEN job.seen[i] ELSE page[i - n]
      BY <2>7, <2>11, ConcatProperties
    <3>3. \A i \in 1 .. to : (IF i <= n THEN job.seen[i] ELSE page[i - n]) = i
      BY <2>2, <2>7, <2>8
    <3>4. job.seen \o page = whole
      BY <3>1, <3>2, <3>3, SeqEqual
    <3>5. QED
      BY <3>4 DEF whole
  <2>13. page = <<>> => to = n
    <3>1. page = <<>> => Len(page) = 0
      OBVIOUS
    <3>2. QED
      BY <2>2, <2>7, <2>11, <3>1
  <2>14. /\ job'.seen = [i \in 1 .. to |-> i] /\ to \in 0 .. job'.total
        /\ (job'.pc = "done" => to = job'.total)
    BY <2>1, <2>2, <2>4, <2>12, <2>13
  <2>15. {"kind", "total", "limit", "seen", "pc"} \subseteq DOMAIN job'
         /\ job'.total \in Nat /\ job'.limit \in Nat \ {0}
    BY <2>1, <2>2 DEF ScrollInv
  <2>16. QED
    BY <2>14, <2>15 DEF ScrollInv
<1>3. CASE Contract!Grow
  BY <1>1, <1>3 DEF Contract!Grow, ScrollInv
<1>4. CASE Contract!Receive \/ Contract!emit_at \/ Contract!record \/ Contract!Close
  BY <1>4 DEF Contract!Receive, Contract!emit_at, Contract!record, Contract!Close, Contract!MayWrite
<1>5. QED
  BY <1>2, <1>3, <1>4 DEF Contract!Next

LEMMA ContractStarts ==
    Contract!Init /\ HasKind =>
        (job.kind = "recorder" => RecorderInv) /\ (job.kind = "scroll" => ScrollInv)
<1>1. CASE job = Contract!Recorder
  <2>1. /\ job.kind = "recorder" /\ job.file = <<>> /\ job.next_seq = 1
        /\ {"kind", "file", "next_seq", "acknowledged", "backward", "pc"} \subseteq DOMAIN job
    BY <1>1 DEF Contract!Recorder
  <2>2. <<>> \in Seq([seq : Nat, form : {"whole", "torn", "unended"}]) /\ Len(<<>>) = 0
    OBVIOUS
  <2>3. QED
    BY <2>1, <2>2 DEF RecorderInv
<1>2. ASSUME NEW total \in 0 .. MaxRows, NEW limit \in 1 .. MaxRows,
             job = Contract!Scrolling(total, limit)
      PROVE  job.kind = "scroll" /\ ScrollInv
  <2>1. /\ job.kind = "scroll" /\ job.total = total /\ job.limit = limit /\ job.seen = <<>>
        /\ job.pc = "scroll" /\ {"kind", "total", "limit", "seen", "pc"} \subseteq DOMAIN job
    BY <1>2 DEF Contract!Scrolling
  <2>2. total \in Nat /\ limit \in Nat \ {0} /\ 0 \in 0 .. total /\ <<>> = [i \in 1 .. 0 |-> i]
    OBVIOUS
  <2>3. QED
    BY <2>1, <2>2 DEF ScrollInv
<1>3. ASSUME NEW kind, NEW payload, job = Contract!Sent(kind, payload) PROVE job.kind = "event"
  BY <1>3 DEF Contract!Sent
<1>4. QED
  BY <1>1, <1>2, <1>3 DEF Contract!Init

ContractInv ==
    /\ HasKind
    /\ job.kind = "recorder" => RecorderInv
    /\ job.kind = "scroll" => ScrollInv

\* Whatever is recorded, torn or refused, and however the log grows while it is read
\* (event.rs): a stamp is above every number in the file, and scrolling shows every row once.
THEOREM StampsStayFresh == Spec => [](Contract!StampsAreFresh /\ Contract!ScrollIsComplete)
<1>1. Init => ContractInv
  BY JobsStart, ContractStarts DEF ContractInv
<1>2. ContractInv /\ [Next]_job => ContractInv'
  <2> SUFFICES ASSUME ContractInv, [Next]_job PROVE ContractInv'
    OBVIOUS
  <2>1. HasKind' /\ job'.kind = job.kind
        /\ (job.kind \in {"recorder", "scroll"} => [Contract!Next]_job)
    BY JobsStay DEF ContractInv
  <2>2. CASE UNCHANGED job
    BY <2>1, <2>2 DEF ContractInv, RecorderInv, ScrollInv
  <2>3. CASE Contract!Next
    BY <2>1, <2>3, RecorderKeeps, ScrollKeeps DEF ContractInv
  <2>4. CASE job.kind \notin {"recorder", "scroll"}
    BY <2>1, <2>4 DEF ContractInv
  <2>5. QED
    BY <2>1, <2>2, <2>3, <2>4
<1>3. ContractInv => Contract!StampsAreFresh /\ Contract!ScrollIsComplete
  <2>1. RecorderInv => \A i \in 1 .. Len(job.file) : job.file[i].seq < job.next_seq
    BY DEF RecorderInv
  <2>2. ASSUME ScrollInv
        PROVE  /\ job.seen = [i \in 1 .. Len(job.seen) |-> i]
               /\ job.pc = "done" => Len(job.seen) = job.total
    <3>1. PICK n \in 0 .. job.total : job.seen = [i \in 1 .. n |-> i] /\ (job.pc = "done" => n = job.total)
      BY <2>2 DEF ScrollInv
    <3>2. n \in Nat
      BY <2>2 DEF ScrollInv
    <3>3. Len(job.seen) = n
      BY <3>1, <3>2
    <3>4. QED
      BY <3>1, <3>3
  <2>3. QED
    BY <2>1, <2>2 DEF ContractInv, Contract!StampsAreFresh, Contract!ScrollIsComplete
<1>4. QED
  BY <1>1, <1>2, <1>3, PTL DEF Spec

-----------------------------------------------------------------------------
(* The pump of the command line. *)

PumpFields ==
    {"kind", "op", "pc", "leader", "code", "helper", "outside", "written", "whole", "read", "shown",
     "open", "status", "grace", "deadline", "timed", "cancelAfter", "token", "killed", "found",
     "triple", "result"}

\* While it pumps, only a token and the deadline kill, and the deadline leaves no helper.
Sane(j) ==
    /\ PumpFields \subseteq DOMAIN j
    /\ j.kind = "pump" /\ j.pc \in {"pump", "final"}
    /\ j.killed => j.token \/ j.timed
    /\ j.timed => ~ j.helper

\* And what it ends with is final.
EndedWell ==
    /\ PumpFields \subseteq DOMAIN job
    /\ job.leader = "reaped"
    /\ job.op = "run" \/ job.timed => ~ job.helper
    /\ job.result \in {"ok", "guest-shutdown"} =>
         job.code = "0" /\ ~ job.killed /\ ~ job.timed /\ ~ job.token

PumpInv ==
    /\ HasKind
    /\ job.kind = "pump" =>
         \/ Sane(job)
         \/ job.pc = "done" /\ EndedWell
         \/ job.pc = "failed" /\ PumpFields \subseteq DOMAIN job

LEMMA PumpKeepsSane ==
    ASSUME NEW j, Sane(j), NEW code, NEW to
    PROVE  /\ Sane(Pump!Show(j, to)) /\ Sane(Pump!Reap(j)) /\ Sane(Pump!take_available(j))
           /\ Sane(Pump!take_lines(j))
           /\ j.token \/ j.timed => Sane(Pump!KillGroup(j, code))
           /\ Sane(Pump!After(j, code))
<1>1. \A t : Sane(Pump!Show(j, t))
  BY DEF Sane, PumpFields, Pump!Show
<1>2. Sane(Pump!take_available(j)) /\ Sane(Pump!take_lines(j))
  BY <1>1 DEF Pump!take_available, Pump!take_lines
<1>3. ASSUME NEW k, Sane(k) PROVE Sane(Pump!Reap(k))
  BY <1>3 DEF Sane, PumpFields, Pump!Reap
<1>4. ASSUME j.token \/ j.timed PROVE Sane(Pump!KillGroup(j, code))
  BY <1>4 DEF Sane, PumpFields, Pump!KillGroup
<1>5. Sane(Pump!BuildAfter(j, code))
  <2>1. CASE j.token
    <3> DEFINE k == Pump!KillGroup(j, code)
    <3>1. Sane(k)
      BY <1>4, <2>1
    <3> HIDE DEF k
    <3>2. Sane([k EXCEPT !.pc = "final"])
      BY <3>1 DEF Sane, PumpFields
    <3>3. QED
      BY <2>1, <3>2 DEF Pump!BuildAfter, k
  <2>2. CASE ~ j.token
    BY <2>2 DEF Pump!BuildAfter
  <2>3. QED
    BY <2>1, <2>2
<1>6. Sane(Pump!RunAfter(j, code))
  BY <1>3, <1>4 DEF Pump!RunAfter
<1>7. Sane(Pump!After(j, code))
  BY <1>5, <1>6 DEF Pump!After
<1>8. QED
  BY <1>1, <1>2, <1>3, <1>4, <1>7

LEMMA PumpStaysSane == Sane(job) /\ Pump!Next /\ ~ Pump!Finish /\ ~ Pump!SinkFails => Sane(job')
<1> SUFFICES ASSUME Sane(job), Pump!Next, ~ Pump!Finish, ~ Pump!SinkFails PROVE Sane(job')
  OBVIOUS
<1>1. ASSUME NEW k, Sane(k), Pump!Branch(k) PROVE Sane(job')
  BY <1>1, PumpKeepsSane DEF Pump!Branch
<1>2. CASE Pump!Processes \/ Pump!SetToken \/ Pump!LeaveLoop
  <2>1. CASE Pump!Write
    BY <2>1 DEF Pump!Write, Sane, PumpFields
  <2>2. CASE Pump!Exit
    BY <2>2 DEF Pump!Exit, Sane, PumpFields
  <2>3. CASE Pump!HelperEnds
    BY <2>3 DEF Pump!HelperEnds, Sane, PumpFields
  <2>4. CASE Pump!SetToken \/ Pump!LeaveLoop
    BY <2>4 DEF Pump!SetToken, Pump!LeaveLoop, Sane, PumpFields
  <2>5. QED
    BY <1>2, <2>1, <2>2, <2>3, <2>4 DEF Pump!Processes
<1>3. CASE Pump!ReadOut
  <2>1. PICK n \in 1 .. Pump!Unread : Pump!Branch(Pump!take_lines([job EXCEPT !.read = @ + n]))
    BY <1>3 DEF Pump!ReadOut
  <2>2. Sane([job EXCEPT !.read = @ + n])
    BY DEF Sane, PumpFields
  <2>3. QED
    BY <1>1, <2>1, <2>2, PumpKeepsSane
<1>4. CASE Pump!EndOfPipe
  <2>1. PICK pipe \in job.open :
          Pump!Branch([(IF pipe = "out" THEN Pump!take_available(job) ELSE job)
                          EXCEPT !.open = @ \ {pipe}])
    BY <1>4 DEF Pump!EndOfPipe
  <2> DEFINE k == IF pipe = "out" THEN Pump!take_available(job) ELSE job
  <2>2. Sane(k)
    BY PumpKeepsSane
  <2> HIDE DEF k
  <2>3. Sane([k EXCEPT !.open = @ \ {pipe}])
    BY <2>2 DEF Sane, PumpFields
  <2>4. QED
    BY <1>1, <2>1, <2>3 DEF k
<1>5. CASE Pump!Wait
  BY <1>1, <1>5, PumpKeepsSane DEF Pump!Wait
<1>6. CASE Pump!Idle
  BY <1>1, <1>6, PumpKeepsSane DEF Pump!Idle
<1>7. CASE Pump!Deadline
  <2> DEFINE late == [job EXCEPT !.deadline = FALSE, !.timed = TRUE]
  <2>1. PICK code \in Pump!KillCodes : Pump!Branch(Pump!KillGroup(late, code))
    BY <1>7 DEF Pump!Deadline
  <2>2. Sane(Pump!KillGroup(late, code))
    BY DEF Sane, PumpFields, Pump!KillGroup
  <2>3. QED
    BY <1>1, <2>1, <2>2
<1>8. CASE Pump!CancelAfter
  <2> DEFINE stopped == [job EXCEPT !.cancelAfter = FALSE, !.token = TRUE]
  <2>1. PICK code \in Pump!KillCodes : Pump!Branch(Pump!KillGroup(stopped, code))
    BY <1>8 DEF Pump!CancelAfter
  <2>2. Sane(Pump!KillGroup(stopped, code))
    BY DEF Sane, PumpFields, Pump!KillGroup
  <2>3. QED
    BY <1>1, <2>1, <2>2
<1>9. QED
  BY <1>2, <1>3, <1>4, <1>5, <1>6, <1>7, <1>8 DEF Pump!Next, Pump!Loop

LEMMA FinishEndsWell == Sane(job) /\ Pump!Finish => job'.kind = "pump" /\ job'.pc = "done" /\ EndedWell'
<1> SUFFICES ASSUME Sane(job), Pump!Finish
             PROVE  job'.kind = "pump" /\ job'.pc = "done" /\ EndedWell'
  OBVIOUS
<1> DEFINE shown == Pump!take_available(job)
<1> DEFINE reaped == [shown EXCEPT !.leader = "reaped", !.status = TRUE]
<1>1. /\ shown.kind = "pump" /\ shown.killed = job.killed /\ shown.token = job.token
      /\ shown.timed = job.timed /\ shown.code = job.code /\ shown.helper = job.helper
      /\ shown.op = job.op /\ DOMAIN shown = DOMAIN job
  BY DEF Pump!take_available, Pump!Show, Sane, PumpFields
<1>2. PICK code \in Pump!KillCodes :
        job' = IF job.op = "build"
               THEN [reaped EXCEPT !.pc = "done", !.result = Pump!BuildStatus(job)]
               ELSE [Pump!KillGroup(reaped, code) EXCEPT !.pc = "done", !.result = Pump!Reason(job)]
  BY DEF Pump!Finish
<1> HIDE DEF shown
<1>3. /\ reaped.kind = "pump" /\ reaped.killed = job.killed /\ reaped.token = job.token
      /\ reaped.timed = job.timed /\ reaped.code = job.code /\ reaped.helper = job.helper
      /\ reaped.op = job.op /\ DOMAIN reaped = DOMAIN job /\ reaped.leader = "reaped"
  BY <1>1 DEF Sane, PumpFields
<1> HIDE DEF reaped
<1>4. CASE job.op = "build"
  <2>1. job' = [reaped EXCEPT !.pc = "done", !.result = Pump!BuildStatus(job)]
    BY <1>2, <1>4
  <2>2. /\ job'.killed = job.killed /\ job'.token = job.token /\ job'.timed = job.timed
        /\ job'.code = job.code /\ job'.helper = job.helper /\ job'.op = "build"
        /\ DOMAIN job' = DOMAIN job /\ job'.leader = "reaped" /\ job'.kind = "pump"
        /\ job'.pc = "done" /\ job'.result = Pump!BuildStatus(job)
    BY <1>3, <1>4, <2>1 DEF Sane, PumpFields
  <2>3. Pump!BuildStatus(job) \in {"ok", "guest-shutdown"} => ~ job.token /\ ~ job.timed /\ job.code = "0"
    BY DEF Pump!BuildStatus
  <2>4. QED
    BY <2>2, <2>3 DEF Sane, EndedWell
<1>5. CASE job.op # "build"
  <2> DEFINE killed == Pump!KillGroup(reaped, code)
  <2>1. job' = [killed EXCEPT !.pc = "done", !.result = Pump!Reason(job)]
    BY <1>2, <1>5
  <2>2. /\ killed.killed = (job.killed \/ FALSE) /\ killed.token = job.token /\ killed.timed = job.timed
        /\ killed.code = job.code /\ ~ killed.helper /\ killed.op = job.op
        /\ DOMAIN killed = DOMAIN job /\ killed.leader = "reaped" /\ killed.kind = "pump"
    BY <1>3 DEF Sane, PumpFields, Pump!KillGroup
  <2> HIDE DEF killed
  <2>3. /\ job'.killed = (job.killed \/ FALSE) /\ job'.token = job.token /\ job'.timed = job.timed
        /\ job'.code = job.code /\ ~ job'.helper /\ job'.op = job.op
        /\ DOMAIN job' = DOMAIN job /\ job'.leader = "reaped" /\ job'.kind = "pump"
        /\ job'.pc = "done" /\ job'.result = Pump!Reason(job)
    BY <2>1, <2>2 DEF Sane, PumpFields
  <2>4. Pump!Reason(job) \in {"ok", "guest-shutdown"} => ~ job.token /\ ~ job.timed /\ job.code = "0"
    BY DEF Pump!Reason
  <2>5. QED
    BY <2>3, <2>4 DEF Sane, EndedWell
<1>6. QED
  BY <1>4, <1>5

LEMMA PumpInvKept == HasKind' /\ job.kind = "pump" /\ PumpInv /\ Pump!Next => PumpInv'
<1> SUFFICES ASSUME HasKind', job.kind = "pump", PumpInv, Pump!Next PROVE PumpInv'
  OBVIOUS
<1>1. CASE Sane(job)
  <2>1. CASE Pump!Finish
    BY <1>1, <2>1, FinishEndsWell DEF PumpInv
  <2>2. CASE Pump!SinkFails
    <3>1. job'.pc = "failed" /\ DOMAIN job' = DOMAIN job
      BY <1>1, <2>2 DEF Pump!SinkFails, Sane, PumpFields
    <3>2. QED
      BY <1>1, <3>1 DEF PumpInv, Sane
  <2>3. QED
    BY <1>1, <2>1, <2>2, PumpStaysSane DEF PumpInv
<1>2. CASE job.pc \in {"done", "failed"} /\ PumpFields \subseteq DOMAIN job
  <2>1. Pump!Exit \/ Pump!HelperEnds
    BY <1>2 DEF Pump!Next, Pump!Loop, Pump!Processes, Pump!Write, Pump!ReadOut, Pump!EndOfPipe,
       Pump!Wait, Pump!Idle, Pump!Deadline, Pump!CancelAfter, Pump!LeaveLoop, Pump!Finish,
       Pump!SetToken, Pump!SinkFails, Pump!Pumping
  <2>2. CASE Pump!Exit
    BY <1>2, <2>2 DEF PumpInv, Pump!Exit, EndedWell, Sane, PumpFields
  <2>3. CASE Pump!HelperEnds
    BY <1>2, <2>3 DEF PumpInv, Pump!HelperEnds, EndedWell, Sane, PumpFields
  <2>4. QED
    BY <2>1, <2>2, <2>3
<1>3. QED
  BY <1>1, <1>2 DEF PumpInv, EndedWell

LEMMA PumpBegins == Pump!Init => Sane(job)
<1> SUFFICES ASSUME Pump!Init PROVE Sane(job)
  OBVIOUS
<1>1. /\ job.kind = "pump" /\ job.pc = "pump" /\ job.killed = FALSE /\ job.timed = FALSE
      /\ PumpFields \subseteq DOMAIN job
  BY DEF Pump!Init, PumpFields
<1>2. QED
  BY <1>1 DEF Sane

\* Whatever the child, its group and the timers do, in any order, for any output (run.rs and
\* build.rs of princess-cli): a success was the program's own, the child is reaped, and a run
\* or a build that was timed out leaves nobody of its group behind.
THEOREM PumpEndsWell == Spec => [](Pump!SuccessIsOwn /\ Pump!GroupIsGone)
<1>1. Init => PumpInv
  BY JobsStart, PumpBegins DEF PumpInv
<1>2. PumpInv /\ [Next]_job => PumpInv'
  <2> SUFFICES ASSUME PumpInv, [Next]_job PROVE PumpInv'
    OBVIOUS
  <2>1. HasKind' /\ job'.kind = job.kind /\ (job.kind = "pump" => [Pump!Next]_job)
    BY JobsStay DEF PumpInv
  <2>2. CASE UNCHANGED job
    BY <2>1, <2>2 DEF PumpInv, EndedWell
  <2>3. CASE job.kind = "pump" /\ Pump!Next
    BY <2>1, <2>3, PumpInvKept
  <2>4. CASE job.kind # "pump"
    BY <2>1, <2>4 DEF PumpInv
  <2>5. QED
    BY <2>1, <2>2, <2>3, <2>4
<1>3. PumpInv => Pump!SuccessIsOwn /\ Pump!GroupIsGone
  BY DEF PumpInv, Sane, EndedWell, Pump!SuccessIsOwn, Pump!GroupIsGone, Pump!Ended
<1>4. QED
  BY <1>1, <1>2, <1>3, PTL DEF Spec
=============================================================================
