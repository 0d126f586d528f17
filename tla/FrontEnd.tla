------------------------------ MODULE FrontEnd ------------------------------
(***************************************************************************)
(* The window of the desktop shell: mountApp (app.ts), the panels it       *)
(* draws and draws again (actionPanel.ts, debugPanel.ts, toolTable.ts,     *)
(* eventLog.ts) and the answers of the debug commands (debug_handler.rs).  *)
(* Every callback is a step; the answer to a call comes at any time later. *)
(***************************************************************************)
EXTENDS Naturals, Sequences, FiniteSets, FiniteSetsExt

CONSTANTS
    MaxEvents,  \* bound on the live events
    MaxAsks,    \* bound on the calls of one kind
    Sections,   \* sections of the debug panel that are clicked
    Projects    \* projects that can be opened

VARIABLE job

Nothing == "nothing"
Fixture == "fixture"
Live == "live"
Panels == {"actions", "toolchain", "debug", "events"}

-----------------------------------------------------------------------------
(* What is shown: a fixture, or what the live stream has folded.           *)

Mounted(listening, fixture) ==
    [kind |-> "window", listening |-> listening, fixture |-> fixture,
     live |-> <<>>, shown |-> Fixture,
     typed |-> FALSE,
     calls |-> {}, answers |-> {},
     asked |-> 0, asking |-> {}, loading |-> FALSE, tools |-> <<>>,
     cancelled |-> {}]

\* The dock and the editor are mounted once, and never drawn again.
Docked == [kind |-> "dock", panel |-> Nothing, opening |-> {}, root |-> Nothing]

Running(events) == \E k \in 1..Len(events) :
    /\ events[k].what = "build.started"
    /\ \A j \in k + 1..Len(events) : events[j].what # "build.finished"
BuildRuns == IF job.shown = Fixture THEN job.fixture = "running" ELSE Running(job.live)
Started(events) == {k \in 1..Len(events) : events[k].what = "build.started"}
lastBuildOpId == Max(Started(job.live) \cup {0})

\* render: every panel is built anew, so the nodes a pending answer would fill are detached
\* and what was typed into the inputs is gone.
Detached == <<>>
Redraw(panels) == [panels EXCEPT !.calls = {[c EXCEPT !.drawn = Detached] : c \in @},
                                 !.answers = {}, !.typed = FALSE]
KeepNodes(panels) == panels    \* mutant
render(panels) == Redraw(panels)

\* onStateChange: an envelope the contract refuses is dropped before the state sees it.
Receive ==
    /\ job.kind = "window" /\ job.listening /\ Len(job.live) < MaxEvents
    /\ \E what \in {"build.started", "build.finished", "other"} :
         LET events == Append(job.live, [what |-> what])
         IN  job' = render([job EXCEPT !.live = events, !.shown = Live])

\* The fixture picker replaces the state of the window and not that of the stream.
loadFixture ==
    /\ job.kind = "window" /\ job.shown = Live
    /\ job' = render([job EXCEPT !.shown = Fixture])

-----------------------------------------------------------------------------
(* The debug panel.                                                        *)

\* What the handlers of the shell answer: setBreakpoints wants a file beside the list, and
\* registers and stackTrace have a shape the panel cannot draw.
debug_handler(section) ==
    CASE section = "breakpoints" -> "E_INVALID_CONFIG"
      [] section \in {"registers", "stack"} -> "shapeless"
      [] OTHER -> "ok"

Type == job.kind = "window" /\ ~job.typed /\ job' = [job EXCEPT !.typed = TRUE]

\* A click empties the place of the answer, and asks.
Drawn == <<job.live, job.shown, job.asked, job.tools>>
Click(section) ==
    /\ job.kind = "window"
    /\ Cardinality({c \in job.calls : c.section = section}) < MaxAsks
    /\ section = "breakpoints" => job.typed
    /\ job' = [job EXCEPT !.calls = @ \cup {[section |-> section, drawn |-> Drawn]},
                          !.answers = {a \in @ : a.section # section}]

\* The answer; into detached nodes, or after an exception of the callback, it shows nothing.
Answer ==
    /\ job.kind = "window"
    /\ \E call \in job.calls :
         job' = [job EXCEPT
           !.calls = @ \ {call},
           !.answers = IF call.drawn = Detached \/ debug_handler(call.section) = "shapeless" THEN @
                       ELSE @ \cup {[section |-> call.section, drawn |-> call.drawn]}]

-----------------------------------------------------------------------------
(* detect toolchain, and open project.                                     *)

refreshTools ==
    /\ job.kind = "window" /\ job.asked < MaxAsks
    /\ job' = render([job EXCEPT !.asked = @ + 1, !.asking = @ \cup {job.asked + 1},
                                 !.loading = TRUE])

ToolsDetected ==
    /\ job.kind = "window"
    /\ \E ask \in job.asking, ok \in BOOLEAN :
         job' = render([job EXCEPT !.asking = @ \ {ask}, !.loading = FALSE,
                                   !.tools = IF ok THEN <<ask>> ELSE <<0>>])

onProjectOpen ==
    /\ job.kind = "dock"
    /\ \E project \in Projects \ job.opening :
         job' = [job EXCEPT !.opening = @ \cup {project}]

\* The root of the editor is that of the last answer, not of the last question.
ProjectOpened ==
    /\ job.kind = "dock"
    /\ \E project \in job.opening, ok \in BOOLEAN :
         job' = [job EXCEPT !.opening = @ \ {project}, !.root = IF ok THEN project ELSE @]

-----------------------------------------------------------------------------
(* The rail, and the stop button.                                          *)

showPanel ==
    /\ job.kind = "dock"
    /\ \E panel \in Panels : job' = [job EXCEPT !.panel = IF @ = panel THEN Nothing ELSE panel]

\* The button shows what is shown; the operation it cancels is the last of the live stream.
FromTheState(op) == IF job.shown = Fixture THEN MaxEvents + 1 ELSE op    \* mutant
OpToCancel(op) == op
onStopBuild ==
    /\ job.kind = "window" /\ BuildRuns /\ lastBuildOpId # 0
    /\ job' = [job EXCEPT !.cancelled = @ \cup {OpToCancel(lastBuildOpId)}]

Init == \/ job = Docked
        \/ \E listening \in BOOLEAN, fixture \in {"finished", "running"} :
            job = Mounted(listening, fixture)
Next == \/ Receive \/ loadFixture \/ Type
        \/ \E section \in Sections : Click(section)
        \/ Answer
        \/ refreshTools \/ ToolsDetected \/ onProjectOpen \/ ProjectOpened
        \/ showPanel \/ onStopBuild
Spec == Init /\ [][Next]_job

-----------------------------------------------------------------------------
\* An answer that is drawn was asked for over what the window still shows: no event, fixture
\* or toolchain report came between, and none is drawn whose shape the panel does not know.
AnswersAreCurrent ==
    job.kind = "window" => \A a \in job.answers : a.drawn = Drawn /\ debug_handler(a.section) # "shapeless"

\* The table says that it loads only while an answer is out, and once all are in it has one.
ToolsSettle ==
    job.kind = "window" =>
    /\ job.loading => job.asking # {}
    /\ (job.asked > 0 /\ job.asking = {}) => job.tools # <<>>

\* Without a stream only fixtures are shown, and live events never mix with them.  The
\* operation the stop button names is a build the live stream announced, whatever is shown.
OneSource ==
    job.kind = "window" =>
    /\ job.shown = Live => job.listening /\ job.live # <<>>
    /\ job.cancelled \subseteq Started(job.live)

WindowIsConsistent == AnswersAreCurrent /\ ToolsSettle /\ OneSource

\* Not run, and false: an answer that is still out has a place to be drawn in.
AnswersAreDrawn == job.kind = "window" => \A c \in job.calls : c.drawn # Detached
\* Not run, and false: the report that is shown is that of the last question.
LastReportIsShown ==
    (job.kind = "window" /\ job.asking = {} /\ job.tools \notin {<<>>, <<0>>}) => job.tools = <<job.asked>>
=============================================================================
