---------------------------- MODULE BuildBackend ----------------------------
(***************************************************************************)
(* The build backend (crates/princess-build/src/backend.rs, artifacts.rs): *)
(* one call of MakeBackend::execute.  make runs under the command runner   *)
(* (BuildProcess); then a successful build has its compile database        *)
(* generated, which cleans the tree and builds it again, by bear or by the *)
(* wrapper shim; then the products are looked for, and build.finished is   *)
(* the last event.                                                         *)
(*                                                                         *)
(* A product on disk is "stale" if it is older than the build and "fresh"  *)
(* if this build made it.  The commands of the database step run one after *)
(* the other under a token of their own, so each is one step here.         *)
(***************************************************************************)
EXTENDS BuildProcess

CONSTANTS Products,     \* the files the project can build
          DefaultGoal   \* those that make builds when no target is named

ASSUME ProjectAssumption == DefaultGoal \subseteq Products

VARIABLES
    build_stage,    \* how far execute is
    refused,        \* the sink has refused an event (stream_error, or a ?)
    project,        \* the products the plan's command builds, the declared ones
    tree,           \* the state of each product on disk
    left,           \* the tree and the database as make left them
    cdb,            \* the compile database on disk, left by an earlier build
    build_status,   \* the status of the build
    artifacts,      \* the products found
    finished        \* build.finished has been accepted by the sink

results == <<project, tree, left, cdb, build_status, artifacts>>
backend == <<build_stage, refused, results, finished>>
buildVars == <<vars, backend>>

NoProject == [wanted |-> {}, declared |-> {}]
Present(t) == {x \in Products : t[x] # "absent"}

BuildInit ==
    /\ Init /\ ~spec.tee /\ spec.timeout
    /\ build_stage = "start" /\ refused = FALSE
    /\ project = NoProject
    /\ tree = [x \in Products |-> "absent"] /\ cdb = "entries"
    /\ left = [tree |-> tree, cdb |-> cdb]
    /\ build_status = "none" /\ artifacts = {} /\ finished = FALSE

-----------------------------------------------------------------------------
(* The run of make. *)

\* build.started is accepted, or refused.
GoOn(next) == build_stage' = next /\ UNCHANGED refused
GiveUpBuild == build_stage' = "err" /\ refused' = TRUE

Start ==
    /\ build_stage = "start"
    /\ GoOn("run") \/ GiveUpBuild
    /\ UNCHANGED <<vars, results, finished>>

\* The callback: log.append, and a build.diagnostic for each parsed.  The first
\* refusal is kept; the next chunk is offered all the same.
StreamChunk ==
    /\ build_stage = "run" /\ Push
    /\ refused' \in {refused, TRUE}
    /\ UNCHANGED <<build_stage, results, finished>>

\* Every other step of the run.
MakeStep ==
    /\ build_stage = "run"
    /\ \/ Machine \/ Outside \/ (BuildRunner /\ ~Push)
       \/ \E q \in Pipes : Reader(q)
    /\ UNCHANGED backend

\* Whoever is left of the run goes on.
BuildAftermath ==
    /\ build_stage # "run"
    /\ Machine \/ \E q \in Pipes : Reader(q)
    /\ UNCHANGED backend

RunOver == build_stage = "run" /\ pc = "done"

\* The sink has refused an event, or the runner has failed: the error is
\* returned, nothing more is emitted.
Fail ==
    /\ RunOver /\ (refused \/ result # "ok")
    /\ build_stage' = "err"
    /\ UNCHANGED <<vars, refused, results, finished>>

\* success(): exit code 0 and neither cancelled nor timed out.
ByExitCode(code) == IF code = 0 THEN "ok" ELSE IF cancelled THEN "cancelled" ELSE "failed" \* mutant
StatusOf(code) ==
    CASE cancelled -> "cancelled"
      [] ~cancelled /\ code = 0 /\ ~timed_out -> "ok"
      [] OTHER -> "failed"

\* A make that runs the goals of a set on tree t: what it may leave, and, if it
\* succeeds, what it does leave.  What is up to date is not made again.
Made(t, done) == [x \in Products |-> IF x \in done /\ t[x] = "absent" THEN "fresh" ELSE t[x]]

\* What the project is like matters from here on: the tree as it was before the
\* build, what the plan builds, what is declared.  The exit code is make's own.
AnyStatus(st) == {"database"}    \* mutant
AfterMake(st) == IF st = "ok" THEN {"database", "scan"} ELSE {"report"}

Outcome ==
    /\ RunOver /\ ~refused /\ result = "ok"
    /\ \E code \in (IF status = "exited" THEN {0, 1} ELSE {2}),
          wanted \in (SUBSET Products) \ {{}}, declared \in {{}, Products},
          before \in [Products -> {"absent", "stale"}], done \in SUBSET Products :
         /\ done \subseteq wanted /\ (code = 0 => done = wanted)
         /\ project' = [wanted |-> wanted, declared |-> declared]
         /\ tree' = Made(before, done)
         /\ left' = [tree |-> tree', cdb |-> cdb]
         /\ build_status' = StatusOf(code)
         /\ build_stage' \in AfterMake(build_status')
    /\ UNCHANGED <<vars, refused, cdb, artifacts, finished>>

\* report_failure: one to three notes.
Report ==
    /\ build_stage = "report"
    /\ GoOn("scan") \/ GiveUpBuild
    /\ UNCHANGED <<vars, results, finished>>

-----------------------------------------------------------------------------
(* The compile database. *)

DatabaseFrame == UNCHANGED <<vars, project, left, build_status, artifacts, finished>>

\* Is bear there?
ChooseProducer ==
    /\ build_stage = "database"
    /\ build_stage' \in {"bear_clean", "shim_install"}
    /\ DatabaseFrame /\ UNCHANGED <<refused, tree, cdb>>

\* Any step of it can return an error: a command that cannot be started, a file
\* that cannot be written, a database that is no JSON, an event refused.
DatabaseSteps == {"bear_clean", "bear", "shim_install", "shim_clean", "shim"}
DatabaseError ==
    /\ build_stage \in DatabaseSteps
    /\ build_stage' = "db_error"
    /\ DatabaseFrame /\ UNCHANGED <<refused, tree, cdb>>

ShimInstall ==
    /\ build_stage = "shim_install"
    /\ build_stage' = "shim_clean"
    /\ DatabaseFrame /\ UNCHANGED <<refused, tree, cdb>>

\* run_clean_step, best effort: without a clean goal the tree stays warm.
CleanStep ==
    /\ build_stage \in {"bear_clean", "shim_clean"}
    /\ build_stage' \in {"db_error",
                        IF build_stage = "bear_clean" THEN "bear" ELSE "shim"}
    /\ \E gone \in SUBSET Products :
          tree' = [x \in Products |-> IF x \in gone THEN "absent" ELSE tree[x]]
    /\ DatabaseFrame /\ UNCHANGED <<refused, cdb>>

\* bear -- make: it writes what was compiled over the database, and if that is
\* nothing, an empty array.  The project was rebuilt from the plan, without the
\* targets: make builds its default goal.  If bear fails, the shim is tried.
Bear ==
    /\ build_stage = "bear"
    /\ \E made \in SUBSET (DefaultGoal \ Present(tree)) :
         /\ tree' = Made(tree, made)
         /\ cdb' = IF made = {} THEN "empty" ELSE "entries"
    /\ \/ build_stage' \in {"shim_install", "db_error"}
       \/ build_stage' = "scan" /\ DefaultGoal \subseteq Present(tree')
    /\ DatabaseFrame /\ UNCHANGED refused

\* make with CC pointing at the shim.  How it ends is not looked at; a database
\* without entries is not written.
Shim ==
    /\ build_stage = "shim"
    /\ \E tried \in SUBSET (DefaultGoal \ Present(tree)), made \in SUBSET Products :
         /\ made \subseteq tried
         /\ tree' = Made(tree, made)
         /\ cdb' = IF tried = {} THEN cdb ELSE "entries"
    /\ build_stage' \in {"scan", "db_error"}
    /\ DatabaseFrame /\ UNCHANGED refused

\* The failure is noted, and does not fail the build.
FailWithDatabase == "err"    \* mutant
AfterDatabaseError == "scan"

NoteDatabaseError ==
    /\ build_stage = "db_error"
    /\ GoOn(AfterDatabaseError) \/ GiveUpBuild
    /\ DatabaseFrame /\ UNCHANGED <<tree, cdb>>

-----------------------------------------------------------------------------
(* The end of the build. *)

\* discover: the declared products that exist, and those this build has made.
DeclaredUnseen(t) == project.declared \cup {x \in Products : t[x] = "fresh"}    \* mutant
Discover(t) ==
    (project.declared \cap Present(t)) \cup {x \in Products : t[x] = "fresh"}

Scan ==
    /\ build_stage = "scan"
    /\ artifacts' = IF build_status = "ok" THEN Discover(tree) ELSE {}
    /\ build_stage' = "finish"
    /\ UNCHANGED <<vars, refused, project, tree, left, cdb, build_status, finished>>

\* One artifact.changed per product, then build.finished; or one is refused.
Finish ==
    /\ build_stage = "finish"
    /\ \/ GoOn("ok") /\ finished' = TRUE
       \/ GiveUpBuild /\ UNCHANGED finished
    /\ UNCHANGED <<vars, results>>

Execute ==
    \/ Start \/ Fail \/ Outcome \/ Report
    \/ ChooseProducer \/ ShimInstall \/ CleanStep \/ Bear \/ Shim
    \/ DatabaseError \/ NoteDatabaseError
    \/ Scan \/ Finish

BuildReturned == build_stage \in {"ok", "err"}
BuildTerminating == BuildReturned /\ UNCHANGED buildVars

BuildNext ==
    \/ Execute \/ StreamChunk \/ MakeStep \/ BuildAftermath \/ BuildTerminating

\* The thread that calls execute is the runner thread.
BuildFairness ==
    /\ WF_buildVars(Execute \/ StreamChunk \/ (MakeStep /\ BuildRunner /\ ~ReapFails))
    /\ \A q \in Pipes : WF_buildVars((MakeStep \/ BuildAftermath) /\ Reader(q))
    /\ \A p \in Procs : WF_buildVars((MakeStep \/ BuildAftermath) /\ Die(p))

BuildSpec == BuildInit /\ [][BuildNext]_buildVars /\ BuildFairness

-----------------------------------------------------------------------------
(* Properties. *)

BuildTypeOK ==
    /\ TypeOK
    /\ build_stage \in DatabaseSteps \cup
         {"start", "run", "report", "database", "db_error", "scan", "finish", "ok", "err"}
    /\ refused \in BOOLEAN /\ finished \in BOOLEAN
    /\ project \in [wanted : SUBSET Products, declared : SUBSET Products]
    /\ tree \in [Products -> {"absent", "stale", "fresh"}]
    /\ cdb \in {"entries", "empty"}
    /\ left \in [tree : [Products -> {"absent", "stale", "fresh"}],
                 cdb : {"entries", "empty"}]
    /\ build_status \in {"none", "ok", "failed", "cancelled"}
    /\ artifacts \subseteq Products

\* What build.finished says of make is what happened to make: ok only if it ended
\* by itself before a cancellation or the deadline killed it, and then every
\* unit of its output was streamed; cancelled only if the token was set, and
\* then nothing of the build goes on running.
StatusIsEarned ==
    finished =>
        /\ build_status = "ok" =>
             /\ status = "exited" /\ ~cancelled /\ ~timed_out
             /\ pushed = written
        /\ build_status = "cancelled" =>
             cancel /\ \A p \in group : Running(p) => p \in doomed

\* The products build.finished reports are on disk when it is sent, although
\* the database step has cleaned and rebuilt the tree since make ended
\* (backend.rs 666-672); a product that is neither declared nor made by this
\* build is not reported.
ReportedIsThere ==
    finished => artifacts \subseteq Present(tree)
                /\ \A x \in artifacts : tree[x] = "fresh" \/ x \in project.declared

\* A build that did not succeed leaves the tree and the database as make left
\* them: nothing is cleaned, nothing is scanned.
StoppedBuildIsLeftAlone ==
    build_status \in {"failed", "cancelled"} =>
        tree = left.tree /\ cdb = left.cdb /\ artifacts = {}

\* What is reported of the tree is there, and only a build that succeeded has more done to it.
TreeIsReported == ReportedIsThere /\ StoppedBuildIsLeftAlone

\* Once the runner has returned an outcome, build.finished follows or the sink
\* refuses an event, whatever happens to the database: "a database failure must
\* never fail the build itself" (backend.rs 680).
OutcomeIsFinished == (RunOver /\ result = "ok") ~> (finished \/ refused)

\* The two claims the code does not keep.

\* "build.finished <- ALWAYS, on every path", "even when spawn itself fails"
\* (backend.rs 17-25), while the sink accepts every event.
AlwaysFinished == BuildReturned => finished \/ refused

\* "clangd simply gets no project index" (backend.rs 681): the database step
\* takes no product away that make has built.
DatabaseIsHarmless ==
    finished /\ build_status = "ok" => project.wanted \subseteq Present(tree)

=============================================================================
