----------------------------- MODULE OutputText -----------------------------
(***************************************************************************)
(* What is recognised in the text that children print: the problems of a   *)
(* build (diagnostics.rs of princess-build, and the second parser of       *)
(* princess-cli) and what a guest says on its serial line (serial.rs of    *)
(* princess-run, and its shorter copy in princess-cli).                    *)
(*                                                                         *)
(* A line is its shape.  For the comparison of the two diagnostic parsers  *)
(* it is the sequence of its parts between colons.                         *)
(***************************************************************************)
EXTENDS Naturals, Sequences, SequencesExt, FiniteSets

CONSTANTS
    MaxLines,   \* bound on the lines of a transcript
    MaxParts    \* bound on the parts of a line

VARIABLE job

None == "none"

-----------------------------------------------------------------------------
(* DiagnosticParser: state across lines. *)

Families == {"Gcc", "Clang", "Ld", "Nasm"}
Sources == Families

Problem(place, severity, mark) ==
    [is |-> "problem", place |-> place, severity |-> severity, mark |-> mark]
Plain(is) == [is |-> is, place |-> None, severity |-> "error", mark |-> None]
Recipe(family) == [is |-> "recipe", place |-> None, severity |-> "error", mark |-> family]

\* classify_source: the marks of a tool, then the tool that runs.
classify_source(mark, family) ==
    CASE mark = "nasm" \/ family = "Nasm" -> "Nasm"
      [] family \in {"Clang", "Ld"} -> family
      [] family = "Unknown" /\ mark = "clang" -> "Clang"
      [] mark = "gcc" -> "Gcc"
      [] mark = "ld" -> "Ld"
      [] OTHER -> "Gcc"

default_source(family) == IF family = "Unknown" THEN "Gcc" ELSE family

Raw(line, source) ==
    [place |-> line.place, severity |-> line.severity, source |-> source, folded |-> <<>>]

\* parse_line_for: the colon form, the summary of make, the form of ld.
parse_line_for(line, family) ==
    CASE line.is = "problem" -> <<Raw(line, classify_source(line.mark, family))>>
      [] line.is = "make" -> <<Raw(line, default_source(family))>>
      [] line.is = "ld" -> <<Raw(line, "Ld")>>
      [] OTHER -> <<>>

Pinned(family, line) == family    \* mutant
FamilyAfter(family, line) == IF line.is = "recipe" THEN line.mark ELSE family

KeepOnNoise(last, line) == last    \* mutant
AfterNoise(last, line) == <<>>

\* What a line that is no problem does to the last one.  A fragment that is already in
\* the message is not added, and marks of clang change the source.
Fold(last, line) ==
    IF line.is \notin {"echo", "caret"} THEN AfterNoise(last, line)
    ELSE IF last = <<>> THEN <<>>
    ELSE LET raw == last[1]
         IN  <<[raw EXCEPT !.folded = IF line.is \in ToSet(raw.folded) THEN @
                                      ELSE Append(@, line.is),
                           !.source = IF line.is = "caret" THEN "Clang" ELSE @]>>

\* feed: a blank line is not looked at.
Feed ==
    /\ job.kind = "transcript" /\ job.at <= Len(job.text)
    /\ LET line == job.text[job.at]
           family == FamilyAfter(job.family, line)
           found == parse_line_for(line, family)
           read == [job EXCEPT !.at = @ + 1]
       IN  job' = IF line.is = "blank" THEN read
                  ELSE [read EXCEPT !.family = family, !.out = @ \o found,
                                    !.last = IF found # <<>> THEN found ELSE Fold(@, line)]

\* feed_text_dedup: the flushed copy of the last problem replaces the first that is at
\* its place and from its source; identical problems are one.
same_problem(a, b) == a.place = b.place /\ a.source = b.source

Distinct(s) == SelectSeq([i \in DOMAIN s |-> <<i, s[i]>>],
                         LAMBDA p : \A j \in 1..(p[1] - 1) : s[j] # p[2])
dedup(s) == [i \in DOMAIN Distinct(s) |-> Distinct(s)[i][2]]

feed_text_dedup(out, pending) ==
    IF pending = <<>> THEN dedup(out)
    ELSE LET same == {i \in DOMAIN out : same_problem(out[i], pending[1])}
             kept == IF same = {} THEN out
                     ELSE RemoveAt(out, CHOOSE i \in same : \A j \in same : i <= j)
         IN  dedup(kept \o pending)

\* parse_diagnostics of javac.rs: the flushed copy is added to the others.
parse_diagnostics(out, pending) == dedup(out \o pending)

Blocks ==
    [text : SeqOf({Problem("a:1", "error", None), Problem("a:1", "note", None),
                   Problem("b:2", "warning", "ld"), Recipe("Clang"), Recipe("Nasm"),
                   Plain("echo"), Plain("caret"), Plain("noise"), Plain("blank"),
                   Plain("make"), Plain("ld")}, MaxLines),
     family : {"Unknown", "Gcc"}]

Transcript(block) ==
    [kind |-> "transcript", text |-> block.text, pinned |-> block.family,
     family |-> block.family, at |-> 1, last |-> <<>>, out |-> <<>>]

-----------------------------------------------------------------------------
(* One line, two parsers.  parse_colon_form and split_location of the engine, *)
(* parse_line of the command line.                                            *)

Digits == {"5", "7"}
Severities == {"error", "fatal error", "warning", "note"}
Linkers == {"ld", "collect2"}
Drivers == {"gcc", "nasm"}
Parts == Digits \cup Severities \cup {"ld", "gcc", "file", "text"}

SeverityOf(word) == IF word = "fatal error" THEN "error" ELSE word
Nothing == [found |-> FALSE, severity |-> None, file |-> <<>>, numbers |-> <<>>]
Found(severity, file, numbers) ==
    [found |-> TRUE, severity |-> severity, file |-> file, numbers |-> numbers]

\* At most two groups of digits, from the right, and something before them.
split_location(location) ==
    LET n == Len(location)
        Number(i) == i >= 1 /\ location[i] \in Digits
        numbers == IF Number(n) THEN IF Number(n - 1) THEN 2 ELSE 1 ELSE 0
    IN  <<SubSeq(location, 1, n - numbers), SubSeq(location, n - numbers + 1, n)>>

\* The earliest marker wins; a file without a line number holds no space.
Markers(line) == {i \in 2..(Len(line) - 1) : line[i] \in Severities}
Marker(line) == CHOOSE i \in Markers(line) : \A j \in Markers(line) : i <= j
parse_colon_form(line) ==
    IF Markers(line) = {} THEN Nothing
    ELSE LET at == Marker(line)
             place == split_location(SubSeq(line, 1, at - 1))
         IN  IF place[1] = <<>> \/ (place[2] = <<>> /\ Len(place[1]) > 1) THEN Nothing
             ELSE Found(SeverityOf(line[at]), place[1], place[2])

\* `ld: file: message', when the line holds no marker.
parse_ld_form(line) ==
    IF Len(line) >= 3 /\ line[1] = "ld" THEN Found("error", <<line[2]>>, <<>>) ELSE Nothing

EngineLine(line) ==
    IF parse_colon_form(line).found THEN parse_colon_form(line) ELSE parse_ld_form(line)

\* severity_of knows the first word of `fatal error' only.
severity_of(word) == IF word \in {"error", "warning", "note"} THEN word ELSE None

ToolLine(line) ==
    IF Len(line) < 2 \/ line[1] \notin Linkers \cup Drivers THEN Nothing
    ELSE IF severity_of(line[2]) # None THEN Found(severity_of(line[2]), <<>>, <<>>)
    ELSE IF line[1] \in Linkers THEN Found("error", <<>>, <<>>) ELSE Nothing

LocatedLine(line) ==
    LET cols == IF Len(line) >= 3 /\ line[3] \in Digits THEN 1 ELSE 0
    IN  IF Len(line) < 3 + cols \/ line[2] \notin Digits THEN Nothing
        ELSE IF severity_of(line[3 + cols]) = None THEN Nothing
        ELSE Found(line[3 + cols], <<line[1]>>, SubSeq(line, 2, 2 + cols))

CliLine(line) == IF ToolLine(line).found THEN ToolLine(line) ELSE LocatedLine(line)

-----------------------------------------------------------------------------
(* The serial line of a guest. *)

SerialLines ==
    [banner : BOOLEAN, paging : {None, "on", "off"}, vector : {None, "#UD", "#PF"},
     fault : BOOLEAN, panic : BOOLEAN]

Serial(text) ==
    [kind |-> "serial", text |-> text, at |-> 1, banner |-> 0, panic |-> 0,
     paging |-> None, vector |-> None, faults |-> <<>>]

Gate(vector, paging) == IF vector = "#PF" THEN <<"#PF", paging>> ELSE <<vector, "not applicable">>

FaultFirst(observer, line) == observer.vector    \* mutant
VectorFor(observer, line) == IF line.vector # None THEN line.vector ELSE observer.vector

\* SerialObserver::feed.  A malformed exception or fault line is as if it were none.
Observe ==
    /\ job.kind = "serial" /\ job.at <= Len(job.text)
    /\ LET line == job.text[job.at]
           paging == IF line.paging # None THEN line.paging ELSE job.paging
       IN  job' = [job EXCEPT
             !.at = @ + 1,
             !.banner = IF @ = 0 /\ line.banner THEN job.at ELSE @,
             !.panic = IF @ = 0 /\ line.panic THEN job.at ELSE @,
             !.paging = paging,
             !.vector = IF line.vector # None THEN line.vector ELSE @,
             !.faults = IF line.fault
                        THEN Append(@, <<job.at, Gate(VectorFor(job, line), paging)>>) ELSE @]

-----------------------------------------------------------------------------
Init ==
    \/ \E block \in Blocks : job = Transcript(block)
    \/ \E line \in SeqOf(Parts, MaxParts) : job = [kind |-> "line", line |-> line]
    \/ \E text \in SeqOf({l \in SerialLines : ~(l.banner /\ l.panic)}, MaxLines - 1) :
         job = Serial(text)

Next == Feed \/ Observe

Spec == Init /\ [][Next]_job

-----------------------------------------------------------------------------
(* Properties. *)

Before(n, Test(_)) == LET hits == {i \in 1..n : Test(job.text[i])}
                      IN  IF hits = {} THEN 0 ELSE CHOOSE i \in hits : \A j \in hits : i >= j
IsProblem(line) == line.is \in {"problem", "make", "ld"}

\* Every problem printed is reported once, in order, under the tool that the recipe
\* line before it names.
ProblemsAreAttributed ==
    job.kind = "transcript" =>
        LET problems == SelectSeq([i \in 1..(job.at - 1) |-> i],
                                  LAMBDA i : IsProblem(job.text[i]))
            Tool(n) == LET r == Before(n, LAMBDA l : l.is = "recipe")
                       IN  IF r = 0 THEN job.pinned ELSE job.text[r].mark
        IN  /\ Len(job.out) = Len(problems)
            /\ \A k \in DOMAIN problems :
                 LET line == job.text[problems[k]]
                 IN  /\ job.out[k].place = line.place /\ job.out[k].severity = line.severity
                     /\ Tool(problems[k]) \in {"Clang", "Nasm"} /\ line.is = "problem" =>
                          job.out[k].source = Tool(problems[k])

\* Only what follows a problem, with nothing but its own block and blank lines between,
\* is folded into it.
BlockIsItsOwn ==
    job.kind = "transcript" =>
        LET start == Before(job.at - 1, IsProblem)
            block == {job.text[i].is : i \in (start + 1)..(job.at - 1)} \ {"blank"}
        IN  IF start = 0 \/ ~(block \subseteq {"echo", "caret"}) THEN job.last = <<>>
            ELSE job.last # <<>> /\ ToSet(job.last[1].folded) = block

\* A problem with a place, a severity and a text is seen by both parsers, in the same
\* place and as serious; only `fatal error' is not.
ParsersAgree ==
    job.kind = "line" =>
        LET engine == EngineLine(job.line)
            cli == CliLine(job.line)
            Located(n) ==
                /\ Len(job.line) = n + 2 /\ job.line[1] = "file"
                /\ \A i \in 2..n : job.line[i] \in Digits
                /\ job.line[n + 1] \in Severities /\ job.line[n + 2] = "text"
        IN  /\ \A n \in {2, 3} : Located(n) =>
                 /\ engine.found /\ (cli.found <=> job.line[n + 1] # "fatal error")
            /\ engine.found /\ cli.found /\ cli.file # <<>> /\ Len(engine.file) = 1 =>
                 engine = cli

\* A fault is reported with the vector that the guest named last, and a page fault is
\* trusted if the guest said last that paging is on; the first banner and the first
\* panic count.
SerialIsWitnessed ==
    job.kind = "serial" =>
        LET Lines(Test(_)) == {i \in 1..(job.at - 1) : Test(job.text[i])}
            First(hits) == IF hits = {} THEN 0 ELSE CHOOSE i \in hits : \A j \in hits : i <= j
            Vector(n) == LET v == Before(n, LAMBDA l : l.vector # None)
                         IN  IF v = 0 THEN None ELSE job.text[v].vector
            Paging(n) == LET p == Before(n, LAMBDA l : l.paging # None)
                         IN  IF p = 0 THEN None ELSE job.text[p].paging
        IN  /\ job.banner = First(Lines(LAMBDA l : l.banner))
            /\ job.panic = First(Lines(LAMBDA l : l.panic))
            /\ [k \in DOMAIN job.faults |-> job.faults[k][1]] =
                 SelectSeq([i \in 1..(job.at - 1) |-> i], LAMBDA i : job.text[i].fault)
            /\ \A k \in DOMAIN job.faults :
                 LET n == job.faults[k][1]
                     v == job.faults[k][2]
                 IN  /\ v[1] = Vector(n)
                     /\ v[2] = IF Vector(n) = "#PF" THEN Paging(n) ELSE "not applicable"

OutputIsUnderstood ==
    ProblemsAreAttributed /\ BlockIsItsOwn /\ ParsersAgree /\ SerialIsWitnessed

\* Not so: the flushed note takes the place of the error it belongs to, which is at the
\* same place and from the same tool, against the comment of dedup.
ErrorSurvivesItsNote ==
    job.kind = "transcript" =>
        \A i \in DOMAIN job.out : \E d \in ToSet(feed_text_dedup(job.out, job.last)) :
            d.place = job.out[i].place /\ d.severity = job.out[i].severity

\* Not so: javac.rs reports a problem with an echo twice, without it and with it.
JavacReportsOnce ==
    job.kind = "transcript" =>
        \A d, e \in ToSet(parse_diagnostics(job.out, job.last)) :
            d.place = e.place /\ d.severity = e.severity /\ d.source = e.source => d = e

\* Not so: `fatal error' is no severity to the command line.
FatalIsSeen ==
    job.kind = "line" =>
        ~(/\ EngineLine(job.line).found /\ Len(job.line) = 5 /\ job.line[1] = "file"
          /\ job.line[2] \in Digits /\ job.line[3] \in Digits /\ ~CliLine(job.line).found)

=============================================================================
