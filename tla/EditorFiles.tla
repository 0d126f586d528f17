---------------------------- MODULE EditorFiles ----------------------------
(***************************************************************************)
(* The editor panel of the page (src/views/registry.ts) and the two file   *)
(* commands of the shell behind it (src-tauri/src/fs_handler.rs).  A click *)
(* sends a command and goes on; its answer is handled when it comes.  The  *)
(* shell runs commands on a pool of threads, so two of them can be in the  *)
(* file system at the same time.                                           *)
(*                                                                         *)
(* Text is abstract: the path it was read from, the edits in it, and how   *)
(* much of it is there.                                                    *)
(***************************************************************************)
EXTENDS Naturals, FiniteSets

CONSTANTS
    Paths,      \* files the user may pick
    Calls,      \* commands of the page, each sent once at most
    NoPath,     \* the scratch buffer
    NoInode,    \* a name that is not there
    MaxEdits    \* bound on the keystrokes

ASSUME EditorAssumption ==
    /\ MaxEdits \in Nat /\ Paths \cap Calls = {}
    /\ NoPath \notin Paths /\ NoInode \notin Paths \cup Calls

VARIABLES
    place,      \* where a path leads, seen from the root of the project
    page,       \* the closure of the editor panel, and the edits so far
    calls,      \* per command, where it is
    target,     \* per path, the inode it names
    tmp,        \* per path, the inode its temporary name names
    data,       \* per inode, its text
    overlapped  \* history: paths that two saves wrote at the same time

vars == <<place, page, calls, target, tmp, data, overlapped>>
disk == <<target, tmp, data>>

Places == {"inside", "outside", "link", "climbs", "directory"}
Parts == {"whole", "prefix", "half", "empty", "torn"}
Text(p, n, part) == [of |-> p, edit |-> n, part |-> part]
NoText == Text(NoPath, 0, "whole")

Inodes == Paths \cup Calls
Texts == [of : Paths \cup {NoPath}, edit : 0 .. MaxEdits, part : Parts]
Steps == {"unsent", "read", "check", "create", "fill", "rename", "cleanup",
          "answered", "handled"}
Idle == [kind |-> "none", step |-> "unsent", path |-> NoPath, text |-> NoText,
         root |-> "own", ok |-> FALSE, fd |-> NoInode]

Init ==
    /\ place \in [Paths -> Places]
    /\ page = [path |-> NoPath, text |-> NoText, dirty |-> FALSE, project |-> FALSE,
               edits |-> 0]
    /\ calls = [c \in Calls |-> Idle]
    /\ target = [p \in Paths |-> p]
    /\ tmp = [p \in Paths |-> NoInode]
    /\ data = [i \in Inodes |-> IF i \in Paths THEN Text(i, 0, "whole") ELSE NoText]
    /\ overlapped = {}

-----------------------------------------------------------------------------
(* The page. *)

\* rootFor: the opened project, otherwise the directory of the file.
RootFor == IF page.project THEN "project" ELSE "own"

Send(c, kind, path, text) ==
    calls' = [calls EXCEPT ![c] =
                [kind |-> kind, step |-> IF kind = "open" THEN "read" ELSE "check",
                 path |-> path, text |-> text, root |-> RootFor, ok |-> FALSE,
                 fd |-> NoInode]]

\* Pages before the answer: the path is remembered when the file is asked for.
PathEarly(p) == [page EXCEPT !.path = p]    \* mutant
PathWhileOpening(p) == page

Open(c, p) ==
    /\ calls[c].step = "unsent"
    /\ Send(c, "open", p, NoText)
    /\ page' = PathWhileOpening(p)
    /\ UNCHANGED <<place, disk, overlapped>>

\* Path and text are taken together, when the command is sent.
Save(c) ==
    /\ calls[c].step = "unsent" /\ page.path # NoPath
    /\ Send(c, "save", page.path, page.text)
    /\ UNCHANGED <<place, page, disk, overlapped>>

\* A keystroke in a loaded file.
Edit ==
    /\ page.text # NoText /\ page.edits < MaxEdits
    /\ page' = [page EXCEPT !.edits = @ + 1, !.text.edit = page.edits + 1,
                            !.dirty = TRUE]
    /\ UNCHANGED <<place, calls, disk, overlapped>>

SetProjectRoot ==
    /\ ~page.project
    /\ page' = [page EXCEPT !.project = TRUE]
    /\ UNCHANGED <<place, calls, disk, overlapped>>

\* openPath after its await: the file replaces what is in the editor.
Opened(c) ==
    /\ calls[c].step = "answered" /\ calls[c].kind = "open"
    /\ calls' = [calls EXCEPT ![c].step = "handled"]
    /\ page' = IF calls[c].ok
               THEN [page EXCEPT !.path = calls[c].path, !.text = calls[c].text,
                                 !.dirty = FALSE]
               ELSE page
    /\ UNCHANGED <<place, disk, overlapped>>

\* save after its await: whatever has happened to the editor since.
Saved(c) ==
    /\ calls[c].step = "answered" /\ calls[c].kind = "save"
    /\ calls' = [calls EXCEPT ![c].step = "handled"]
    /\ page' = IF calls[c].ok THEN [page EXCEPT !.dirty = FALSE] ELSE page
    /\ UNCHANGED <<place, disk, overlapped>>

Page ==
    \/ \E c \in Calls : (\E p \in Paths : Open(c, p)) \/ Save(c) \/ Opened(c) \/ Saved(c)
    \/ Edit \/ SetProjectRoot

-----------------------------------------------------------------------------
(* The shell. *)

Answer(c, ok, text) ==
    calls' = [calls EXCEPT ![c].step = "answered", ![c].ok = ok, ![c].text = text]

\* join_checked refuses "..", the canonical path must be under the root (a link
\* leads out of any root), and it must be a regular file.
Granted(c) ==
    \/ place[calls[c].path] = "inside"
    \/ place[calls[c].path] = "outside" /\ calls[c].root = "own"

\* A file beyond MAX_READ_BYTES comes as a prefix.
Shown(text) ==
    IF text.part = "whole" THEN {text, [text EXCEPT !.part = "prefix"]} ELSE {text}

FsRead(c) ==
    /\ calls[c].step = "read"
    /\ \/ Granted(c) /\ \E text \in Shown(data[target[calls[c].path]]) : Answer(c, TRUE, text)
       \/ Answer(c, FALSE, NoText)
    /\ UNCHANGED <<place, page, disk, overlapped>>

Writing(c) == calls[c].step \in {"create", "fill", "rename", "cleanup"}

FsWrite(c) ==
    /\ calls[c].step = "check"
    /\ IF Granted(c)
       THEN /\ calls' = [calls EXCEPT ![c].step = "create"]
            /\ overlapped' = overlapped \cup
                 {p \in {calls[c].path} : \E d \in Calls : Writing(d) /\ calls[d].path = p}
       ELSE Answer(c, FALSE, calls[c].text) /\ UNCHANGED overlapped
    /\ UNCHANGED <<place, page, disk>>

\* The inode that fs::write opens: the temporary name is that of the process,
\* not of the call.
InPlace(c) == target[calls[c].path]    \* mutant
OpenInode(c) == IF tmp[calls[c].path] = NoInode THEN c ELSE tmp[calls[c].path]

\* fs::write opens the temporary file, truncating it ...
Create(c) ==
    /\ calls[c].step = "create"
    /\ LET i == OpenInode(c) IN
         \/ /\ tmp' = [tmp EXCEPT ![calls[c].path] = i]
            /\ data' = [data EXCEPT ![i] = [calls[c].text EXCEPT !.part = "empty"]]
            /\ calls' = [calls EXCEPT ![c].step = "fill", ![c].fd = i]
         \/ calls' = [calls EXCEPT ![c].step = "cleanup"] /\ UNCHANGED <<tmp, data>>
    /\ UNCHANGED <<place, page, target, overlapped>>

\* ... and writes through the handle, whatever the inode is called by now.
\* Over the text of another call, the end of the longer one stays.
Over(old, new) ==
    IF old.part = "empty" THEN {new} ELSE {new, [new EXCEPT !.part = "torn"]}

Fill(c) ==
    /\ calls[c].step = "fill"
    /\ LET i == calls[c].fd IN
         \/ /\ \E text \in Over(data[i], calls[c].text) : data' = [data EXCEPT ![i] = text]
            /\ calls' = [calls EXCEPT ![c].step = "rename"]
         \/ /\ data' = [data EXCEPT ![i].part = "half"]
            /\ calls' = [calls EXCEPT ![c].step = "cleanup"]
    /\ UNCHANGED <<place, page, target, tmp, overlapped>>

\* rename fails when another call has taken the temporary file away.
Rename(c) ==
    /\ calls[c].step = "rename"
    /\ LET p == calls[c].path IN
         \/ /\ tmp[p] # NoInode
            /\ target' = [target EXCEPT ![p] = tmp[p]]
            /\ tmp' = [tmp EXCEPT ![p] = NoInode]
            /\ Answer(c, TRUE, calls[c].text)
         \/ /\ calls' = [calls EXCEPT ![c].step = "cleanup"]
            /\ UNCHANGED <<target, tmp>>
    /\ UNCHANGED <<place, page, data, overlapped>>

\* remove_file on the error paths, its own error ignored.
KeepTmp(c) == tmp    \* mutant
RemoveTmp(c) == [tmp EXCEPT ![calls[c].path] = NoInode]

Cleanup(c) ==
    /\ calls[c].step = "cleanup"
    /\ tmp' = RemoveTmp(c)
    /\ Answer(c, FALSE, calls[c].text)
    /\ UNCHANGED <<place, page, target, data, overlapped>>

Shell ==
    \E c \in Calls :
        FsRead(c) \/ FsWrite(c) \/ Create(c) \/ Fill(c) \/ Rename(c) \/ Cleanup(c)

-----------------------------------------------------------------------------
Idling == \A c \in Calls : calls[c].step = "handled"
Terminating == Idling /\ UNCHANGED vars

Next == Page \/ Shell \/ Terminating

Spec == Init /\ [][Next]_vars

-----------------------------------------------------------------------------
(* Properties. *)

TypeOK ==
    /\ place \in [Paths -> Places]
    /\ page \in [path : Paths \cup {NoPath}, text : Texts, dirty : BOOLEAN,
                 project : BOOLEAN, edits : 0 .. MaxEdits]
    /\ calls \in [Calls -> [kind : {"none", "open", "save"}, step : Steps,
                            path : Paths \cup {NoPath}, text : Texts,
                            root : {"own", "project"}, ok : BOOLEAN,
                            fd : Inodes \cup {NoInode}]]
    /\ target \in [Paths -> Inodes] /\ tmp \in [Paths -> Inodes \cup {NoInode}]
    /\ data \in [Inodes -> Texts] /\ overlapped \subseteq Paths

\* What is saved under a path was read from it: whatever is opened while a save
\* is on its way, the text of one file never lands in another.
NoCrossWrite == \A p \in Paths : data[target[p]].of = p

\* A save that no other save of the file overlaps replaces the file as a whole or
\* leaves it alone, also when it is cut short at any point: the order of
\* fs_write, lines 211-225, "a crash or a full disk then leaves the original
\* source file intact instead of half-written".
LoneSaveIsWhole ==
    \A p \in Paths \ overlapped : data[target[p]].part \in {"whole", "prefix"}

\* No command leaves a temporary file behind, even when one takes the file of
\* another away.
NoLitter ==
    (\A c \in Calls : ~Writing(c)) => \A p \in Paths : tmp[p] = NoInode

\* A save by itself is all or nothing, on the path it saves and beside it.
SaveIsWhole == LoneSaveIsWhole /\ NoLitter

\* "Write a temporary file first, then rename, to avoid half a file"
\* (10-contracts.md line 113), however often the user presses Ctrl-S.  The code
\* does not keep this: all calls of the process share one temporary name.
SavedIsWhole == \A p \in Paths : data[target[p]].part \in {"whole", "prefix"}

=============================================================================
