---------------------------- MODULE DesktopProofs ----------------------------
(***************************************************************************)
(* Proofs about the commands of the desktop shell.                         *)
(*                                                                         *)
(* Opening and saving, for any set of files, commands and edits: the text  *)
(* of one file never lands in another, and a save that no other save of    *)
(* the file overlaps is all or nothing.                                    *)
(*                                                                         *)
(* The long operations, for any finite set of commands of any kind and any *)
(* number of cancels: the inductive invariant of Shell, and that a cancel  *)
(* is answered truthfully and never reaches an operation that has answered.*)
(***************************************************************************)
EXTENDS EditorFiles, Shell, FiniteSetTheorems, TLAPS

-----------------------------------------------------------------------------
(* Types. *)

CallRecord ==
    [kind : {"none", "open", "save"}, step : Steps, path : Paths \cup {NoPath},
     text : Texts, root : {"own", "project"}, ok : BOOLEAN, fd : Inodes \cup {NoInode}]

LEMMA NoTextIsText == NoText \in Texts
BY EditorAssumption DEF NoText, Text, Texts, Parts

\* A command that becomes a well-typed record is alone to change.
LEMMA OneCallChanges ==
    ASSUME TypeOK, NEW c \in Calls, NEW r \in CallRecord, calls' = [calls EXCEPT ![c] = r]
    PROVE  /\ calls' \in [Calls -> CallRecord] /\ calls'[c] = r
           /\ \A d \in Calls : d # c => calls'[d] = calls[d]
BY DEF TypeOK, CallRecord

\* What a command becomes when it is answered.
LEMMA AnswerIsTyped ==
    ASSUME TypeOK, NEW c \in Calls, NEW ok \in BOOLEAN, NEW text \in Texts,
           Answer(c, ok, text)
    PROVE  /\ calls' \in [Calls -> CallRecord]
           /\ \A d \in Calls : d # c => calls'[d] = calls[d]
           /\ calls'[c].step = "answered" /\ calls'[c].ok = ok /\ calls'[c].text = text
           /\ calls'[c].kind = calls[c].kind /\ calls'[c].path = calls[c].path
           /\ calls'[c].fd = calls[c].fd
<1> DEFINE r == [calls[c] EXCEPT !.step = "answered", !.ok = ok, !.text = text]
<1>1. calls \in [Calls -> CallRecord] /\ calls[c] \in CallRecord
  BY DEF TypeOK, CallRecord
<1>2. r \in CallRecord
  BY <1>1 DEF CallRecord, Steps
<1>3. calls' = [calls EXCEPT ![c] = r]
  BY <1>1 DEF Answer, CallRecord
<1>4. /\ calls' \in [Calls -> CallRecord] /\ calls'[c] = r
      /\ \A d \in Calls : d # c => calls'[d] = calls[d]
  BY <1>2, <1>3, OneCallChanges
<1>5. QED
  BY <1>1, <1>4 DEF CallRecord

\* What a command becomes when it goes on.
LEMMA StepIsTyped ==
    ASSUME TypeOK, NEW c \in Calls, NEW step \in Steps,
           calls' = [calls EXCEPT ![c].step = step]
    PROVE  /\ calls' \in [Calls -> CallRecord]
           /\ \A d \in Calls : d # c => calls'[d] = calls[d]
           /\ calls'[c].step = step /\ calls'[c].fd = calls[c].fd
           /\ calls'[c].kind = calls[c].kind /\ calls'[c].path = calls[c].path
           /\ calls'[c].text = calls[c].text /\ calls'[c].ok = calls[c].ok
<1> DEFINE r == [calls[c] EXCEPT !.step = step]
<1>1. calls \in [Calls -> CallRecord] /\ calls[c] \in CallRecord
  BY DEF TypeOK, CallRecord
<1>2. r \in CallRecord
  BY <1>1 DEF CallRecord
<1>3. calls' = [calls EXCEPT ![c] = r]
  BY <1>1 DEF CallRecord
<1>4. /\ calls' \in [Calls -> CallRecord] /\ calls'[c] = r
      /\ \A d \in Calls : d # c => calls'[d] = calls[d]
  BY <1>2, <1>3, OneCallChanges
<1>5. QED
  BY <1>1, <1>4 DEF CallRecord

\* The same with the handle it has opened.
LEMMA HandleIsTyped ==
    ASSUME TypeOK, NEW c \in Calls, NEW step \in Steps, NEW fd \in Inodes,
           calls' = [calls EXCEPT ![c].step = step, ![c].fd = fd]
    PROVE  /\ calls' \in [Calls -> CallRecord]
           /\ \A d \in Calls : d # c => calls'[d] = calls[d]
           /\ calls'[c].step = step /\ calls'[c].fd = fd
           /\ calls'[c].kind = calls[c].kind /\ calls'[c].path = calls[c].path
           /\ calls'[c].text = calls[c].text
<1> DEFINE r == [calls[c] EXCEPT !.step = step, !.fd = fd]
<1>1. calls \in [Calls -> CallRecord] /\ calls[c] \in CallRecord
  BY DEF TypeOK, CallRecord
<1>2. r \in CallRecord
  BY <1>1 DEF CallRecord
<1>3. calls' = [calls EXCEPT ![c] = r]
  BY <1>1 DEF CallRecord
<1>4. /\ calls' \in [Calls -> CallRecord] /\ calls'[c] = r
      /\ \A d \in Calls : d # c => calls'[d] = calls[d]
  BY <1>2, <1>3, OneCallChanges
<1>5. QED
  BY <1>1, <1>4 DEF CallRecord

\* What TypeOK asks for when the page stays and the calls are typed.
LEMMA DiskIsTyped ==
    ASSUME TypeOK, calls' \in [Calls -> CallRecord], UNCHANGED <<place, page>>,
           target' \in [Paths -> Inodes], tmp' \in [Paths -> Inodes \cup {NoInode}],
           data' \in [Inodes -> Texts], overlapped' \subseteq Paths
    PROVE  TypeOK'
BY DEF TypeOK, CallRecord

-----------------------------------------------------------------------------
(* The inductive invariant. *)

\* What the editor shows was read from the path it will be saved under, and so is
\* what a save carries and what a read answers.
TextIsOfItsPath ==
    /\ page.path # NoPath => page.text.of = page.path
    /\ \A c \in Calls :
         /\ calls[c].step # "unsent" => calls[c].path \in Paths
         /\ calls[c].step \in {"check", "create", "fill", "rename", "cleanup"}
              => calls[c].kind = "save" /\ calls[c].text.of = calls[c].path
         /\ calls[c].step = "read" => calls[c].kind = "open"
         /\ calls[c].kind = "open" /\ calls[c].step = "answered" /\ calls[c].ok
              => calls[c].text.of = calls[c].path

\* An inode belongs to one path: to that of the file it was, or of the save that
\* made it.  Names and handles lead to inodes of their own path.
Owner(i) == IF i \in Paths THEN i ELSE calls[i].path
Owned(i, p) ==
    /\ i \in Inodes /\ Owner(i) = p /\ data[i].of = p
    /\ i \in Calls => calls[i].step # "unsent"

NamesLeadHome ==
    /\ \A p \in Paths : Owned(target[p], p)
    /\ \A p \in Paths : tmp[p] # NoInode => Owned(tmp[p], p)
    /\ \A c \in Calls : calls[c].step = "fill" => Owned(calls[c].fd, calls[c].path)

\* A temporary name is somebody's, who will rename or remove it.
Holds(c) == calls[c].step \in {"fill", "rename", "cleanup"}
TmpIsHeld ==
    \A p \in Paths : tmp[p] # NoInode => \E c \in Calls : Holds(c) /\ calls[c].path = p

NoCrossInv == TypeOK /\ TextIsOfItsPath /\ NamesLeadHome /\ TmpIsHeld

LEMMA InitNoCross == Init => NoCrossInv
<1> SUFFICES ASSUME Init PROVE NoCrossInv
  OBVIOUS
<1>1. TypeOK
  <2>1. page \in [path : Paths \cup {NoPath}, text : Texts, dirty : BOOLEAN,
                  project : BOOLEAN, edits : 0 .. MaxEdits]
    BY NoTextIsText, EditorAssumption DEF Init
  <2>2. Idle \in CallRecord
    BY NoTextIsText DEF Idle, CallRecord, Steps
  <2>3. \A p \in Paths : Text(p, 0, "whole") \in Texts
    BY EditorAssumption DEF Text, Texts, Parts
  <2>4. data \in [Inodes -> Texts]
    BY <2>3, NoTextIsText DEF Init
  <2>5. target \in [Paths -> Inodes] /\ tmp \in [Paths -> Inodes \cup {NoInode}]
    BY DEF Init, Inodes
  <2>6. QED
    BY <2>1, <2>2, <2>4, <2>5 DEF Init, TypeOK, CallRecord
<1>2. TextIsOfItsPath
  BY DEF Init, TextIsOfItsPath, Idle
<1>3. NamesLeadHome
  BY EditorAssumption DEF Init, NamesLeadHome, Owned, Owner, Inodes, Idle, Text
<1>4. TmpIsHeld
  BY DEF Init, TmpIsHeld
<1>5. QED
  BY <1>1, <1>2, <1>3, <1>4 DEF NoCrossInv

\* Ownership outlives a step of a command that has begun, or that begins, as long as
\* the text of the inodes is of the same path.
LEMMA OwnedStays ==
    ASSUME NEW c \in Calls, calls'[c].step # "unsent",
           calls[c].step # "unsent" => calls'[c].path = calls[c].path,
           \A d \in Calls : d # c => calls'[d] = calls[d],
           NEW i, NEW p, Owned(i, p), data'[i].of = data[i].of
    PROVE  Owned(i, p)'
BY EditorAssumption DEF Owned, Owner, Inodes

-----------------------------------------------------------------------------
(* The page. *)

\* A command is sent with what the page shows.
LEMMA SendNoCross ==
    ASSUME NoCrossInv, NEW c \in Calls, (\E p \in Paths : Open(c, p)) \/ Save(c)
    PROVE  NoCrossInv'
<1>1. PICK r \in CallRecord :
        /\ calls' = [calls EXCEPT ![c] = r] /\ calls[c].step = "unsent"
        /\ r.path \in Paths
        /\ \/ r.kind = "open" /\ r.step = "read"
           \/ r.kind = "save" /\ r.step = "check" /\ r.text.of = r.path
  <2>1. RootFor \in {"own", "project"}
    BY DEF RootFor
  <2>2. CASE \E p \in Paths : Open(c, p)
    <3>1. PICK p \in Paths : Open(c, p)
      BY <2>2
    <3> DEFINE r == [kind |-> "open", step |-> "read", path |-> p, text |-> NoText,
                     root |-> RootFor, ok |-> FALSE, fd |-> NoInode]
    <3>2. r \in CallRecord
      BY <2>1, NoTextIsText DEF CallRecord, Steps
    <3>3. calls' = [calls EXCEPT ![c] = r] /\ calls[c].step = "unsent"
      BY <3>1 DEF Open, Send
    <3>4. QED
      BY <3>2, <3>3
  <2>3. CASE Save(c)
    <3> DEFINE r == [kind |-> "save", step |-> "check", path |-> page.path,
                     text |-> page.text, root |-> RootFor, ok |-> FALSE, fd |-> NoInode]
    <3>1. page.path \in Paths /\ page.text \in Texts /\ page.text.of = page.path
      BY <2>3 DEF Save, NoCrossInv, TypeOK, TextIsOfItsPath
    <3>2. r \in CallRecord
      BY <2>1, <3>1 DEF CallRecord, Steps
    <3>3. calls' = [calls EXCEPT ![c] = r] /\ calls[c].step = "unsent"
      BY <2>3 DEF Save, Send
    <3>4. QED
      BY <3>1, <3>2, <3>3
  <2>4. QED
    BY <2>2, <2>3
<1>2. UNCHANGED <<page, place, target, tmp, data, overlapped>>
  BY DEF Open, Save, PathWhileOpening, disk
<1>3. /\ calls' \in [Calls -> CallRecord] /\ calls'[c] = r
      /\ \A d \in Calls : d # c => calls'[d] = calls[d]
  BY <1>1, OneCallChanges DEF NoCrossInv
<1>4. TypeOK'
  BY <1>2, <1>3, DiskIsTyped DEF NoCrossInv, TypeOK
<1>5. TextIsOfItsPath'
  BY <1>1, <1>2, <1>3 DEF NoCrossInv, TextIsOfItsPath
<1>6. \A i, p : Owned(i, p) => Owned(i, p)'
  BY <1>1, <1>2, <1>3, OwnedStays
<1>7. NamesLeadHome'
  BY <1>1, <1>2, <1>3, <1>6 DEF NoCrossInv, NamesLeadHome
<1>8. TmpIsHeld'
  BY <1>1, <1>2, <1>3 DEF NoCrossInv, TmpIsHeld, Holds
<1>9. QED
  BY <1>4, <1>5, <1>7, <1>8 DEF NoCrossInv

\* An answer is handled: path and text are set together.
LEMMA AnswerNoCross ==
    ASSUME NoCrossInv, NEW c \in Calls, Opened(c) \/ Saved(c)
    PROVE  NoCrossInv'
<1>1. /\ calls[c].step = "answered" /\ calls' = [calls EXCEPT ![c].step = "handled"]
      /\ UNCHANGED <<place, target, tmp, data, overlapped>>
  BY DEF Opened, Saved, disk
<1>2. /\ calls' \in [Calls -> CallRecord]
      /\ \A d \in Calls : d # c => calls'[d] = calls[d]
      /\ calls'[c].step = "handled" /\ calls'[c].path = calls[c].path
  <2>1. "handled" \in Steps
    BY DEF Steps
  <2>2. QED
    BY <1>1, <2>1, StepIsTyped DEF NoCrossInv
<1>3. /\ page' \in [path : Paths \cup {NoPath}, text : Texts, dirty : BOOLEAN,
                    project : BOOLEAN, edits : 0 .. MaxEdits]
      /\ page'.path # NoPath => page'.text.of = page'.path
  <2>1. page' = page \/ page' = [page EXCEPT !.dirty = FALSE]
        \/ /\ calls[c].kind = "open" /\ calls[c].ok
           /\ page' = [page EXCEPT !.path = calls[c].path, !.text = calls[c].text,
                                   !.dirty = FALSE]
    BY DEF Opened, Saved
  <2>2. calls[c].path \in Paths \cup {NoPath} /\ calls[c].text \in Texts
    BY DEF NoCrossInv, TypeOK
  <2>3. calls[c].kind = "open" /\ calls[c].ok => calls[c].text.of = calls[c].path
    BY <1>1 DEF NoCrossInv, TextIsOfItsPath
  <2>4. QED
    BY <2>1, <2>2, <2>3 DEF NoCrossInv, TypeOK, TextIsOfItsPath
<1>4. TypeOK'
  BY <1>1, <1>2, <1>3 DEF NoCrossInv, TypeOK, CallRecord
<1>5. TextIsOfItsPath'
  BY <1>1, <1>2, <1>3 DEF NoCrossInv, TextIsOfItsPath
<1>6. \A i, p : Owned(i, p) => Owned(i, p)'
  BY <1>1, <1>2, OwnedStays
<1>7. NamesLeadHome'
  BY <1>1, <1>2, <1>6 DEF NoCrossInv, NamesLeadHome
<1>8. TmpIsHeld'
  BY <1>1, <1>2 DEF NoCrossInv, TmpIsHeld, Holds
<1>9. QED
  BY <1>4, <1>5, <1>7, <1>8 DEF NoCrossInv

\* Typing changes the edits of the text and not where it is from.
LEMMA TypingNoCross ==
    ASSUME NoCrossInv, Edit \/ SetProjectRoot
    PROVE  NoCrossInv'
<1>1. UNCHANGED <<place, calls, target, tmp, data, overlapped>>
  BY DEF Edit, SetProjectRoot, disk
<1>2. /\ page' \in [path : Paths \cup {NoPath}, text : Texts, dirty : BOOLEAN,
                    project : BOOLEAN, edits : 0 .. MaxEdits]
      /\ page'.path = page.path /\ page'.text.of = page.text.of
  <2>1. /\ page \in [path : Paths \cup {NoPath}, text : Texts, dirty : BOOLEAN,
                     project : BOOLEAN, edits : 0 .. MaxEdits]
        /\ page.text \in [of : Paths \cup {NoPath}, edit : 0 .. MaxEdits, part : Parts]
    BY DEF NoCrossInv, TypeOK, Texts
  <2>2. CASE Edit
    <3>1. page.edits + 1 \in 0 .. MaxEdits
      BY <2>1, <2>2, EditorAssumption DEF Edit
    <3> DEFINE t == [page.text EXCEPT !.edit = page.edits + 1]
    <3>2. t \in Texts /\ t.of = page.text.of
      BY <2>1, <3>1 DEF Texts
    <3>3. page' = [page EXCEPT !.edits = page.edits + 1, !.text = t, !.dirty = TRUE]
      BY <2>1, <2>2 DEF Edit
    <3>4. QED
      BY <2>1, <3>1, <3>2, <3>3
  <2>3. CASE SetProjectRoot
    BY <2>1, <2>3 DEF SetProjectRoot
  <2>4. QED
    BY <2>2, <2>3
<1>3. TypeOK'
  BY <1>1, <1>2 DEF NoCrossInv, TypeOK
<1>4. TextIsOfItsPath'
  BY <1>1, <1>2 DEF NoCrossInv, TextIsOfItsPath
<1>5. NamesLeadHome' /\ TmpIsHeld'
  BY <1>1 DEF NoCrossInv, NamesLeadHome, Owned, Owner, TmpIsHeld, Holds
<1>6. QED
  BY <1>3, <1>4, <1>5 DEF NoCrossInv

-----------------------------------------------------------------------------
(* The shell. *)

\* A read answers with what the path leads to.
LEMMA ReadNoCross ==
    ASSUME NoCrossInv, NEW c \in Calls, FsRead(c)
    PROVE  NoCrossInv'
<1>1. /\ calls[c].step = "read" /\ calls[c].path \in Paths /\ calls[c].kind = "open"
      /\ UNCHANGED <<place, page, target, tmp, data, overlapped>>
  BY DEF FsRead, disk, NoCrossInv, TextIsOfItsPath
<1>2. PICK text \in Texts, ok \in BOOLEAN :
        Answer(c, ok, text) /\ (ok => text.of = calls[c].path)
  <2>1. Owned(target[calls[c].path], calls[c].path)
    BY <1>1 DEF NoCrossInv, NamesLeadHome
  <2> DEFINE t == data[target[calls[c].path]]
  <2>2. t \in Texts /\ t.of = calls[c].path
    BY <1>1, <2>1 DEF Owned, NoCrossInv, TypeOK
  <2>3. ASSUME NEW text \in Shown(t) PROVE text \in Texts /\ text.of = calls[c].path
    BY <2>2, <2>3 DEF Shown, Texts, Parts
  <2>4. CASE \E text \in Shown(t) : Answer(c, TRUE, text)
    BY <2>3, <2>4
  <2>5. CASE Answer(c, FALSE, NoText)
    BY <2>5, NoTextIsText
  <2>6. QED
    BY <2>4, <2>5 DEF FsRead
<1>3. /\ calls' \in [Calls -> CallRecord]
      /\ \A d \in Calls : d # c => calls'[d] = calls[d]
      /\ calls'[c].step = "answered" /\ calls'[c].ok = ok /\ calls'[c].text = text
      /\ calls'[c].path = calls[c].path
  BY <1>2, AnswerIsTyped DEF NoCrossInv
<1>4. TypeOK'
  BY <1>1, <1>3, DiskIsTyped DEF NoCrossInv, TypeOK
<1>5. TextIsOfItsPath'
  BY <1>1, <1>2, <1>3 DEF NoCrossInv, TextIsOfItsPath
<1>6. \A i, p : Owned(i, p) => Owned(i, p)'
  BY <1>1, <1>3, OwnedStays
<1>7. NamesLeadHome'
  BY <1>1, <1>3, <1>6 DEF NoCrossInv, NamesLeadHome
<1>8. TmpIsHeld'
  BY <1>1, <1>3 DEF NoCrossInv, TmpIsHeld, Holds
<1>9. QED
  BY <1>4, <1>5, <1>7, <1>8 DEF NoCrossInv

\* The checks of a save.
LEMMA CheckNoCross ==
    ASSUME NoCrossInv, NEW c \in Calls, FsWrite(c)
    PROVE  NoCrossInv'
<1>1. /\ calls[c].step = "check" /\ calls[c].path \in Paths /\ calls[c].kind = "save"
      /\ calls[c].text \in Texts /\ calls[c].text.of = calls[c].path
      /\ UNCHANGED <<place, page, target, tmp, data>>
  BY DEF FsWrite, disk, NoCrossInv, TypeOK, TextIsOfItsPath
<1>2. /\ calls' \in [Calls -> CallRecord]
      /\ \A d \in Calls : d # c => calls'[d] = calls[d]
      /\ calls'[c].step \in {"create", "answered"}
      /\ calls'[c].text = calls[c].text
      /\ calls'[c].kind = calls[c].kind /\ calls'[c].path = calls[c].path
  <2>1. CASE calls' = [calls EXCEPT ![c].step = "create"]
    <3>1. "create" \in Steps
      BY DEF Steps
    <3>2. QED
      BY <2>1, <3>1, StepIsTyped DEF NoCrossInv
  <2>2. CASE Answer(c, FALSE, calls[c].text)
    BY <1>1, <2>2, AnswerIsTyped DEF NoCrossInv
  <2>3. QED
    BY <2>1, <2>2 DEF FsWrite
<1>3. overlapped' \subseteq Paths
  BY <1>1 DEF FsWrite, NoCrossInv, TypeOK
<1>4. TypeOK'
  BY <1>1, <1>2, <1>3, DiskIsTyped DEF NoCrossInv, TypeOK
<1>5. TextIsOfItsPath'
  BY <1>1, <1>2 DEF NoCrossInv, TextIsOfItsPath
<1>6. \A i, p : Owned(i, p) => Owned(i, p)'
  BY <1>1, <1>2, OwnedStays
<1>7. NamesLeadHome'
  BY <1>1, <1>2, <1>6 DEF NoCrossInv, NamesLeadHome
<1>8. TmpIsHeld'
  BY <1>1, <1>2 DEF NoCrossInv, TmpIsHeld, Holds
<1>9. QED
  BY <1>4, <1>5, <1>7, <1>8 DEF NoCrossInv

\* The temporary file is made, or the one that is there is taken: both are of the path.
LEMMA CreateNoCross ==
    ASSUME NoCrossInv, NEW c \in Calls, Create(c)
    PROVE  NoCrossInv'
<1>1. /\ calls[c].step = "create" /\ calls[c].path \in Paths /\ calls[c].kind = "save"
      /\ calls[c].text \in Texts /\ calls[c].text.of = calls[c].path
      /\ UNCHANGED <<place, page, target, overlapped>>
  BY DEF Create, NoCrossInv, TypeOK, TextIsOfItsPath
<1>2. PICK p \in Paths, i \in Inodes :
        /\ p = calls[c].path /\ i = OpenInode(c)
        /\ Owner(i) = p /\ (i \in Calls => calls[i].step # "unsent")
  BY <1>1, EditorAssumption
  DEF OpenInode, Owner, Inodes, NoCrossInv, NamesLeadHome, Owned
<1>3. PICK t \in Texts : t.of = p /\ t = [calls[c].text EXCEPT !.part = "empty"]
  BY <1>1, <1>2 DEF Texts, Parts
<1>4. CASE /\ tmp' = [tmp EXCEPT ![p] = i] /\ data' = [data EXCEPT ![i] = t]
           /\ calls' = [calls EXCEPT ![c].step = "fill", ![c].fd = i]
  <2>1. /\ calls' \in [Calls -> CallRecord]
        /\ \A d \in Calls : d # c => calls'[d] = calls[d]
        /\ calls'[c].step = "fill" /\ calls'[c].fd = i
        /\ calls'[c].kind = calls[c].kind /\ calls'[c].path = p
        /\ calls'[c].text = calls[c].text
    <3>1. "fill" \in Steps
      BY DEF Steps
    <3>2. calls' = [calls EXCEPT ![c].step = "fill", ![c].fd = i] /\ TypeOK
      BY <1>4 DEF NoCrossInv
    <3>3. /\ calls' \in [Calls -> CallRecord]
          /\ \A d \in Calls : d # c => calls'[d] = calls[d]
          /\ calls'[c].step = "fill" /\ calls'[c].fd = i
          /\ calls'[c].kind = calls[c].kind /\ calls'[c].path = calls[c].path
          /\ calls'[c].text = calls[c].text
      BY <3>1, <3>2, HandleIsTyped, Zenon
    <3>4. QED
      BY <1>2, <3>3
  <2>2. /\ tmp' \in [Paths -> Inodes \cup {NoInode}] /\ data' \in [Inodes -> Texts]
        /\ tmp'[p] = i /\ \A q \in Paths : q # p => tmp'[q] = tmp[q]
        /\ data'[i].of = p /\ \A j \in Inodes : j # i => data'[j] = data[j]
    BY <1>2, <1>3, <1>4 DEF NoCrossInv, TypeOK
  <2>3. TypeOK'
    BY <1>1, <2>1, <2>2, DiskIsTyped DEF NoCrossInv, TypeOK
  <2>4. TextIsOfItsPath'
    BY <1>1, <1>2, <2>1 DEF NoCrossInv, TextIsOfItsPath
  <2>5. Owned(i, p)'
    <3>1. CASE i \in Paths
      BY <1>2, <2>2, <3>1, EditorAssumption DEF Owned, Owner
    <3>2. CASE i \in Calls
      <4>1. calls'[i].path = calls[i].path /\ calls'[i].step # "unsent"
        BY <1>2, <2>1, <3>2
      <4>2. i \notin Paths
        BY <3>2, EditorAssumption
      <4>3. QED
        BY <1>2, <2>2, <4>1, <4>2 DEF Owned, Owner
    <3>3. QED
      BY <1>2, <3>1, <3>2 DEF Inodes
  <2>6. ASSUME NEW j, NEW q, Owned(j, q) PROVE Owned(j, q)'
    <3>1. data'[j].of = data[j].of
      <4>1. CASE j = i
        BY <1>2, <2>2, <2>6, <4>1 DEF Owned
      <4>2. CASE j # i
        BY <2>2, <2>6, <4>2 DEF Owned
      <4>3. QED
        BY <4>1, <4>2
    <3>2. QED
      BY <1>1, <1>2, <2>1, <2>6, <3>1, OwnedStays
  <2>7. NamesLeadHome'
    <3>1. \A q \in Paths : Owned(target[q], q)'
      BY <1>1, <2>6 DEF NoCrossInv, NamesLeadHome
    <3>2. ASSUME NEW q \in Paths, tmp'[q] # NoInode PROVE Owned(tmp[q], q)'
      BY <2>2, <2>5, <2>6, <3>2 DEF NoCrossInv, NamesLeadHome
    <3>3. ASSUME NEW d \in Calls, calls'[d].step = "fill"
          PROVE  Owned(calls[d].fd, calls[d].path)'
      BY <2>1, <2>5, <2>6, <3>3 DEF NoCrossInv, NamesLeadHome
    <3>4. QED
      BY <3>1, <3>2, <3>3 DEF NamesLeadHome
  <2>8. TmpIsHeld'
    BY <1>1, <1>2, <2>1, <2>2 DEF NoCrossInv, TmpIsHeld, Holds
  <2>9. QED
    BY <2>3, <2>4, <2>7, <2>8 DEF NoCrossInv
<1>5. CASE calls' = [calls EXCEPT ![c].step = "cleanup"] /\ UNCHANGED <<tmp, data>>
  <2>1. /\ calls' \in [Calls -> CallRecord]
        /\ \A d \in Calls : d # c => calls'[d] = calls[d]
        /\ calls'[c].step = "cleanup"
        /\ calls'[c].kind = calls[c].kind /\ calls'[c].path = calls[c].path
        /\ calls'[c].text = calls[c].text
    <3>1. "cleanup" \in Steps
      BY DEF Steps
    <3>2. QED
      BY <1>5, <3>1, StepIsTyped DEF NoCrossInv
  <2>2. TypeOK'
    BY <1>1, <1>5, <2>1, DiskIsTyped DEF NoCrossInv, TypeOK
  <2>3. TextIsOfItsPath'
    BY <1>1, <2>1 DEF NoCrossInv, TextIsOfItsPath
  <2>4. \A j, q : Owned(j, q) => Owned(j, q)'
    BY <1>1, <1>5, <2>1, OwnedStays
  <2>5. NamesLeadHome'
    BY <1>1, <1>5, <2>1, <2>4 DEF NoCrossInv, NamesLeadHome
  <2>6. TmpIsHeld'
    BY <1>1, <1>5, <2>1 DEF NoCrossInv, TmpIsHeld, Holds
  <2>7. QED
    BY <2>2, <2>3, <2>5, <2>6 DEF NoCrossInv
<1>6. QED
  BY <1>2, <1>3, <1>4, <1>5 DEF Create

\* The write goes through the handle: the inode may have lost its temporary name, but
\* not its path.
LEMMA FillNoCross ==
    ASSUME NoCrossInv, NEW c \in Calls, Fill(c)
    PROVE  NoCrossInv'
<1> DEFINE p == calls[c].path
           i == calls[c].fd
<1>1. /\ calls[c].step = "fill" /\ p \in Paths /\ calls[c].kind = "save"
      /\ calls[c].text \in Texts /\ calls[c].text.of = p
      /\ UNCHANGED <<place, page, target, tmp, overlapped>>
  BY DEF Fill, NoCrossInv, TypeOK, TextIsOfItsPath
<1>2. i \in Inodes /\ Owned(i, p) /\ data[i] \in Texts /\ data[i].of = p
  BY <1>1 DEF NoCrossInv, NamesLeadHome, Owned, TypeOK
<1>3. PICK text \in Texts, step \in {"rename", "cleanup"} :
        /\ text.of = p /\ data' = [data EXCEPT ![i] = text]
        /\ calls' = [calls EXCEPT ![c].step = step]
  <2>1. ASSUME NEW text \in Over(data[i], calls[c].text)
        PROVE  text \in Texts /\ text.of = p
    BY <1>1, <2>1 DEF Over, Texts, Parts
  <2>2. CASE \E text \in Over(data[i], calls[c].text) :
               /\ data' = [data EXCEPT ![i] = text]
               /\ calls' = [calls EXCEPT ![c].step = "rename"]
    BY <2>1, <2>2
  <2>3. CASE /\ data' = [data EXCEPT ![i].part = "half"]
             /\ calls' = [calls EXCEPT ![c].step = "cleanup"]
    <3> DEFINE t == [data[i] EXCEPT !.part = "half"]
    <3>1. t \in Texts /\ t.of = p
      BY <1>2 DEF Texts, Parts
    <3>2. data' = [data EXCEPT ![i] = t]
      BY <1>2, <2>3 DEF NoCrossInv, TypeOK, Texts
    <3>3. QED
      BY <2>3, <3>1, <3>2
  <2>4. QED
    BY <2>2, <2>3 DEF Fill
<1>4. /\ calls' \in [Calls -> CallRecord]
      /\ \A d \in Calls : d # c => calls'[d] = calls[d]
      /\ calls'[c].step \in {"rename", "cleanup"}
      /\ calls'[c].kind = calls[c].kind /\ calls'[c].path = p
      /\ calls'[c].text = calls[c].text
  <2>1. step \in Steps
    BY DEF Steps
  <2>2. QED
    BY <1>3, <2>1, StepIsTyped DEF NoCrossInv
<1>5. /\ data' \in [Inodes -> Texts]
      /\ \A j \in Inodes : data'[j].of = data[j].of
  BY <1>2, <1>3 DEF NoCrossInv, TypeOK
<1>6. TypeOK'
  BY <1>1, <1>4, <1>5, DiskIsTyped DEF NoCrossInv, TypeOK
<1>7. TextIsOfItsPath'
  BY <1>1, <1>4 DEF NoCrossInv, TextIsOfItsPath
<1>8. ASSUME NEW j, NEW q, Owned(j, q) PROVE Owned(j, q)'
  <2>1. data'[j].of = data[j].of
    BY <1>5, <1>8 DEF Owned
  <2>2. QED
    BY <1>1, <1>4, <1>8, <2>1, OwnedStays
<1>9. NamesLeadHome'
  BY <1>1, <1>4, <1>8 DEF NoCrossInv, NamesLeadHome
<1>10. TmpIsHeld'
  BY <1>1, <1>4 DEF NoCrossInv, TmpIsHeld, Holds
<1>11. QED
  BY <1>6, <1>7, <1>9, <1>10 DEF NoCrossInv

\* The temporary name goes, by a rename or by a removal, and the call with it.
LEMMA LastNoCross ==
    ASSUME NoCrossInv, NEW c \in Calls, Rename(c) \/ Cleanup(c)
    PROVE  NoCrossInv'
<1> DEFINE p == calls[c].path
<1>1. /\ calls[c].step \in {"rename", "cleanup"} /\ p \in Paths /\ calls[c].kind = "save"
      /\ calls[c].text \in Texts /\ calls[c].text.of = p
      /\ UNCHANGED <<place, page, data, overlapped>>
  BY DEF Rename, Cleanup, NoCrossInv, TypeOK, TextIsOfItsPath
<1>2. \/ /\ \E ok \in BOOLEAN : Answer(c, ok, calls[c].text)
         /\ tmp' = [tmp EXCEPT ![p] = NoInode]
         /\ \/ target' = target
            \/ tmp[p] # NoInode /\ target' = [target EXCEPT ![p] = tmp[p]]
      \/ /\ calls' = [calls EXCEPT ![c].step = "cleanup"]
         /\ UNCHANGED <<tmp, target>>
  BY DEF Rename, Cleanup, RemoveTmp
<1>3. /\ calls' \in [Calls -> CallRecord]
      /\ \A d \in Calls : d # c => calls'[d] = calls[d]
      /\ calls'[c].step \in {"answered", "cleanup"}
      /\ calls'[c].kind = calls[c].kind /\ calls'[c].path = p
      /\ calls'[c].text = calls[c].text
      /\ calls'[c].step = "answered" => tmp' = [tmp EXCEPT ![p] = NoInode]
      /\ calls'[c].step = "cleanup" => tmp' = tmp
  <2>1. CASE \E ok \in BOOLEAN : Answer(c, ok, calls[c].text)
    <3>1. PICK ok \in BOOLEAN : Answer(c, ok, calls[c].text)
      BY <2>1
    <3>2. /\ calls' \in [Calls -> CallRecord]
          /\ \A d \in Calls : d # c => calls'[d] = calls[d]
          /\ calls'[c].step = "answered" /\ calls'[c].text = calls[c].text
          /\ calls'[c].kind = calls[c].kind /\ calls'[c].path = p
      BY <1>1, <3>1, AnswerIsTyped DEF NoCrossInv
    <3>3. tmp' = [tmp EXCEPT ![p] = NoInode]
      <4>1. calls' # [calls EXCEPT ![c].step = "cleanup"]
        BY <3>2 DEF NoCrossInv, TypeOK
      <4>2. QED
        BY <1>2, <4>1
    <3>4. QED
      BY <3>2, <3>3
  <2>2. CASE calls' = [calls EXCEPT ![c].step = "cleanup"] /\ UNCHANGED <<tmp, target>>
    <3>1. "cleanup" \in Steps
      BY DEF Steps
    <3>2. QED
      BY <2>2, <3>1, StepIsTyped DEF NoCrossInv
  <2>3. QED
    BY <1>2, <2>1, <2>2
<1>4. /\ target' \in [Paths -> Inodes] /\ tmp' \in [Paths -> Inodes \cup {NoInode}]
      /\ \A q \in Paths :
           \/ target'[q] = target[q]
           \/ q = p /\ tmp[p] # NoInode /\ target'[q] = tmp[p]
      /\ \A q \in Paths : tmp'[q] # NoInode => tmp'[q] = tmp[q]
      /\ \A q \in Paths : q # p => tmp'[q] = tmp[q]
      /\ calls'[c].step = "answered" => tmp'[p] = NoInode
  <2>1. tmp[p] # NoInode => tmp[p] \in Inodes
    BY <1>1 DEF NoCrossInv, TypeOK
  <2>2. /\ tmp' = tmp \/ tmp' = [tmp EXCEPT ![p] = NoInode]
        /\ \/ target' = target
           \/ tmp[p] # NoInode /\ target' = [target EXCEPT ![p] = tmp[p]]
    BY <1>2
  <2>3. /\ target \in [Paths -> Inodes] /\ tmp \in [Paths -> Inodes \cup {NoInode}]
    BY DEF NoCrossInv, TypeOK
  <2> HIDE DEF p
  <2>4. QED
    BY <1>1, <1>3, <2>1, <2>2, <2>3
<1>5. TypeOK'
  BY <1>1, <1>3, <1>4, DiskIsTyped DEF NoCrossInv, TypeOK
<1>6. TextIsOfItsPath'
  BY <1>1, <1>3 DEF NoCrossInv, TextIsOfItsPath
<1>7. \A j, q : Owned(j, q) => Owned(j, q)'
  BY <1>1, <1>3, OwnedStays
<1>8. NamesLeadHome'
  BY <1>1, <1>3, <1>4, <1>7 DEF NoCrossInv, NamesLeadHome
<1>9. TmpIsHeld'
  <2>1. CASE calls'[c].step = "answered"
    BY <1>1, <1>3, <1>4, <2>1 DEF NoCrossInv, TmpIsHeld, Holds
  <2>2. CASE calls'[c].step = "cleanup"
    BY <1>1, <1>3, <1>4, <2>2 DEF NoCrossInv, TmpIsHeld, Holds
  <2>3. QED
    BY <1>3, <2>1, <2>2
<1>10. QED
  BY <1>5, <1>6, <1>8, <1>9 DEF NoCrossInv

-----------------------------------------------------------------------------
(* The text of one file never lands in another. *)

LEMMA NextNoCross == NoCrossInv /\ [Next]_vars => NoCrossInv'
<1> SUFFICES ASSUME NoCrossInv, [Next]_vars PROVE NoCrossInv'
  OBVIOUS
<1>1. CASE Page
  BY <1>1, SendNoCross, AnswerNoCross, TypingNoCross DEF Page
<1>2. CASE Shell
  BY <1>2, ReadNoCross, CheckNoCross, CreateNoCross, FillNoCross, LastNoCross DEF Shell
<1>3. CASE UNCHANGED vars
  BY <1>3 DEF vars, disk, NoCrossInv, TypeOK, TextIsOfItsPath, NamesLeadHome, Owned, Owner,
     TmpIsHeld, Holds
<1>4. QED
  BY <1>1, <1>2, <1>3 DEF Next, Terminating

\* Types, where texts are from, whose inodes names and handles lead to, and who holds a
\* temporary name, in every reachable state.
THEOREM FilesInvariant == Spec => []NoCrossInv
BY InitNoCross, NextNoCross, PTL DEF Spec

\* What is on the disk under a path was read from it or typed into it.
THEOREM NoTextCrosses == Spec => []NoCrossWrite
<1>1. NoCrossInv => NoCrossWrite
  BY DEF NoCrossInv, NamesLeadHome, Owned, NoCrossWrite
<1>2. QED
  BY <1>1, FilesInvariant, PTL

-----------------------------------------------------------------------------
(* A save that is alone. *)

Sound == {"whole", "prefix"}
Early == {"unsent", "read", "check", "create"}
Saves(c) == calls[c].step \in {"check", "create", "fill", "rename", "cleanup"}
HasRead(c) == calls[c].kind = "open" /\ calls[c].step = "answered" /\ calls[c].ok

\* The inode of a save that has not created it yet has no name.
InodesAreFresh ==
    /\ \A p \in Paths : target[p] \in Calls => calls[target[p]].step \notin Early
    /\ \A p \in Paths : tmp[p] \in Calls => calls[tmp[p]].step \notin Early

\* A path that was never overlapped has one writer at a time.
OneWriter ==
    \A p \in Paths \ overlapped : \A c, d \in Calls :
        Writing(c) /\ Writing(d) /\ calls[c].path = p /\ calls[d].path = p => c = d

\* What the editor shows of it, what a save carries and what a read answers is sound.
TextIsSound ==
    /\ page.path \in Paths \ overlapped => page.text.part \in Sound
    /\ \A c \in Calls :
         calls[c].path \in Paths \ overlapped /\ (Saves(c) \/ HasRead(c))
           => calls[c].text.part \in Sound

\* The file itself is sound; the temporary file is another inode, empty until the
\* write and sound after it.
DiskIsSound ==
    \A p \in Paths \ overlapped :
        /\ data[target[p]].part \in Sound
        /\ \A c \in Calls : calls[c].path = p /\ calls[c].step = "fill" =>
             /\ tmp[p] = calls[c].fd /\ tmp[p] # target[p]
             /\ data[tmp[p]].part = "empty"
        /\ \A c \in Calls : calls[c].path = p /\ calls[c].step = "rename" =>
             tmp[p] \in Inodes /\ tmp[p] # target[p] /\ data[tmp[p]].part \in Sound

LoneInv == NoCrossInv /\ InodesAreFresh /\ OneWriter /\ TextIsSound /\ DiskIsSound

LEMMA InitLone == Init => LoneInv
<1> SUFFICES ASSUME Init PROVE LoneInv
  OBVIOUS
<1>1. NoCrossInv
  BY InitNoCross
<1>2. InodesAreFresh
  BY EditorAssumption DEF Init, InodesAreFresh
<1>3. OneWriter
  BY DEF Init, OneWriter, Writing, Idle
<1>4. TextIsSound
  BY EditorAssumption DEF Init, TextIsSound, Saves, HasRead, Idle
<1>5. DiskIsSound
  BY DEF Init, DiskIsSound, Idle, Inodes, Text, Sound
<1>6. QED
  BY <1>1, <1>2, <1>3, <1>4, <1>5 DEF LoneInv

\* A command steps without touching the disk and does not begin to write: its text is
\* sound if it has to be.
LEMMA QuietLone ==
    ASSUME LoneInv, NoCrossInv', NEW c \in Calls,
           \A d \in Calls : d # c => calls'[d] = calls[d],
           UNCHANGED <<target, tmp, data, overlapped>>,
           calls[c].step \notin Early => calls'[c].step \notin Early,
           Writing(c)' => Writing(c) /\ calls'[c].path = calls[c].path,
           calls'[c].step \notin {"fill", "rename"},
           TextIsSound'
    PROVE  LoneInv'
<1>1. InodesAreFresh'
  BY DEF LoneInv, InodesAreFresh
<1>2. OneWriter'
  BY DEF LoneInv, OneWriter, Writing
<1>3. DiskIsSound'
  BY DEF LoneInv, DiskIsSound
<1>4. QED
  BY <1>1, <1>2, <1>3 DEF LoneInv

LEMMA SendLone ==
    ASSUME LoneInv, NoCrossInv', NEW c \in Calls, (\E p \in Paths : Open(c, p)) \/ Save(c)
    PROVE  LoneInv'
<1>1. /\ calls[c].step = "unsent" /\ page' = page
      /\ UNCHANGED <<target, tmp, data, overlapped>>
      /\ \A d \in Calls : d # c => calls'[d] = calls[d]
      /\ \/ calls'[c].step = "read"
         \/ /\ calls'[c].step = "check" /\ calls'[c].path = page.path
            /\ calls'[c].text = page.text
  BY DEF Open, Save, Send, PathWhileOpening, disk, LoneInv, NoCrossInv, TypeOK
<1>2. TextIsSound'
  BY <1>1 DEF LoneInv, TextIsSound, Saves, HasRead
<1>3. QED
  BY <1>1, <1>2, QuietLone DEF Writing, Early

LEMMA AnswerLone ==
    ASSUME LoneInv, NoCrossInv', NEW c \in Calls, Opened(c) \/ Saved(c)
    PROVE  LoneInv'
<1>1. /\ calls[c].step = "answered" /\ calls' = [calls EXCEPT ![c].step = "handled"]
      /\ UNCHANGED <<target, tmp, data, overlapped>>
  BY DEF Opened, Saved, disk
<1>2. /\ calls'[c].step = "handled" /\ \A d \in Calls : d # c => calls'[d] = calls[d]
  BY <1>1 DEF LoneInv, NoCrossInv, TypeOK
<1>3. \/ page'.path = page.path /\ page'.text = page.text
      \/ /\ calls[c].kind = "open" /\ calls[c].ok
         /\ page'.path = calls[c].path /\ page'.text = calls[c].text
  BY DEF Opened, Saved, LoneInv, NoCrossInv, TypeOK
<1>4. TextIsSound'
  BY <1>1, <1>2, <1>3 DEF LoneInv, TextIsSound, Saves, HasRead
<1>5. QED
  BY <1>1, <1>2, <1>4, QuietLone DEF Writing, Early

LEMMA TypingLone ==
    ASSUME LoneInv, NoCrossInv', Edit \/ SetProjectRoot
    PROVE  LoneInv'
<1>1. UNCHANGED <<calls, target, tmp, data, overlapped>>
  BY DEF Edit, SetProjectRoot, disk
<1>2. page'.path = page.path /\ page'.text.part = page.text.part
  <2>1. /\ page \in [path : Paths \cup {NoPath}, text : Texts, dirty : BOOLEAN,
                     project : BOOLEAN, edits : 0 .. MaxEdits]
        /\ page.text \in [of : Paths \cup {NoPath}, edit : 0 .. MaxEdits, part : Parts]
    BY DEF LoneInv, NoCrossInv, TypeOK, Texts
  <2>2. CASE Edit
    <3> DEFINE t == [page.text EXCEPT !.edit = page.edits + 1]
    <3>1. t.part = page.text.part
      BY <2>1
    <3>2. page' = [page EXCEPT !.edits = page.edits + 1, !.text = t, !.dirty = TRUE]
      BY <2>1, <2>2 DEF Edit
    <3>3. QED
      BY <2>1, <3>1, <3>2
  <2>3. CASE SetProjectRoot
    BY <2>1, <2>3 DEF SetProjectRoot
  <2>4. QED
    BY <2>2, <2>3
<1>3. TextIsSound'
  BY <1>1, <1>2 DEF LoneInv, TextIsSound, Saves, HasRead
<1>4. InodesAreFresh' /\ OneWriter' /\ DiskIsSound'
  BY <1>1 DEF LoneInv, InodesAreFresh, OneWriter, Writing, DiskIsSound
<1>5. QED
  BY <1>3, <1>4 DEF LoneInv

\* A read of a file that was never overlapped answers with sound text.
LEMMA ReadLone ==
    ASSUME LoneInv, NoCrossInv', NEW c \in Calls, FsRead(c)
    PROVE  LoneInv'
<1> DEFINE t == data[target[calls[c].path]]
<1>1. /\ calls[c].step = "read" /\ calls[c].path \in Paths
      /\ UNCHANGED <<page, target, tmp, data, overlapped>>
  BY DEF FsRead, disk, LoneInv, NoCrossInv, TextIsOfItsPath
<1>2. t \in Texts
  BY <1>1 DEF LoneInv, NoCrossInv, TypeOK
<1>3. PICK text \in Texts, ok \in BOOLEAN : Answer(c, ok, text) /\ (ok => text \in Shown(t))
  <2>1. Shown(t) \subseteq Texts
    BY <1>2 DEF Shown, Texts, Parts
  <2>2. CASE \E text \in Shown(t) : Answer(c, TRUE, text)
    BY <2>1, <2>2
  <2>3. CASE Answer(c, FALSE, NoText)
    BY <2>3, NoTextIsText
  <2>4. QED
    BY <2>2, <2>3 DEF FsRead
<1>4. /\ \A d \in Calls : d # c => calls'[d] = calls[d]
      /\ calls'[c].step = "answered" /\ calls'[c].ok = ok /\ calls'[c].text = text
      /\ calls'[c].path = calls[c].path
  BY <1>3, AnswerIsTyped DEF LoneInv, NoCrossInv
<1>5. ok /\ calls[c].path \notin overlapped => text.part \in Sound
  <2>1. calls[c].path \notin overlapped => t.part \in Sound
    BY <1>1 DEF LoneInv, DiskIsSound
  <2>2. t.part \in Sound => \A u \in Shown(t) : u.part \in Sound
    BY <1>2 DEF Shown, Sound, Texts
  <2>3. QED
    BY <1>3, <2>1, <2>2
<1>6. TextIsSound'
  BY <1>1, <1>4, <1>5 DEF LoneInv, TextIsSound, Saves, HasRead
<1>7. QED
  BY <1>1, <1>4, <1>6, QuietLone DEF Writing, Early

\* A save that finds another writer marks the path; otherwise it is the only one.
LEMMA CheckLone ==
    ASSUME LoneInv, NoCrossInv', NEW c \in Calls, FsWrite(c)
    PROVE  LoneInv'
<1>1. /\ calls[c].step = "check" /\ calls[c].path \in Paths
      /\ calls[c].text \in Texts
      /\ UNCHANGED <<page, target, tmp, data>> /\ overlapped \subseteq overlapped'
  BY DEF FsWrite, disk, LoneInv, NoCrossInv, TypeOK, TextIsOfItsPath
<1>2. /\ \A d \in Calls : d # c => calls'[d] = calls[d]
      /\ calls'[c].step \in {"create", "answered"}
      /\ calls'[c].path = calls[c].path /\ calls'[c].text = calls[c].text
      /\ calls'[c].step = "create" =>
           \/ calls[c].path \in overlapped'
           \/ \A d \in Calls : Writing(d) => calls[d].path # calls[c].path
      /\ calls'[c].kind = calls[c].kind
  <2>1. CASE /\ calls' = [calls EXCEPT ![c].step = "create"]
             /\ overlapped' = overlapped \cup
                  {p \in {calls[c].path} : \E d \in Calls : Writing(d) /\ calls[d].path = p}
    <3>1. "create" \in Steps
      BY DEF Steps
    <3>2. QED
      BY <2>1, <3>1, StepIsTyped DEF LoneInv, NoCrossInv
  <2>2. CASE Answer(c, FALSE, calls[c].text)
    BY <1>1, <2>2, AnswerIsTyped DEF LoneInv, NoCrossInv
  <2>3. QED
    BY <2>1, <2>2 DEF FsWrite
<1>3. InodesAreFresh'
  BY <1>1, <1>2 DEF LoneInv, InodesAreFresh, Early
<1>4. OneWriter'
  BY <1>1, <1>2 DEF LoneInv, OneWriter, Writing
<1>5. TextIsSound'
  <2>1. calls[c].kind = "save"
    BY <1>1 DEF LoneInv, NoCrossInv, TextIsOfItsPath
  <2>2. QED
    BY <1>1, <1>2, <2>1 DEF LoneInv, TextIsSound, Saves, HasRead
<1>6. DiskIsSound'
  BY <1>1, <1>2 DEF LoneInv, DiskIsSound
<1>7. QED
  BY <1>3, <1>4, <1>5, <1>6 DEF LoneInv

\* What a writer does to its own path concerns no other.
LEMMA OtherInodes ==
    ASSUME NoCrossInv, NEW p \in Paths, NEW i, Owner(i) = p, NEW q \in Paths, q # p
    PROVE  target[q] # i /\ (tmp[q] # NoInode => tmp[q] # i)
BY DEF NoCrossInv, NamesLeadHome, Owned

\* Alone, a save finds no temporary file: it makes an inode of its own.
LEMMA CreateLone ==
    ASSUME LoneInv, NoCrossInv', NEW c \in Calls, Create(c)
    PROVE  LoneInv'
<1>1. /\ calls[c].step = "create" /\ calls[c].path \in Paths
      /\ calls[c].text \in Texts /\ calls[c].kind = "save"
      /\ UNCHANGED <<page, target, overlapped>>
  BY DEF Create, LoneInv, NoCrossInv, TypeOK, TextIsOfItsPath
<1>2. PICK p \in Paths, i \in Inodes :
        /\ p = calls[c].path /\ i = OpenInode(c) /\ Owner(i) = p
        /\ i = c \/ i = tmp[p]
  BY <1>1, EditorAssumption
  DEF OpenInode, Owner, Inodes, LoneInv, NoCrossInv, NamesLeadHome, Owned
<1>3. p \notin overlapped => tmp[p] = NoInode /\ i = c /\ target[p] # c
  <2>1. ASSUME p \notin overlapped PROVE tmp[p] = NoInode
    BY <1>1, <1>2, <2>1 DEF LoneInv, NoCrossInv, TmpIsHeld, Holds, OneWriter, Writing
  <2>2. target[p] # c
    BY <1>1 DEF LoneInv, InodesAreFresh, Early
  <2>3. QED
    BY <1>2, <2>1, <2>2 DEF OpenInode
<1>4. CASE /\ tmp' = [tmp EXCEPT ![p] = i]
           /\ data' = [data EXCEPT ![i] = [calls[c].text EXCEPT !.part = "empty"]]
           /\ calls' = [calls EXCEPT ![c].step = "fill", ![c].fd = i]
  <2>1. /\ \A d \in Calls : d # c => calls'[d] = calls[d]
        /\ calls'[c].step = "fill" /\ calls'[c].fd = i
        /\ calls'[c].path = p /\ calls'[c].text = calls[c].text
        /\ calls'[c].kind = calls[c].kind
    <3>1. "fill" \in Steps
      BY DEF Steps
    <3>2. calls' = [calls EXCEPT ![c].step = "fill", ![c].fd = i] /\ TypeOK
      BY <1>4 DEF LoneInv, NoCrossInv
    <3>3. /\ calls' \in [Calls -> CallRecord]
          /\ \A d \in Calls : d # c => calls'[d] = calls[d]
          /\ calls'[c].step = "fill" /\ calls'[c].fd = i
          /\ calls'[c].kind = calls[c].kind /\ calls'[c].path = calls[c].path
          /\ calls'[c].text = calls[c].text
      BY <3>1, <3>2, HandleIsTyped, Zenon
    <3>4. QED
      BY <1>2, <3>3
  <2>2. /\ tmp'[p] = i /\ \A q \in Paths : q # p => tmp'[q] = tmp[q]
        /\ data'[i].part = "empty" /\ \A j \in Inodes : j # i => data'[j] = data[j]
    BY <1>1, <1>2, <1>4 DEF LoneInv, NoCrossInv, TypeOK, Texts
  <2>3. InodesAreFresh'
    BY <1>1, <1>2, <2>1, <2>2 DEF LoneInv, InodesAreFresh, Early
  <2>4. OneWriter'
    BY <1>1, <1>2, <2>1 DEF LoneInv, OneWriter, Writing
  <2>5. TextIsSound'
    BY <1>1, <1>2, <2>1 DEF LoneInv, TextIsSound, Saves, HasRead
  <2>6. DiskIsSound'
    <3> SUFFICES ASSUME NEW q \in Paths \ overlapped
                 PROVE  /\ data'[target[q]].part \in Sound
                        /\ \A d \in Calls : calls'[d].path = q /\ calls'[d].step = "fill" =>
                             /\ tmp'[q] = calls'[d].fd /\ tmp'[q] # target[q]
                             /\ data'[tmp'[q]].part = "empty"
                        /\ \A d \in Calls : calls'[d].path = q /\ calls'[d].step = "rename" =>
                             /\ tmp'[q] \in Inodes /\ tmp'[q] # target[q]
                             /\ data'[tmp'[q]].part \in Sound
      BY <1>1 DEF DiskIsSound
    <3>1. CASE q = p
      <4>1. target[p] \in Inodes /\ target[p] # i
        BY <1>3, <3>1 DEF LoneInv, NoCrossInv, TypeOK
      <4>2. data'[target[p]].part \in Sound
        BY <2>2, <3>1, <4>1 DEF LoneInv, DiskIsSound
      <4>3. \A d \in Calls : calls'[d].path = p /\ calls'[d].step \in {"fill", "rename"} => d = c
        BY <1>1, <1>2, <2>1, <3>1 DEF LoneInv, OneWriter, Writing
      <4>4. QED
        BY <2>1, <2>2, <3>1, <4>1, <4>2, <4>3
    <3>2. CASE q # p
      <4>1. target[q] # i /\ (tmp[q] # NoInode => tmp[q] # i)
        BY <1>2, <3>2, OtherInodes DEF LoneInv
      <4>2. /\ target[q] \in Inodes /\ tmp[q] \in Inodes \cup {NoInode}
            /\ tmp'[q] = tmp[q] /\ \A j \in Inodes : j # i => data'[j] = data[j]
        BY <2>2, <3>2 DEF LoneInv, NoCrossInv, TypeOK
      <4>3. \A d \in Calls : calls'[d].path = q => d # c /\ calls'[d] = calls[d]
        BY <2>1, <3>2
      <4>4. \A d \in Calls : calls[d].step = "fill" => calls[d].fd \in Inodes
        BY DEF LoneInv, NoCrossInv, NamesLeadHome, Owned
      <4>5. NoInode \notin Inodes
        BY EditorAssumption DEF Inodes
      <4>6. QED
        BY <4>1, <4>2, <4>3, <4>4, <4>5 DEF LoneInv, DiskIsSound
    <3>3. QED
      BY <3>1, <3>2
  <2>7. QED
    BY <2>3, <2>4, <2>5, <2>6 DEF LoneInv
<1>5. CASE calls' = [calls EXCEPT ![c].step = "cleanup"] /\ UNCHANGED <<tmp, data>>
  <2>1. /\ \A d \in Calls : d # c => calls'[d] = calls[d]
        /\ calls'[c].step = "cleanup" /\ calls'[c].path = calls[c].path
        /\ calls'[c].text = calls[c].text /\ calls'[c].kind = calls[c].kind
    <3>1. "cleanup" \in Steps
      BY DEF Steps
    <3>2. QED
      BY <1>5, <3>1, StepIsTyped DEF LoneInv, NoCrossInv
  <2>2. TextIsSound'
    BY <1>1, <2>1 DEF LoneInv, TextIsSound, Saves, HasRead
  <2>3. QED
    BY <1>1, <1>5, <2>1, <2>2, QuietLone DEF Writing, Early
<1>6. QED
  BY <1>2, <1>4, <1>5 DEF Create

\* Alone, the write fills the empty inode with the text of the save, and the file under
\* its own name is another.
LEMMA FillLone ==
    ASSUME LoneInv, NoCrossInv', NEW c \in Calls, Fill(c)
    PROVE  LoneInv'
<1>1. /\ calls[c].step = "fill" /\ calls[c].path \in Paths /\ calls[c].kind = "save"
      /\ UNCHANGED <<page, target, tmp, overlapped>>
  BY DEF Fill, LoneInv, NoCrossInv, TypeOK, TextIsOfItsPath
<1>2. PICK p \in Paths, i \in Inodes : p = calls[c].path /\ i = calls[c].fd /\ Owner(i) = p
  BY <1>1 DEF LoneInv, NoCrossInv, NamesLeadHome, Owned
<1>3. PICK step \in {"rename", "cleanup"} :
        /\ calls' = [calls EXCEPT ![c].step = step]
        /\ \A j \in Inodes : j # i => data'[j] = data[j]
        /\ step = "rename" => data'[i] \in Over(data[i], calls[c].text)
  BY <1>1, <1>2 DEF Fill, LoneInv, NoCrossInv, TypeOK
<1>4. /\ \A d \in Calls : d # c => calls'[d] = calls[d]
      /\ calls'[c].step = step /\ calls'[c].path = p
      /\ calls'[c].kind = calls[c].kind /\ calls'[c].text = calls[c].text
  <2>1. step \in Steps
    BY DEF Steps
  <2>2. QED
    BY <1>2, <1>3, <2>1, StepIsTyped DEF LoneInv, NoCrossInv
<1>5. InodesAreFresh'
  BY <1>1, <1>4 DEF LoneInv, InodesAreFresh, Early
<1>6. OneWriter'
  BY <1>1, <1>2, <1>4 DEF LoneInv, OneWriter, Writing
<1>7. TextIsSound'
  BY <1>1, <1>2, <1>4 DEF LoneInv, TextIsSound, Saves, HasRead
<1>8. DiskIsSound'
  <2> SUFFICES ASSUME NEW q \in Paths \ overlapped
               PROVE  /\ data'[target[q]].part \in Sound
                      /\ \A d \in Calls : calls'[d].path = q /\ calls'[d].step = "fill" =>
                           /\ tmp[q] = calls'[d].fd /\ tmp[q] # target[q]
                           /\ data'[tmp[q]].part = "empty"
                      /\ \A d \in Calls : calls'[d].path = q /\ calls'[d].step = "rename" =>
                           /\ tmp[q] \in Inodes /\ tmp[q] # target[q]
                           /\ data'[tmp[q]].part \in Sound
    BY <1>1 DEF DiskIsSound
  <2>1. CASE q = p
    <3>1. tmp[p] = i /\ target[p] # i /\ data[i].part = "empty"
      BY <1>1, <1>2, <2>1 DEF LoneInv, DiskIsSound
    <3>2. target[p] \in Inodes
      BY DEF LoneInv, NoCrossInv, TypeOK
    <3>3. data'[target[p]].part \in Sound
      BY <1>3, <2>1, <3>1, <3>2 DEF LoneInv, DiskIsSound
    <3>4. \A d \in Calls : calls'[d].path = p /\ calls'[d].step \in {"fill", "rename"} => d = c
      BY <1>1, <1>2, <1>4, <2>1 DEF LoneInv, OneWriter, Writing
    <3>5. step = "rename" => data'[i] = calls[c].text
      BY <1>3, <3>1 DEF Over
    <3>6. calls[c].text.part \in Sound
      BY <1>1, <1>2, <2>1 DEF LoneInv, TextIsSound, Saves, HasRead
    <3>7. QED
      BY <1>3, <1>4, <2>1, <3>1, <3>3, <3>4, <3>5, <3>6
  <2>2. CASE q # p
    <3>1. target[q] # i /\ (tmp[q] # NoInode => tmp[q] # i)
      BY <1>2, <2>2, OtherInodes DEF LoneInv
    <3>2. target[q] \in Inodes /\ tmp[q] \in Inodes \cup {NoInode}
      BY DEF LoneInv, NoCrossInv, TypeOK
    <3>3. \A d \in Calls : calls'[d].path = q => d # c /\ calls'[d] = calls[d]
      BY <1>4, <2>2
    <3>4. \A d \in Calls : calls[d].step = "fill" => calls[d].fd \in Inodes
      BY DEF LoneInv, NoCrossInv, NamesLeadHome, Owned
    <3>5. NoInode \notin Inodes
      BY EditorAssumption DEF Inodes
    <3>6. QED
      BY <1>3, <3>1, <3>2, <3>3, <3>4, <3>5 DEF LoneInv, DiskIsSound
  <2>3. QED
    BY <2>1, <2>2
<1>9. QED
  BY <1>5, <1>6, <1>7, <1>8 DEF LoneInv

\* Alone, a rename puts sound text in the place of sound text, and a removal nothing.
LEMMA LastLone ==
    ASSUME LoneInv, NoCrossInv', NEW c \in Calls, Rename(c) \/ Cleanup(c)
    PROVE  LoneInv'
<1>1. /\ calls[c].step \in {"rename", "cleanup"} /\ calls[c].path \in Paths
      /\ calls[c].text \in Texts /\ calls[c].kind = "save"
      /\ UNCHANGED <<page, data, overlapped>>
  BY DEF Rename, Cleanup, LoneInv, NoCrossInv, TypeOK, TextIsOfItsPath
<1>2. PICK p \in Paths : p = calls[c].path
  BY <1>1
<1>3. \/ /\ \E ok \in BOOLEAN : Answer(c, ok, calls[c].text)
         /\ tmp' = [tmp EXCEPT ![p] = NoInode]
         /\ \/ target' = target
            \/ /\ calls[c].step = "rename" /\ tmp[p] # NoInode
               /\ target' = [target EXCEPT ![p] = tmp[p]]
      \/ /\ calls' = [calls EXCEPT ![c].step = "cleanup"]
         /\ UNCHANGED <<tmp, target>>
  BY <1>2 DEF Rename, Cleanup, RemoveTmp
<1>4. CASE calls' = [calls EXCEPT ![c].step = "cleanup"] /\ UNCHANGED <<tmp, target>>
  <2>1. /\ \A d \in Calls : d # c => calls'[d] = calls[d]
        /\ calls'[c].step = "cleanup" /\ calls'[c].path = calls[c].path
        /\ calls'[c].text = calls[c].text /\ calls'[c].kind = calls[c].kind
    <3>1. "cleanup" \in Steps
      BY DEF Steps
    <3>2. QED
      BY <1>4, <3>1, StepIsTyped DEF LoneInv, NoCrossInv
  <2>2. TextIsSound'
    BY <1>1, <2>1 DEF LoneInv, TextIsSound, Saves, HasRead
  <2>3. QED
    BY <1>1, <1>4, <2>1, <2>2, QuietLone DEF Writing, Early
<1>5. ASSUME NEW ok \in BOOLEAN, Answer(c, ok, calls[c].text),
             tmp' = [tmp EXCEPT ![p] = NoInode],
             \/ target' = target
             \/ /\ calls[c].step = "rename" /\ tmp[p] # NoInode
                /\ target' = [target EXCEPT ![p] = tmp[p]]
      PROVE  LoneInv'
  <2>1. /\ \A d \in Calls : d # c => calls'[d] = calls[d]
        /\ calls'[c].step = "answered" /\ calls'[c].path = p
        /\ calls'[c].kind = calls[c].kind /\ calls'[c].fd = calls[c].fd
    BY <1>1, <1>2, <1>5, AnswerIsTyped DEF LoneInv, NoCrossInv
  <2>2. /\ tmp'[p] = NoInode /\ \A q \in Paths : q # p => tmp'[q] = tmp[q]
        /\ \A q \in Paths : q # p => target'[q] = target[q]
        /\ \/ target'[p] = target[p]
           \/ calls[c].step = "rename" /\ target'[p] = tmp[p]
    BY <1>5 DEF LoneInv, NoCrossInv, TypeOK
  <2>3. InodesAreFresh'
    <3>1. NoInode \notin Calls
      BY EditorAssumption
    <3>2. \A d \in Calls : calls[d].step \notin Early => calls'[d].step \notin Early
      BY <2>1 DEF Early
    <3>3. QED
      BY <2>2, <3>1, <3>2 DEF LoneInv, InodesAreFresh
  <2>4. OneWriter'
    BY <1>1, <2>1 DEF LoneInv, OneWriter, Writing
  <2>5. TextIsSound'
    BY <1>1, <1>2, <2>1 DEF LoneInv, TextIsSound, Saves, HasRead
  <2>6. DiskIsSound'
    <3> SUFFICES ASSUME NEW q \in Paths \ overlapped
                 PROVE  /\ data[target'[q]].part \in Sound
                        /\ \A d \in Calls : calls'[d].path = q /\ calls'[d].step = "fill" =>
                             /\ tmp'[q] = calls'[d].fd /\ tmp'[q] # target'[q]
                             /\ data[tmp'[q]].part = "empty"
                        /\ \A d \in Calls : calls'[d].path = q /\ calls'[d].step = "rename" =>
                             /\ tmp'[q] \in Inodes /\ tmp'[q] # target'[q]
                             /\ data[tmp'[q]].part \in Sound
      BY <1>1 DEF DiskIsSound
    <3>1. CASE q = p
      <4>1. \A d \in Calls : calls'[d].path = p => calls'[d].step \notin {"fill", "rename"}
        BY <1>1, <1>2, <2>1, <3>1 DEF LoneInv, OneWriter, Writing
      <4>2. data[target'[p]].part \in Sound
        BY <1>2, <2>2, <3>1 DEF LoneInv, DiskIsSound
      <4>3. QED
        BY <3>1, <4>1, <4>2
    <3>2. CASE q # p
      <4>1. \A d \in Calls : calls'[d].path = q => d # c /\ calls'[d] = calls[d]
        BY <2>1, <3>2
      <4>2. QED
        BY <2>2, <3>2, <4>1 DEF LoneInv, DiskIsSound
    <3>3. QED
      BY <3>1, <3>2
  <2>7. QED
    BY <2>3, <2>4, <2>5, <2>6 DEF LoneInv
<1>6. QED
  BY <1>3, <1>4, <1>5

LEMMA NextLone == LoneInv /\ [Next]_vars => LoneInv'
<1> SUFFICES ASSUME LoneInv, [Next]_vars PROVE LoneInv'
  OBVIOUS
<1>1. NoCrossInv'
  BY NextNoCross DEF LoneInv
<1>2. CASE Page
  BY <1>1, <1>2, SendLone, AnswerLone, TypingLone DEF Page
<1>3. CASE Shell
  BY <1>1, <1>3, ReadLone, CheckLone, CreateLone, FillLone, LastLone DEF Shell
<1>4. CASE UNCHANGED vars
  BY <1>1, <1>4 DEF vars, disk, LoneInv, InodesAreFresh, OneWriter, Writing, TextIsSound,
     Saves, HasRead, DiskIsSound
<1>5. QED
  BY <1>2, <1>3, <1>4 DEF Next, Terminating

\* The same with what is particular to a path whose saves never overlapped.
THEOREM LoneInvariant == Spec => []LoneInv
BY InitLone, NextLone, PTL DEF Spec

\* A lone save is all or nothing, and no save leaves a temporary file behind, overlapped
\* or not (fs_write, fs_handler.rs 211-225).
THEOREM SavesAreWhole == Spec => []SaveIsWhole
<1>1. LoneInv => SaveIsWhole
  <2> SUFFICES ASSUME LoneInv PROVE SaveIsWhole
    OBVIOUS
  <2>1. LoneSaveIsWhole
    BY DEF LoneInv, DiskIsSound, Sound, LoneSaveIsWhole
  <2>2. NoLitter
    BY DEF LoneInv, NoCrossInv, TmpIsHeld, Holds, Writing, NoLitter
  <2>3. QED
    BY <2>1, <2>2 DEF SaveIsWhole
<1>2. QED
  BY <1>1, LoneInvariant, PTL

-----------------------------------------------------------------------------
(* The long operations: numbers, the registry and the flags. *)

\* The commands that have taken a number.
Numbered == {c \in Commands : task[c].id # 0}

\* The counter counts the numbers taken, and no two commands share one.
NumbersAreGiven ==
    /\ counter = Cardinality(Numbered)
    /\ \A c \in Commands : task[c].id <= counter
    /\ \A c, d \in Commands : task[c].id = task[d].id /\ task[c].id # 0 => c = d

\* A command has its number from TakeNumber on; one without has not begun to work.
NumberComesFirst ==
    \A c \in Commands :
        /\ task[c].pc \in {"new", "resolved"} => task[c].id = 0 /\ task[c].work = "idle"
        /\ task[c].pc \notin {"new", "resolved", "replied"} => task[c].id # 0
        /\ task[c].work # "idle" => task[c].id # 0

\* A child is killed for a reason, which outlives the kill.
KillHasReason ==
    \A c \in Commands :
        task[c].pc = "aborting" => flag[task[c].id] \/ task[c].late

IInv ==
    /\ ShellTypeOK /\ NumbersAreGiven /\ NumberComesFirst /\ RegistryIsExact
    /\ OneCancelIsTold /\ AbortIsExplained /\ KillHasReason

-----------------------------------------------------------------------------
(* The initial states. *)

LEMMA CallsAreCounted == Cardinality(Commands) \in Nat
BY FS_CardinalityType, ShellAssumption

LEMMA InitIInv == ShellInit => IInv
<1> SUFFICES ASSUME ShellInit PROVE IInv
  OBVIOUS
<1>1. ShellTypeOK
  BY CallsAreCounted DEF ShellInit, ShellTypeOK, Ids, Points, Works
<1>2. Numbered = {}
  BY DEF ShellInit, Numbered
<1>3. NumbersAreGiven
  BY <1>2, FS_EmptySet DEF ShellInit, NumbersAreGiven
<1>4. RegistryIsExact
  BY DEF ShellInit, RegistryIsExact, Registered
<1>5. NumberComesFirst /\ AbortIsExplained /\ KillHasReason
  BY DEF ShellInit, NumberComesFirst, AbortIsExplained, KillHasReason
<1>6. OneCancelIsTold
  BY DEF ShellInit, OneCancelIsTold
<1>7. QED
  BY <1>1, <1>3, <1>4, <1>5, <1>6 DEF IInv

-----------------------------------------------------------------------------
(* A number is taken. *)

\* While a command has no number the counter is below the number of commands:
\* the next number is one of Ids.
LEMMA NextNumberIsFree ==
    ASSUME IInv, NEW c \in Commands, task[c].id = 0
    PROVE  /\ IsFiniteSet(Numbered) /\ c \notin Numbered
           /\ counter + 1 \in Ids /\ counter \in Nat
<1> DEFINE N == Numbered
<1>1. N \subseteq Commands /\ c \notin N
  BY DEF Numbered
<1>2. IsFiniteSet(N) /\ Cardinality(N) <= Cardinality(Commands)
      /\ (Cardinality(N) = Cardinality(Commands) => N = Commands)
  BY <1>1, FS_Subset, ShellAssumption
<1>3. Cardinality(N) # Cardinality(Commands)
  BY <1>1, <1>2
<1>4. counter = Cardinality(N)
  BY DEF IInv, NumbersAreGiven
<1>5. counter \in Nat
  BY <1>2, <1>4, FS_CardinalityType
<1>6. counter + 1 \in Ids
  BY <1>2, <1>3, <1>4, <1>5, CallsAreCounted DEF Ids
<1>7. QED
  BY <1>1, <1>2, <1>5, <1>6

LEMMA TakeNumberIInv ==
    ASSUME IInv, NEW c \in Commands, TakeNumber(c)
    PROVE  IInv'
<1>1. task[c].id = 0 /\ task[c].work = "idle" /\ task[c].pc = "resolved"
  BY DEF IInv, NumberComesFirst, TakeNumber
<1>2. /\ IsFiniteSet(Numbered) /\ c \notin Numbered
      /\ counter + 1 \in Ids /\ counter \in Nat
  BY <1>1, NextNumberIsFree
<1>3. /\ counter' = counter + 1
      /\ task' = [task EXCEPT ![c].pc = "numbered", ![c].id = counter + 1]
      /\ registry' = registry /\ flag' = flag /\ published' = published /\ told' = told
  BY DEF TakeNumber
<1>4. ShellTypeOK'
  <2>1. counter + 1 \in 0 .. Cardinality(Commands)
    BY <1>2, CallsAreCounted DEF Ids
  <2>2. PICK r \in [pc : Points, id : Ids \cup {0}, work : Works, late : BOOLEAN] :
              task' = [task EXCEPT ![c] = r]
    <3>1. [task[c] EXCEPT !.pc = "numbered", !.id = counter + 1]
            \in [pc : Points, id : Ids \cup {0}, work : Works, late : BOOLEAN]
      BY <1>2 DEF IInv, ShellTypeOK, Points
    <3>2. task' = [task EXCEPT ![c] = [task[c] EXCEPT !.pc = "numbered", !.id = counter + 1]]
      BY <1>3
    <3>3. QED
      BY <3>1, <3>2
  <2>3. task' \in [Commands -> [pc : Points, id : Ids \cup {0}, work : Works, late : BOOLEAN]]
    BY <2>2 DEF IInv, ShellTypeOK
  <2>4. QED
    BY <1>3, <2>1, <2>3 DEF IInv, ShellTypeOK
<1>5. \A d \in Commands : task[d].id \in Nat /\ task[d].id <= counter
  BY CallsAreCounted DEF IInv, ShellTypeOK, NumbersAreGiven, Ids
<1>6. /\ \A d \in Commands : d # c => task'[d] = task[d]
      /\ task'[c].id = counter + 1 /\ task'[c].pc = "numbered"
      /\ task'[c].work = "idle"
  BY <1>1, <1>3 DEF IInv, ShellTypeOK
<1>7. Numbered' = Numbered \cup {c}
  BY <1>1, <1>2, <1>6 DEF Numbered
<1>8. NumbersAreGiven'
  <2>1. counter' = Cardinality(Numbered')
    BY <1>2, <1>3, <1>7, FS_AddElement DEF IInv, NumbersAreGiven
  <2>2. \A d \in Commands : task'[d].id <= counter'
    <3>1. ASSUME NEW d \in Commands, d # c PROVE task'[d].id <= counter'
      <4>1. task'[d].id = task[d].id
        BY <3>1, <1>6
      <4>2. QED
        BY <4>1, <1>2, <1>3, <1>5
    <3>2. task'[c].id <= counter'
      BY <1>2, <1>3, <1>6
    <3>3. QED
      BY <3>1, <3>2
  <2>3. \A d, e \in Commands : task'[d].id = task'[e].id /\ task'[d].id # 0 => d = e
    BY <1>2, <1>5, <1>6 DEF IInv, NumbersAreGiven
  <2>4. QED
    BY <2>1, <2>2, <2>3 DEF NumbersAreGiven
<1>9. RegistryIsExact'
  <2>1. {d \in Commands : Registered(d)}' = {d \in Commands : Registered(d)}
    BY <1>1, <1>6 DEF Registered
  <2>2. \A d \in Commands : Registered(d) => task'[d].id = task[d].id
    BY <1>1, <1>6 DEF Registered
  <2>3. registry' = {task'[d].id : d \in {e \in Commands : Registered(e)}'}
    BY <1>3, <2>1, <2>2 DEF IInv, RegistryIsExact
  <2>4. QED
    BY <1>8, <2>3 DEF RegistryIsExact, NumbersAreGiven
<1>10. NumberComesFirst'
  BY <1>2, <1>6 DEF IInv, NumberComesFirst
<1>11. OneCancelIsTold'
  BY <1>3 DEF IInv, OneCancelIsTold
<1>12. AbortIsExplained'
  BY <1>3, <1>6 DEF IInv, AbortIsExplained
<1>13. KillHasReason'
  BY <1>3, <1>6 DEF IInv, KillHasReason
<1>14. QED
  BY <1>13, <1>4, <1>8, <1>9, <1>10, <1>11, <1>12 DEF IInv

-----------------------------------------------------------------------------
(* Every other step of a command keeps the numbers. *)

\* A step that moves one command and changes no number, no counter and no flag.
Moves(c) ==
    /\ UNCHANGED <<counter, flag, told>>
    /\ \A d \in Commands : task'[d].id = task[d].id
    /\ \A d \in Commands \ {c} : task'[d] = task[d]

\* What such a step cannot disturb.
LEMMA MovesKeep ==
    ASSUME IInv, NEW c \in Commands, Moves(c)
    PROVE  NumbersAreGiven' /\ OneCancelIsTold'
<1>1. Numbered' = Numbered
  BY DEF Moves, Numbered
<1>2. NumbersAreGiven'
  BY <1>1 DEF IInv, NumbersAreGiven, Moves
<1>3. OneCancelIsTold'
  BY DEF IInv, OneCancelIsTold, Moves
<1>4. QED
  BY <1>2, <1>3

\* A step that leaves its command on the same side of the registry.
LEMMA SameRegistry ==
    ASSUME IInv, NEW c \in Commands, Moves(c), registry' = registry,
           Registered(c)' <=> Registered(c)
    PROVE  RegistryIsExact'
<1>1. \A d \in Commands : Registered(d)' <=> Registered(d)
  BY DEF Moves, Registered
<1>2. {d \in Commands : Registered(d)}' = {d \in Commands : Registered(d)}
  BY <1>1
<1>3. registry' = {task'[d].id : d \in {e \in Commands : Registered(e)}'}
  BY <1>2 DEF IInv, RegistryIsExact, Moves
<1>4. QED
  BY <1>3, MovesKeep DEF NumbersAreGiven, RegistryIsExact

\* The thread of a command up to Hello, and its reply.
LEMMA ThreadIInv ==
    ASSUME IInv, NEW c \in Commands, Resolve(c) \/ Hello(c) \/ Reply(c)
    PROVE  IInv'
<1> USE DEF Resolve, Hello, Reply, Goto, Publish, shared
<1>1. Moves(c) /\ registry' = registry
  BY DEF IInv, ShellTypeOK, Moves
<1>2. /\ task'[c].work = task[c].work /\ task'[c].late = task[c].late
      /\ task'[c].pc \in {"resolved", "replied", "working"}
      /\ task'[c].pc = "working" <=> task[c].pc = "registered"
      /\ task'[c].pc = "resolved" => task[c].pc = "new"
  BY DEF IInv, ShellTypeOK
<1>3. ShellTypeOK'
  <2>1. task[c].pc = "registered" => task[c].id \in Ids
    BY DEF IInv, ShellTypeOK, NumberComesFirst
  <2>2. published' \subseteq Ids
    BY <2>1 DEF IInv, ShellTypeOK
  <2>3. QED
    BY <2>2 DEF IInv, ShellTypeOK, Points
<1>4. NumberComesFirst'
  BY <1>1, <1>2 DEF IInv, NumberComesFirst, Moves
<1>5. RegistryIsExact'
  <2>1. Registered(c)' <=> Registered(c)
    BY <1>2 DEF Registered, IInv, ShellTypeOK
  <2>2. QED
    BY <1>1, <2>1, SameRegistry
<1>6. AbortIsExplained' /\ KillHasReason'
  BY <1>1, <1>2 DEF IInv, AbortIsExplained, KillHasReason, Moves
<1>7. QED
  BY <1>1, <1>3, <1>4, <1>5, <1>6, MovesKeep DEF IInv

\* An operation enters the registry.
LEMMA RegisterIInv ==
    ASSUME IInv, NEW c \in Commands, Register(c)
    PROVE  IInv'
<1> USE DEF Register, Goto
<1>1. Moves(c)
  BY DEF IInv, ShellTypeOK, Moves
<1>2. /\ task[c].pc = "numbered" /\ task'[c].pc = "registered"
      /\ task'[c].work = task[c].work /\ task'[c].late = task[c].late
      /\ task[c].id \in Ids /\ task[c].id # 0
  BY DEF IInv, ShellTypeOK, NumberComesFirst
<1>3. ShellTypeOK'
  BY <1>2 DEF IInv, ShellTypeOK, Points
<1>4. NumberComesFirst'
  BY <1>1, <1>2 DEF IInv, NumberComesFirst, Moves
<1>5. RegistryIsExact'
  <2>1. {d \in Commands : Registered(d)}' = {d \in Commands : Registered(d)} \cup {c}
    BY <1>1, <1>2 DEF Registered, Moves
  <2>2. registry' = {task'[d].id : d \in {e \in Commands : Registered(e)}'}
    BY <1>1, <2>1 DEF IInv, RegistryIsExact, Moves
  <2>3. QED
    BY <1>1, <2>2, MovesKeep DEF NumbersAreGiven, RegistryIsExact
<1>6. AbortIsExplained' /\ KillHasReason'
  BY <1>1, <1>2 DEF IInv, AbortIsExplained, KillHasReason, Moves
<1>7. QED
  BY <1>1, <1>3, <1>4, <1>5, <1>6, MovesKeep DEF IInv

\* An operation leaves it: its number is its own, so no other goes with it.
LEMMA FinishIInv ==
    ASSUME IInv, NEW c \in Commands, Finish(c)
    PROVE  IInv'
<1> USE DEF Finish, FinishOp, Goto
<1>1. Moves(c)
  BY DEF IInv, ShellTypeOK, Moves
<1>2. /\ task[c].pc = "ended" /\ task'[c].pc = "finished"
      /\ task'[c].work = task[c].work /\ task'[c].late = task[c].late
      /\ task[c].id \in Ids /\ task[c].id # 0
  BY DEF IInv, ShellTypeOK, NumberComesFirst
<1>3. ShellTypeOK'
  BY <1>2 DEF IInv, ShellTypeOK, Points
<1>4. NumberComesFirst'
  BY <1>1, <1>2 DEF IInv, NumberComesFirst, Moves
<1>5. RegistryIsExact'
  <2>1. {d \in Commands : Registered(d)}' = {d \in Commands : Registered(d)} \ {c}
    BY <1>1, <1>2 DEF Registered, Moves
  <2>2. \A d \in Commands \ {c} : task[d].id # task[c].id
    BY <1>2 DEF IInv, NumbersAreGiven
  <2>3. registry' = {task'[d].id : d \in {e \in Commands : Registered(e)}'}
    BY <1>1, <2>1, <2>2 DEF IInv, RegistryIsExact, Moves
  <2>4. QED
    BY <1>1, <2>3, MovesKeep DEF NumbersAreGiven, RegistryIsExact
<1>6. AbortIsExplained' /\ KillHasReason'
  BY <1>1, <1>2 DEF IInv, AbortIsExplained, KillHasReason, Moves
<1>7. QED
  BY <1>1, <1>3, <1>4, <1>5, <1>6, MovesKeep DEF IInv

-----------------------------------------------------------------------------
(* The work: the engine and the doctor. *)

\* A step of the work leaves a command that has a number between Hello and Finish
\* or, if the child exits after its kill was called for, where it was.
LEMMA EngineIInv ==
    ASSUME IInv, NEW c \in Commands,
           EngineStarts(c) \/ EngineEnds(c) \/ SpawnDoctor(c) \/ Waited(c)
    PROVE  IInv'
<1> USE DEF EngineStarts, EngineEnds, SpawnDoctor, Waited, shared
<1>1. Moves(c) /\ registry' = registry
  BY DEF IInv, ShellTypeOK, Moves
<1>2. /\ task[c].pc = "working" /\ task'[c].pc \in {"working", "ended"}
      /\ task'[c].work \in {"running", "ok", "err", "panic"}
      /\ task'[c].late = task[c].late /\ task[c].id # 0
  BY DEF IInv, ShellTypeOK, NumberComesFirst
<1>3. ShellTypeOK'
  BY DEF IInv, ShellTypeOK, Points, Works
<1>4. NumberComesFirst'
  BY <1>1, <1>2 DEF IInv, NumberComesFirst, Moves
<1>5. RegistryIsExact'
  BY <1>1, <1>2, SameRegistry DEF Registered
<1>6. AbortIsExplained' /\ KillHasReason'
  BY <1>1, <1>2 DEF IInv, AbortIsExplained, KillHasReason, Moves
<1>7. QED
  BY <1>1, <1>3, <1>4, <1>5, <1>6, MovesKeep DEF IInv

\* The child ends or the clock runs, at any time.
LEMMA ChildIInv ==
    ASSUME IInv, NEW c \in Commands, DoctorExits(c) \/ ClockRuns(c)
    PROVE  IInv'
<1> USE DEF DoctorExits, ClockRuns, shared
<1>1. Moves(c) /\ registry' = registry
  BY DEF IInv, ShellTypeOK, Moves
<1>2. /\ task'[c].pc = task[c].pc
      /\ task[c].late => task'[c].late
      /\ \/ task'[c].work = task[c].work
         \/ task[c].work = "running" /\ task'[c].work = "exited"
  BY DEF IInv, ShellTypeOK
<1>3. ShellTypeOK'
  <2>1. CASE DoctorExits(c)
    BY <2>1 DEF IInv, ShellTypeOK, Works
  <2>2. CASE ClockRuns(c)
    BY <2>2 DEF IInv, ShellTypeOK
  <2>3. QED
    BY <2>1, <2>2
<1>4. NumberComesFirst'
  BY <1>1, <1>2 DEF IInv, NumberComesFirst, Moves
<1>5. RegistryIsExact'
  BY <1>1, <1>2, SameRegistry DEF Registered
<1>6. AbortIsExplained' /\ KillHasReason'
  BY <1>1, <1>2 DEF IInv, AbortIsExplained, KillHasReason, Moves
<1>7. QED
  BY <1>1, <1>3, <1>4, <1>5, <1>6, MovesKeep DEF IInv

\* The ticker kills the child, and the verdict is read off afterwards.
LEMMA AbortIInv ==
    ASSUME IInv, NEW c \in Commands, Tick(c) \/ Classify(c)
    PROVE  IInv'
<1> USE DEF Tick, KillOnDrop, Classify, ByClock, shared
<1>1. Moves(c) /\ registry' = registry
  BY DEF IInv, ShellTypeOK, Moves
<1>2. /\ task[c].pc \in {"working", "aborting"} /\ task[c].id # 0
      /\ task'[c].late = task[c].late
      /\ \/ /\ task'[c].pc = "aborting" /\ task'[c].work = "killed"
            /\ flag[task[c].id] \/ task[c].late
         \/ /\ task[c].pc = "aborting" /\ task'[c].pc = "ended"
            /\ task'[c].work = IF task[c].late THEN "timeout" ELSE "cancelled"
  BY DEF IInv, ShellTypeOK, NumberComesFirst
<1>3. ShellTypeOK'
  BY DEF IInv, ShellTypeOK, Points, Works
<1>4. NumberComesFirst'
  BY <1>1, <1>2 DEF IInv, NumberComesFirst, Moves
<1>5. RegistryIsExact'
  BY <1>1, <1>2, SameRegistry DEF Registered
<1>6. AbortIsExplained' /\ KillHasReason'
  BY <1>1, <1>2 DEF IInv, AbortIsExplained, KillHasReason, Moves
<1>7. QED
  BY <1>1, <1>3, <1>4, <1>5, <1>6, MovesKeep DEF IInv

-----------------------------------------------------------------------------
(* Cancellation. *)

\* The flag and the count of those told move together, and only once.
LEMMA CancelIInv ==
    ASSUME IInv, NEW i \in Ids, Cancel(i)
    PROVE  IInv'
<1> USE DEF Cancel, CancelOutcome, Flipped
<1>1. /\ task' = task /\ registry' = registry /\ counter' = counter
      /\ published' = published
  OBVIOUS
<1>2. \/ flag' = flag /\ told' = told
      \/ flag' = [flag EXCEPT ![i] = TRUE] /\ told' = [told EXCEPT ![i] = @ + 1]
         /\ ~flag[i]
      \/ flag' = [flag EXCEPT ![i] = TRUE] /\ told' = told /\ flag[i]
  OBVIOUS
<1>3. ShellTypeOK'
  BY <1>1, <1>2 DEF IInv, ShellTypeOK
<1>4. Numbered' = Numbered
  BY <1>1 DEF Numbered
<1>5. NumbersAreGiven' /\ NumberComesFirst'
  BY <1>1, <1>4 DEF IInv, NumbersAreGiven, NumberComesFirst
<1>6. RegistryIsExact'
  BY <1>1 DEF IInv, RegistryIsExact, Registered
<1>7. OneCancelIsTold'
  <2>1. \A j \in Ids : told[j] \in Nat /\ flag[j] \in BOOLEAN
    BY DEF IInv, ShellTypeOK
  <2>2. \A j \in Ids : told[j] <= 1 /\ (flag[j] <=> told[j] = 1)
    BY DEF IInv, OneCancelIsTold
  <2>3. CASE flag' = flag /\ told' = told
    BY <2>2, <2>3 DEF OneCancelIsTold
  <2>4. CASE flag' = [flag EXCEPT ![i] = TRUE] /\ told' = [told EXCEPT ![i] = @ + 1]
             /\ ~flag[i]
    BY <2>1, <2>2, <2>4 DEF OneCancelIsTold, IInv, ShellTypeOK
  <2>5. CASE flag' = [flag EXCEPT ![i] = TRUE] /\ told' = told /\ flag[i]
    BY <2>1, <2>2, <2>5 DEF OneCancelIsTold, IInv, ShellTypeOK
  <2>6. QED
    BY <1>2, <2>3, <2>4, <2>5
<1>8. \A j \in Ids : flag[j] => flag'[j]
  BY <1>2 DEF IInv, ShellTypeOK
<1>9. \A c \in Commands : task[c].pc = "aborting" \/ task[c].work = "cancelled"
                         => task[c].id \in Ids
  BY DEF IInv, ShellTypeOK, NumberComesFirst
<1>10. AbortIsExplained' /\ KillHasReason'
  BY <1>1, <1>8, <1>9 DEF IInv, AbortIsExplained, KillHasReason
<1>11. QED
  BY <1>3, <1>5, <1>6, <1>7, <1>10 DEF IInv

-----------------------------------------------------------------------------
(* The theorems. *)

LEMMA NextIInv == IInv /\ [ShellNext]_shellVars => IInv'
<1> SUFFICES ASSUME IInv, [ShellNext]_shellVars PROVE IInv'
  OBVIOUS
<1>1. ASSUME NEW c \in Commands, Handler(c) PROVE IInv'
  BY <1>1, ThreadIInv, TakeNumberIInv, RegisterIInv, EngineIInv, AbortIInv, FinishIInv
  DEF Handler
<1>2. ASSUME Outside PROVE IInv'
  BY <1>2, EngineIInv, ChildIInv, CancelIInv DEF Outside
<1>3. ASSUME UNCHANGED shellVars PROVE IInv'
  BY <1>3 DEF shellVars, IInv, ShellTypeOK, NumbersAreGiven, Numbered, NumberComesFirst,
     RegistryIsExact, Registered, OneCancelIsTold, AbortIsExplained, KillHasReason
<1>4. QED
  BY <1>1, <1>2, <1>3 DEF ShellNext, ShellTerminating

\* Numbers are given once, the registry holds the live operations and no other, and
\* flags, answers and verdicts agree, in every reachable state (ops.rs, doctor.rs).
THEOREM ShellInvariant == ShellSpec => []IInv
BY InitIInv, NextIInv, PTL DEF ShellSpec

\* Every reachable state of the shell's commands is well typed: a number is never
\* beyond the count of commands.
THEOREM ShellTypeCorrect == ShellSpec => []ShellTypeOK
<1>1. IInv => ShellTypeOK
  BY DEF IInv
<1>2. QED
  BY <1>1, ShellInvariant, PTL

\* One cancel of an operation is told that it did it, and a detection is called
\* cancelled or late only on the evidence for it, its child killed.
THEOREM CancelTellsTheTruth == ShellSpec => []CancelIsTruthful
<1>1. IInv => CancelIsTruthful
  BY DEF IInv, CancelIsTruthful
<1>2. QED
  BY <1>1, ShellInvariant, PTL

\* The registry is the set of live operations.
THEOREM RegistryIsTheLive == ShellSpec => []RegistryIsExact
<1>1. IInv => RegistryIsExact
  BY DEF IInv
<1>2. QED
  BY <1>1, ShellInvariant, PTL

\* A cancel that comes after the reply flips nothing: finish took the entry, and the
\* number is no other operation's ("a late op:cancel reports not found", ops.rs 12).
LEMMA LateCancelStep ==
    ASSUME IInv, [ShellNext]_shellVars, NEW c \in Commands, task[c].pc = "replied", task[c].id # 0
    PROVE  flag'[task[c].id] = flag[task[c].id]
<1>1. task[c].id \notin registry
  <2>1. ~Registered(c)
    BY DEF Registered
  <2>2. \A d \in Commands : Registered(d) => task[d].id # task[c].id
    BY <2>1 DEF IInv, NumbersAreGiven
  <2>3. QED
    BY <2>2 DEF IInv, RegistryIsExact
<1>2. ASSUME NEW i \in Ids, Cancel(i) PROVE flag'[task[c].id] = flag[task[c].id]
  <2>1. CASE i = task[c].id
    BY <1>1, <1>2, <2>1 DEF Cancel, CancelOutcome
  <2>2. CASE i # task[c].id
    BY <1>2, <2>2 DEF Cancel, IInv, ShellTypeOK
  <2>3. QED
    BY <2>1, <2>2
<1>3. ASSUME NEW d \in Commands, Handler(d) \/ EngineEnds(d) \/ DoctorExits(d) \/ ClockRuns(d)
      PROVE flag' = flag
  BY <1>3 DEF Handler, Resolve, TakeNumber, Register, Hello, EngineStarts, SpawnDoctor,
     Waited, Tick, Classify, Finish, Reply, EngineEnds, DoctorExits, ClockRuns, shared
<1>4. QED
  BY <1>2, <1>3 DEF ShellNext, Outside, ShellTerminating, shellVars

\* The action property that the run checks.
THEOREM LateCancelMisses == ShellSpec => LateCancelIsRefused
<1>1. IInv /\ [ShellNext]_shellVars =>
        [\A c \in Commands : task[c].pc = "replied" /\ task[c].id # 0 =>
           flag'[task[c].id] = flag[task[c].id]]_shellVars
  BY LateCancelStep
<1>2. QED
  BY <1>1, ShellInvariant, PTL DEF ShellSpec, LateCancelIsRefused

=============================================================================
