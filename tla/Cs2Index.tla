------------------------------ MODULE Cs2Index ------------------------------
(***************************************************************************)
(* The CS2 cross-reference index: a worker thread scans a directory of     *)
(* .asm files into three maps, or takes them from the file an earlier run  *)
(* left, and hands them to the UI thread by a status.                      *)
(*                                                                         *)
(* Meanwhile files change, cannot be read or vanish, and the program is    *)
(* closed or killed anywhere, half way through writing the cache file      *)
(* included.  A map is reduced to which version of which files it was      *)
(* filled from; `listed` is the directory as the worker listed it, of      *)
(* which the code keeps the names, the number and the total size.  BuildAsync *)
(* is modelled with force = false, the only way it is called.              *)
(***************************************************************************)
EXTENDS Naturals, Sequences, FiniteSets, FiniteSetsExt

CONSTANTS
    Files, Versions, Absent,    \* names of .asm files, and their contents
    Size,                       \* size of a version
    NoFile                      \* no cache file, or not even a header in it

ASSUME SizeAssumption == Size \in [Versions -> Nat]
ASSUME AbsentAssumption == Absent \notin Versions

Maps == 1..3                    \* varbit_, varp_, const_
Ref == [file : Files, version : Versions]
Corpus == [Files -> Versions \cup {Absent}]

VARIABLES
    disk,       \* the directory
    cache,      \* the cache file: its key, the maps written so far, and
                \* (history) the files that could not be read for it
    app,        \* the program: "up", "quit" while ~Cs2Index runs, "down"
    status,     \* status_
    cancel,     \* cancel_
    worker,     \* where the worker is; "none" and "ended" are not running
    listed,     \* the directory when it was listed
    todo,       \* files not yet scanned
    idx,        \* the maps
    unread      \* history: files the scan behind idx could not read

vars == <<disk, cache, app, status, cancel, worker, listed, todo, idx, unread>>
work == <<listed, todo, idx, unread>>

Present(d) == {f \in Files : d[f] # Absent}

\* What the cache file is recognised by: number of files and total size.
Key(d) == <<Cardinality(Present(d)), MapThenSumSet(LAMBDA f : Size[d[f]], Present(d))>>

CacheFile == [key : {Key(d) : d \in Corpus}, maps : Seq(SUBSET Ref), unread : SUBSET Files]

ASSUME NoFileAssumption == NoFile \notin CacheFile

Empty == [m \in Maps |-> {}]

Fresh ==        \* what a new process starts with
    /\ status' = "Idle" /\ cancel' = FALSE /\ worker' = "none"
    /\ listed' = [f \in Files |-> Absent] /\ todo' = {}
    /\ idx' = Empty /\ unread' = {}

Init ==
    /\ disk \in Corpus /\ cache = NoFile /\ app = "up"
    /\ status = "Idle" /\ cancel = FALSE /\ worker = "none"
    /\ listed = [f \in Files |-> Absent] /\ todo = {}
    /\ idx = Empty /\ unread = {}

(***************************************************************************)
(* The UI thread.                                                          *)
(***************************************************************************)
Joined == worker \in {"none", "ended"}

\* The button is there when nothing is built or being built; BuildAsync joins
\* the thread of an earlier attempt and starts a new one.
BuildAsync ==
    /\ app = "up" /\ status \in {"Idle", "Error"} /\ Joined
    /\ status' = "Building" /\ cancel' = FALSE /\ worker' = "enumerate"
    /\ UNCHANGED <<disk, cache, app, work>>

\* ~Cs2Index: cancel, then join.
Quit ==
    /\ app = "up" /\ app' = "quit" /\ cancel' = TRUE
    /\ UNCHANGED <<disk, cache, status, worker, work>>

Exit ==
    /\ app = "quit" /\ Joined /\ app' = "down" /\ Fresh
    /\ UNCHANGED <<disk, cache>>

(***************************************************************************)
(* Worker.                                                                 *)
(***************************************************************************)
\* Fault: an empty directory ends the worker and nobody is told.
NoFilesSilent == worker' = "ended" /\ UNCHANGED <<status, todo>>

NoFiles == worker' = "ended" /\ status' = "Error" /\ UNCHANGED todo

Enumerate ==
    /\ worker = "enumerate" /\ listed' = disk
    /\ IF Present(disk) = {}
       THEN NoFiles
       ELSE worker' = "load" /\ todo' = Present(disk) /\ UNCHANGED status
    /\ UNCHANGED <<disk, cache, app, cancel, idx, unread>>

\* Fault: the end of the file passes for the end of the maps.
CompleteUnchecked(c) == TRUE

\* ReadMap fails at the end of the file.
Complete(c) == Len(c.maps) = Cardinality(Maps)

Usable == cache # NoFile /\ cache.key = Key(listed)

\* LoadCache finds the maps it looks for: the index is ready.
LoadCache ==
    /\ worker = "load" /\ Usable /\ Complete(cache)
    /\ idx' = [m \in Maps |-> IF m <= Len(cache.maps) THEN cache.maps[m] ELSE {}]
    /\ unread' = cache.unread
    /\ status' = "Ready" /\ worker' = "ended"
    /\ UNCHANGED <<disk, cache, app, cancel, listed, todo>>

\* LoadCache fails, with or without something in the maps: all are cleared.
StartParsing ==
    /\ worker = "load" /\ ~(Usable /\ Complete(cache))
    /\ idx' = Empty /\ unread' = {} /\ worker' = "parse"
    /\ UNCHANGED <<disk, cache, app, status, cancel, listed, todo>>

Readable(f) == disk[f] # Absent

\* ParseAll, one file; its references go to the three maps.
ScanFile(f) ==
    /\ worker = "parse" /\ ~cancel /\ todo' = todo \ {f}
    /\ \/ /\ Readable(f) /\ UNCHANGED unread
          /\ idx' = [m \in Maps |-> idx[m] \cup {[file |-> f, version |-> disk[f]]}]
       \/ unread' = unread \cup {f} /\ UNCHANGED idx
    /\ UNCHANGED <<disk, cache, app, status, cancel, worker, listed>>

AfterParsingAnyway == worker' = "save"      \* fault: cancel_ is not looked at again

AfterParsing == worker' = IF cancel THEN "ended" ELSE "save"

EndParsing ==
    /\ worker = "parse" /\ (cancel \/ todo = {})
    /\ AfterParsing
    /\ UNCHANGED <<disk, cache, app, status, cancel, work>>

\* SaveCache: the file is emptied, then written from the front.
Truncate ==
    /\ worker = "save" /\ worker' = "write" /\ cache' = NoFile
    /\ UNCHANGED <<disk, app, status, cancel, work>>

WriteHeader ==
    /\ worker = "write" /\ cache = NoFile
    /\ cache' = [key |-> Key(listed), maps |-> << >>, unread |-> unread]
    /\ UNCHANGED <<disk, app, status, cancel, worker, work>>

WriteMap ==
    /\ worker = "write" /\ cache # NoFile /\ ~Complete(cache)
    /\ cache' = [cache EXCEPT !.maps = Append(@, idx[Len(@) + 1])]
    /\ UNCHANGED <<disk, app, status, cancel, worker, work>>

\* Everything is written, or the file could not be opened or written: all the same.
Publish ==
    /\ worker \in {"save", "write"}
    /\ status' = "Ready" /\ worker' = "ended"
    /\ UNCHANGED <<disk, cache, app, cancel, work>>

(***************************************************************************)
(* Outside (external).                                                     *)
(***************************************************************************)
Edit(f) ==
    /\ \E v \in Versions \cup {Absent} : disk' = [disk EXCEPT ![f] = v]
    /\ UNCHANGED <<cache, app, status, cancel, worker, work>>

Kill ==
    /\ app # "down" /\ app' = "down" /\ Fresh
    /\ UNCHANGED <<disk, cache>>

Start ==
    /\ app = "down" /\ app' = "up"
    /\ UNCHANGED <<disk, cache, status, cancel, worker, work>>

-----------------------------------------------------------------------------
Worker ==
    \/ Enumerate \/ LoadCache \/ StartParsing \/ EndParsing
    \/ Truncate \/ WriteHeader \/ WriteMap \/ Publish
    \/ \E f \in todo : ScanFile(f)

Next ==
    \/ Worker \/ BuildAsync \/ Quit \/ Exit
    \/ Kill \/ Start \/ (\E f \in Files : Edit(f))

Spec == Init /\ [][Next]_vars

\* A running thread runs on, and a join that can return does.
FairSpec == Spec /\ WF_vars(Worker) /\ WF_vars(Exit)

-----------------------------------------------------------------------------
(* Properties *)

TypeOK ==
    /\ disk \in Corpus /\ listed \in Corpus
    /\ cache \in CacheFile \cup {NoFile}
    /\ app \in {"up", "quit", "down"}
    /\ status \in {"Idle", "Building", "Ready", "Error"} /\ cancel \in BOOLEAN
    /\ worker \in {"none", "enumerate", "load", "parse", "save", "write", "ended"}
    /\ todo \subseteq Files /\ unread \subseteq Files
    /\ idx \in [Maps -> SUBSET Ref]

\* The maps x were filled by one scan of n files, of which it could not read
\* those in gone: the same files in each map, each in one version.
Whole(x, gone, n) ==
    /\ \A m \in Maps : x[m] = x[1]
    /\ \A r, s \in x[1] : r.file = s.file => r = s
    /\ Cardinality({r.file : r \in x[1]} \cup gone) = n

\* What queries are answered from is a whole index, never half a scan, half a
\* cache file, or one scan on top of another: whatever was closed or killed in
\* the middle, in this run or an earlier one.
ReadyIsWhole == status = "Ready" => Whole(idx, unread, Key(listed)[1])

\* A cache file that would be accepted is the index of as many files as its
\* key says; a scan that was cancelled leaves none.
CacheIsWhole == cache # NoFile /\ Complete(cache) => Whole(cache.maps, cache.unread, cache.key[1])

\* A build comes to an end the panel sees, unless the program does.
BuildEnds == status = "Building" ~> (status # "Building" \/ app # "up")
=============================================================================
