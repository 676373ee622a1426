--------------------------- MODULE Cs2IndexProofs ---------------------------
(***************************************************************************)
(* That a finished index is whole, for any set of files.                   *)
(*                                                                         *)
(* While it scans, the worker has dealt with all listed files but those in *)
(* todo; when it writes, what it wrote is a front part of the three maps;  *)
(* a cache file of three maps is therefore that of a finished scan, and it *)
(* stays so when the process that was writing it is gone.                  *)
(***************************************************************************)
EXTENDS Cs2Index, SequenceTheorems, FiniteSetTheorems, TLAPS

Names(x) == {r.file : r \in x}

\* One scan, which has yet to look at the files in left.
Scanned(left) ==
    /\ \A m \in Maps : idx[m] = idx[1]
    /\ \A r, s \in idx[1] : r.file = s.file => r = s
    /\ Names(idx[1]) \cup unread = Present(listed) \ left

ScanInv ==
    /\ worker = "load" => todo = Present(listed)
    /\ worker = "parse" => todo \subseteq Present(listed) /\ Scanned(todo)
    /\ worker \in {"save", "write"} => Scanned({})

WriteInv ==
    /\ cache # NoFile => Len(cache.maps) <= 3
    /\ worker = "write" /\ cache # NoFile =>
         /\ cache.key = Key(listed) /\ cache.unread = unread
         /\ \A k \in 1..Len(cache.maps) : cache.maps[k] = idx[k]

ReadyInv == status = "Ready" => Joined

IInv == TypeOK /\ ReadyIsWhole /\ CacheIsWhole /\ ScanInv /\ WriteInv /\ ReadyInv

LEMMA ThreeMaps == Cardinality(Maps) = 3
<1>1. 1 \in Int /\ 3 \in Int
  OBVIOUS
<1>2. Cardinality(1..3) = IF 1 > 3 THEN 0 ELSE 3 - 1 + 1
  BY <1>1, FS_Interval, Zenon
<1>3. Cardinality(1..3) = 3
  BY <1>2
<1> QED
  BY <1>3 DEF Maps

\* The first half of the key is the number of files listed.
LEMMA KeyCounts == ASSUME NEW d PROVE Key(d)[1] = Cardinality(Present(d))
BY DEF Key

\* A scan with nothing left is a whole index.
LEMMA ScannedIsWhole == Scanned({}) => Whole(idx, unread, Key(listed)[1])
BY KeyCounts DEF Scanned, Whole, Names

\* What a process starts with.
LEMMA FreshStep ==
    ASSUME IInv, Fresh, UNCHANGED <<disk, cache>>, app' \in {"up", "quit", "down"} PROVE IInv'
<1>1. TypeOK'
  BY DEF IInv, TypeOK, Fresh, Corpus, Empty
<1>2. CacheIsWhole'
  BY DEF IInv, CacheIsWhole, Complete, Whole
<1> QED
  BY <1>1, <1>2 DEF IInv, Fresh, ReadyIsWhole, ScanInv, WriteInv, ReadyInv

\* One more file is dealt with: read, or not.
LEMMA ScanStep == ASSUME IInv, NEW f \in todo, ScanFile(f) PROVE IInv'
<1>1. /\ worker = "parse" /\ worker' = "parse" /\ todo' = todo \ {f}
      /\ UNCHANGED <<disk, cache, app, status, cancel, listed>>
  BY DEF ScanFile
<1>2. f \in Files /\ todo \subseteq Present(listed) /\ Scanned(todo) /\ status # "Ready"
  BY <1>1 DEF IInv, TypeOK, ScanInv, ReadyInv, Joined
<1>3. Present(listed') = Present(listed)
  BY <1>1
<1>4. /\ idx' \in [Maps -> SUBSET Ref] /\ unread' \subseteq Files /\ Scanned(todo)'
  <2>1. CASE unread' = unread \cup {f} /\ UNCHANGED idx
    BY <1>1, <1>2, <1>3, <2>1 DEF IInv, TypeOK, Scanned, Names
  <2>2. CASE /\ Readable(f) /\ UNCHANGED unread
             /\ idx' = [m \in Maps |-> idx[m] \cup {[file |-> f, version |-> disk[f]]}]
    <3> DEFINE new == [file |-> f, version |-> disk[f]]
    <3>1. new \in Ref /\ new.file = f
      BY <1>2, <2>2 DEF IInv, TypeOK, Corpus, Readable, Ref
    <3>2. \A m \in Maps : idx'[m] = idx[m] \cup {new}
      BY <2>2
    <3>3. 1 \in Maps
      BY DEF Maps
    <3>4. idx' \in [Maps -> SUBSET Ref]
      BY <2>2, <3>1 DEF IInv, TypeOK
    <3>5. f \notin Names(idx[1])
      BY <1>2 DEF Scanned
    <3> HIDE DEF new
    <3>6. Names(idx'[1]) = Names(idx[1]) \cup {f}
      BY <3>1, <3>2, <3>3 DEF Names
    <3>7. \A r, s \in idx'[1] : r.file = s.file => r = s
      BY <1>2, <3>1, <3>2, <3>3, <3>5 DEF Scanned, Names
    <3>8. Names(idx'[1]) \cup unread' = Present(listed) \ todo'
      BY <1>1, <1>2, <2>2, <3>6 DEF Scanned
    <3>9. \A m \in Maps : idx'[m] = idx'[1]
      BY <1>2, <3>2, <3>3 DEF Scanned
    <3> QED
      BY <1>3, <2>2, <3>4, <3>7, <3>8, <3>9 DEF IInv, TypeOK, Scanned
  <2> QED
    BY <2>1, <2>2 DEF ScanFile
<1>5. TypeOK'
  BY <1>1, <1>4 DEF IInv, TypeOK
<1>6. CacheIsWhole'
  BY <1>1 DEF IInv, CacheIsWhole, Complete, Whole
<1> QED
  BY <1>1, <1>2, <1>3, <1>4, <1>5, <1>6
     DEF IInv, ReadyIsWhole, ScanInv, WriteInv, ReadyInv, Joined

\* The worker up to the end of the scan.
LEMMA ReadStep ==
    ASSUME IInv, Enumerate \/ LoadCache \/ StartParsing \/ EndParsing PROVE IInv'
<1>1. CASE Enumerate
  <2>1. /\ worker = "enumerate" /\ listed' = disk /\ worker' \in {"ended", "load"}
        /\ todo' \in {todo, Present(disk)} /\ (worker' = "load" => todo' = Present(disk))
        /\ status' \in {status, "Error"}
        /\ UNCHANGED <<disk, cache, app, cancel, idx, unread>>
    BY <1>1 DEF Enumerate, NoFiles
  <2>2. status' # "Ready"
    BY <2>1 DEF IInv, ReadyInv, Joined
  <2>3. TypeOK'
    BY <2>1 DEF IInv, TypeOK, Present
  <2>4. CacheIsWhole'
    BY <2>1 DEF IInv, CacheIsWhole, Complete, Whole
  <2>5. Present(listed') = Present(disk)
    BY <2>1
  <2>6. ScanInv'
    BY <2>1, <2>5 DEF ScanInv, Present
  <2> QED
    BY <2>1, <2>2, <2>3, <2>4, <2>6 DEF IInv, ReadyIsWhole, WriteInv, ReadyInv
<1>2. CASE LoadCache
  <2>1. /\ Usable /\ Complete(cache) /\ unread' = cache.unread /\ status' = "Ready" /\ worker' = "ended"
        /\ idx' = [m \in Maps |-> IF m <= Len(cache.maps) THEN cache.maps[m] ELSE {}]
        /\ UNCHANGED <<disk, cache, app, cancel, listed, todo>>
    BY <1>2 DEF LoadCache
  <2>2. cache # NoFile /\ cache \in CacheFile /\ cache.key = Key(listed) /\ Len(cache.maps) = 3
    BY <2>1, ThreeMaps DEF Usable, Complete, IInv, TypeOK
  <2>3. cache.maps \in Seq(SUBSET Ref) /\ cache.unread \subseteq Files
    BY <2>2 DEF CacheFile
  <2>4. \A m \in Maps : idx'[m] = cache.maps[m] /\ cache.maps[m] \in SUBSET Ref
    BY <2>1, <2>2, <2>3, ElementOfSeq DEF Maps
  <2>5. TypeOK'
    BY <2>1, <2>3, <2>4 DEF IInv, TypeOK
  <2>6. Whole(cache.maps, cache.unread, Key(listed)[1])
    BY <2>1, <2>2 DEF IInv, CacheIsWhole
  <2>7. Key(listed')[1] = Key(listed)[1]
    BY <2>1
  <2>8. ReadyIsWhole'
    <3>1. 1 \in Maps
      BY DEF Maps
    <3> QED
      BY <2>1, <2>4, <2>6, <2>7, <3>1 DEF ReadyIsWhole, Whole
  <2>9. CacheIsWhole'
    BY <2>1 DEF IInv, CacheIsWhole, Complete, Whole
  <2> QED
    BY <2>1, <2>5, <2>8, <2>9 DEF IInv, ScanInv, WriteInv, ReadyInv, Joined
<1>3. CASE StartParsing
  <2>1. /\ worker = "load" /\ idx' = Empty /\ unread' = {} /\ worker' = "parse"
        /\ UNCHANGED <<disk, cache, app, status, cancel, listed, todo>>
    BY <1>3 DEF StartParsing
  <2>2. todo = Present(listed) /\ status # "Ready"
    BY <2>1 DEF IInv, ScanInv, ReadyInv, Joined
  <2>3. TypeOK'
    BY <2>1 DEF IInv, TypeOK, Empty
  <2>4. Scanned(todo)'
    <3>1. \A m \in Maps : idx'[m] = {}
      BY <2>1 DEF Empty
    <3>2. 1 \in Maps
      BY DEF Maps
    <3>3. Present(listed') = Present(listed)
      BY <2>1
    <3> QED
      BY <2>1, <2>2, <3>1, <3>2, <3>3 DEF Scanned, Names
  <2>5. CacheIsWhole'
    BY <2>1 DEF IInv, CacheIsWhole, Complete, Whole
  <2> QED
    BY <2>1, <2>2, <2>3, <2>4, <2>5 DEF IInv, ReadyIsWhole, ScanInv, WriteInv, ReadyInv, Present
<1>4. CASE EndParsing
  <2>1. /\ worker = "parse" /\ (cancel \/ todo = {})
        /\ worker' = IF cancel THEN "ended" ELSE "save"
        /\ UNCHANGED <<disk, cache, app, status, cancel, listed, todo, idx, unread>>
    BY <1>4 DEF EndParsing, AfterParsing, work
  <2>2. Scanned(todo) /\ status # "Ready"
    BY <2>1 DEF IInv, ScanInv, ReadyInv, Joined
  <2>3. TypeOK'
    BY <2>1 DEF IInv, TypeOK
  <2>4. ScanInv'
    <3>1. worker' = "save" => Scanned({})
      BY <2>1, <2>2
    <3> QED
      BY <2>1, <3>1 DEF ScanInv, Scanned, Present, Names
  <2>5. CacheIsWhole'
    BY <2>1 DEF IInv, CacheIsWhole, Complete, Whole
  <2> QED
    BY <2>1, <2>2, <2>3, <2>4, <2>5 DEF IInv, ReadyIsWhole, WriteInv, ReadyInv
<1> QED
  BY <1>1, <1>2, <1>3, <1>4
\* SaveCache and the ready index.
LEMMA WriteStep ==
    ASSUME IInv, Truncate \/ WriteHeader \/ WriteMap \/ Publish PROVE IInv'
<1>1. /\ worker \in {"save", "write"} /\ Scanned({}) /\ status # "Ready"
      /\ UNCHANGED <<disk, app, cancel, listed, todo, idx, unread>>
  BY DEF Truncate, WriteHeader, WriteMap, Publish, work, IInv, ScanInv, ReadyInv, Joined
<1>2. Whole(idx, unread, Key(listed)[1]) /\ Key(listed') = Key(listed)
  BY <1>1, ScannedIsWhole
<1>3. Scanned({})'
  BY <1>1 DEF Scanned, Names, Present
<1>4. CASE Truncate
  <2>1. worker' = "write" /\ cache' = NoFile /\ UNCHANGED status
    BY <1>4 DEF Truncate
  <2> QED
    BY <1>1, <1>3, <2>1
       DEF IInv, TypeOK, ReadyIsWhole, CacheIsWhole, ScanInv, WriteInv, ReadyInv
<1>5. CASE WriteHeader
  <2>1. /\ worker = "write" /\ UNCHANGED <<status, worker>>
        /\ cache' = [key |-> Key(listed), maps |-> << >>, unread |-> unread]
    BY <1>5 DEF WriteHeader
  <2>2. << >> \in Seq(SUBSET Ref) /\ Len(cache'.maps) = 0
    BY <2>1, EmptySeq
  <2>3. cache' \in CacheFile
    BY <2>1, <2>2 DEF IInv, TypeOK, CacheFile
  <2>4. CacheIsWhole'
    BY <2>2, ThreeMaps DEF CacheIsWhole, Complete
  <2>5. WriteInv'
    BY <1>1, <1>2, <2>1, <2>2 DEF WriteInv
  <2> QED
    BY <1>1, <1>3, <2>1, <2>3, <2>4, <2>5 DEF IInv, TypeOK, ReadyIsWhole, ScanInv, ReadyInv
<1>6. CASE WriteMap
  <2> DEFINE n == Len(cache.maps)
  <2>1. /\ worker = "write" /\ cache # NoFile /\ n # 3 /\ UNCHANGED <<status, worker>>
        /\ cache' = [cache EXCEPT !.maps = Append(cache.maps, idx[n + 1])]
    BY <1>6, ThreeMaps DEF WriteMap, Complete
  <2>2. /\ cache \in CacheFile /\ cache.maps \in Seq(SUBSET Ref) /\ n \in 0..2
        /\ cache.key = Key(listed) /\ cache.unread = unread
        /\ \A k \in 1..n : cache.maps[k] = idx[k]
    <3>1. cache \in CacheFile
      BY <2>1 DEF IInv, TypeOK
    <3>2. cache.maps \in Seq(SUBSET Ref) /\ n \in Nat
      BY <3>1, LenProperties DEF CacheFile
    <3>3. n <= 3
      BY <2>1 DEF IInv, WriteInv
    <3>4. n \in 0..2
      <4>1. \A x \in Nat : x # 3 /\ x <= 3 => x \in 0..2
        OBVIOUS
      <4>2. n # 3
        BY <2>1
      <4> QED
        BY ONLY <3>2, <3>3, <4>1, <4>2
    <3>5. /\ cache.key = Key(listed) /\ cache.unread = unread
          /\ \A k \in 1..n : cache.maps[k] = idx[k]
      BY <2>1 DEF IInv, WriteInv
    <3> QED
      BY <3>1, <3>2, <3>4, <3>5
  <2>3. n + 1 \in Maps /\ idx[n + 1] \in SUBSET Ref
    BY <2>2 DEF IInv, TypeOK, Maps
  <2>4. /\ cache'.maps = Append(cache.maps, idx[n + 1])
        /\ cache'.key = cache.key /\ cache'.unread = cache.unread
    BY <2>1, <2>2 DEF CacheFile
  <2>5. /\ cache'.maps \in Seq(SUBSET Ref) /\ Len(cache'.maps) = n + 1
        /\ \A k \in 1..n : cache'.maps[k] = cache.maps[k]
        /\ cache'.maps[n + 1] = idx[n + 1]
    BY <2>2, <2>3, <2>4, AppendProperties
  <2>6. cache' \in CacheFile
    BY <2>1, <2>2, <2>4, <2>5 DEF CacheFile
  <2>7. \A k \in 1..(n + 1) : cache'.maps[k] = idx[k]
    BY <2>2, <2>5
  <2>8. CacheIsWhole'
    <3>1. SUFFICES ASSUME n + 1 = 3
                   PROVE  Whole(cache'.maps, cache'.unread, cache'.key[1])
      BY <2>5, ThreeMaps DEF CacheIsWhole, Complete
    <3>2. \A m \in Maps : cache'.maps[m] = idx[m]
      BY <2>7, <3>1 DEF Maps
    <3>3. 1 \in Maps
      BY DEF Maps
    <3> QED
      BY <1>2, <2>2, <2>4, <3>2, <3>3 DEF Whole
  <2>9. WriteInv'
    BY <1>1, <1>2, <2>1, <2>2, <2>4, <2>5, <2>7 DEF WriteInv
  <2> QED
    BY <1>1, <1>3, <2>1, <2>6, <2>8, <2>9 DEF IInv, TypeOK, ReadyIsWhole, ScanInv, ReadyInv
<1>7. CASE Publish
  <2>1. status' = "Ready" /\ worker' = "ended" /\ UNCHANGED cache
    BY <1>7 DEF Publish
  <2>2. ReadyIsWhole'
    BY <1>1, <1>2 DEF ReadyIsWhole, Whole
  <2>3. CacheIsWhole'
    BY <2>1 DEF IInv, CacheIsWhole, Complete, Whole
  <2> QED
    BY <1>1, <2>1, <2>2, <2>3 DEF IInv, TypeOK, ScanInv, WriteInv, ReadyInv, Joined
<1> QED
  BY <1>4, <1>5, <1>6, <1>7

\* The UI thread, the directory and the process.
LEMMA OutsideStep ==
    ASSUME IInv, BuildAsync \/ Quit \/ Exit \/ Kill \/ Start \/ (\E f \in Files : Edit(f)) PROVE IInv'
<1>1. CASE Exit \/ Kill
  BY <1>1, FreshStep DEF Exit, Kill
<1>2. CASE BuildAsync \/ Quit \/ Start \/ (\E f \in Files : Edit(f))
  <2>1. /\ UNCHANGED <<cache, listed, todo, idx, unread>>
        /\ \/ UNCHANGED <<worker, status>>
           \/ worker' = "enumerate" /\ status' = "Building"
    BY <1>2 DEF BuildAsync, Quit, Start, Edit, work
  <2>2. TypeOK'
    <3>1. CASE BuildAsync \/ Quit \/ Start
      BY <3>1 DEF BuildAsync, Quit, Start, work, IInv, TypeOK
    <3>2. CASE \E f \in Files : Edit(f)
      BY <3>2 DEF Edit, work, IInv, TypeOK, Corpus
    <3> QED
      BY <1>2, <3>1, <3>2
  <2>3. ReadyIsWhole' /\ CacheIsWhole'
    BY <2>1 DEF IInv, ReadyIsWhole, CacheIsWhole, Complete, Whole, Key
  <2>4. ScanInv'
    BY <2>1 DEF IInv, ScanInv, Scanned, Names, Present
  <2>5. WriteInv' /\ ReadyInv'
    BY <2>1 DEF IInv, WriteInv, ReadyInv, Joined
  <2> QED
    BY <2>2, <2>3, <2>4, <2>5 DEF IInv
<1> QED
  BY <1>1, <1>2

\* The inductive invariant.
THEOREM Inductive == Spec => []IInv
<1>1. Init => IInv
  <2> SUFFICES ASSUME Init PROVE IInv
    OBVIOUS
  <2>1. TypeOK
    BY DEF Init, TypeOK, Corpus, Empty
  <2> QED
    BY <2>1 DEF Init, IInv, ReadyIsWhole, CacheIsWhole, ScanInv, WriteInv, ReadyInv
<1>2. IInv /\ [Next]_vars => IInv'
  <2> SUFFICES ASSUME IInv, [Next]_vars PROVE IInv'
    OBVIOUS
  <2>1. CASE Worker
    BY <2>1, ReadStep, WriteStep, ScanStep DEF Worker
  <2>2. CASE BuildAsync \/ Quit \/ Exit \/ Kill \/ Start \/ (\E f \in Files : Edit(f))
    BY <2>2, OutsideStep
  <2>3. CASE UNCHANGED vars
    <3>1. UNCHANGED <<disk, cache, app, status, cancel, worker, listed, todo, idx, unread>>
      BY <2>3 DEF vars
    <3>2. TypeOK'
      BY <3>1 DEF IInv, TypeOK
    <3>3. ReadyIsWhole' /\ CacheIsWhole'
      BY <3>1 DEF IInv, ReadyIsWhole, CacheIsWhole, Complete, Whole, Key
    <3> QED
      BY <3>1, <3>2, <3>3 DEF IInv, ScanInv, Scanned, Names, Present, WriteInv, ReadyInv, Joined
  <2> QED
    BY <2>1, <2>2, <2>3 DEF Next
<1> QED
  BY <1>1, <1>2, PTL DEF Spec

\* The types, for any files and versions.
THEOREM TypeCorrect == Spec => []TypeOK
<1>1. IInv => TypeOK
  BY DEF IInv
<1> QED
  BY <1>1, Inductive, PTL

\* Queries are answered from a whole index only.
THEOREM AnswersAreWhole == Spec => []ReadyIsWhole
<1>1. IInv => ReadyIsWhole
  BY DEF IInv
<1> QED
  BY <1>1, Inductive, PTL

\* No accepted cache file is of a scan that was cut short.
THEOREM CutShortLeavesNoIndex == Spec => []CacheIsWhole
<1>1. IInv => CacheIsWhole
  BY DEF IInv
<1> QED
  BY <1>1, Inductive, PTL
=============================================================================
