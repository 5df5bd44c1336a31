------------------------------- MODULE FatFile -------------------------------
(***************************************************************************)
(* Writing files on the internal FAT volume (firmware/services/            *)
(* fs_target.c): fs_ensure_file, fs_append, fs_truncate, fs_patch and      *)
(* fs_target_file_rewrite.  A call is the sector writes it makes, in their *)
(* order: one caller at a time writes, and nothing else does.  A write may *)
(* fail and power may go before any of them; a sector is then what it was, *)
(* or what it was to be.                                                   *)
(* A cluster is one sector of FfUnit units of data; a unit is the call     *)
(* that wrote it, 0 when a sector was zeroed.                              *)
(***************************************************************************)
EXTENDS Integers, Sequences, SequencesExt

CONSTANTS
    FfFiles,        \* paths
    FfLastCluster,  \* clusters are 2 .. FfLastCluster, nclus + 1
    FfUnit,         \* units of data in a cluster
    FfLens,         \* lengths that are appended, written or made room for
    FfCalls,        \* bound: calls
    FfFaults,       \* a subset of FfFaultKinds
    FfNone          \* no directory entry, no call

FfFaultKinds == {"write", "power",
                 "walk"}    \* a FAT sector cannot be read, once

FfClusters == 2 .. FfLastCluster
FfFree == 0
FfEnd == 1
FfEntries == [clus : FfClusters \cup {0}, size : Nat]
FfCallKinds == [kind : {"append", "create", "rewrite", "patch"}, f : FfFiles,
                off : Nat, len : Nat, chain : Seq(FfClusters), had : Nat,
                at : {"grow", "write"}]

ASSUME FfAssumption ==
    /\ FfLastCluster \in Nat /\ FfUnit \in Nat \ {0} /\ FfLens \subseteq Nat
    /\ FfCalls \in Nat /\ FfFaults \subseteq FfFaultKinds
    /\ FfNone \notin FfEntries \cup FfCallKinds

VARIABLES
    ffFat,          \* copy -> cluster -> FfFree, FfEnd or the next cluster
    ffData,         \* cluster -> units
    ffDir,          \* path -> [clus, size], FfNone when it does not exist
    ffHint,         \* the allocation hint of FSInfo
    ffTodo,         \* the sector writes that the call makes next
    ffCall,         \* the call: its kind, path, position and length, the
                    \* file's clusters (at first the .had it found), and .at,
                    \* "grow" while it takes clusters and then "write"
    ffCount,        \* calls made
    ffWas,          \* history: path -> what it held when the call began
    ffHurt          \* history: a call failed, was cut short or found no room

FfUnits == 0 .. FfUnit - 1
FfBlank == [u \in FfUnits |-> 0]

(* A sector write: of a sector of a copy of the FAT, of data, of a         *)
(* directory, of FSInfo.                                                   *)
FfWrites ==
    [k : {"fat"}, copy : {1, 2}, c : FfClusters, v : FfClusters \cup {FfEnd}]
        \cup [k : {"data"}, c : FfClusters, units : [FfUnits -> 0 .. FfCalls]]
        \cup [k : {"dir"}, f : FfFiles, entry : FfEntries]
        \cup [k : {"hint"}, c : Nat]

ffVars == <<ffFat, ffData, ffDir, ffHint, ffTodo, ffCall, ffCount, ffWas, ffHurt>>

FfInit ==
    /\ ffFat = [copy \in {1, 2} |-> [c \in FfClusters |-> FfFree]]
    /\ ffData = [c \in FfClusters |-> FfBlank]
    /\ ffDir = [f \in FfFiles |-> FfNone]
    /\ ffHint = 2
    /\ ffTodo = << >> /\ ffCall = FfNone /\ ffCount = 0
    /\ ffWas = [f \in FfFiles |-> << >>] /\ ffHurt = FALSE

(* The clusters from one on, in order: fat_next, from a file's entry.      *)
FfWalk(fat, s) ==
    IF s # << >> /\ fat[s[Len(s)]] \in FfClusters THEN Append(s, fat[s[Len(s)]]) ELSE s

FfChainFrom(fat, clus) ==
    LET walk[n \in 0 .. FfLastCluster] ==
            IF n = 0 THEN IF clus \in FfClusters THEN <<clus>> ELSE << >>
            ELSE FfWalk(fat, walk[n - 1])
    IN  walk[FfLastCluster]

FfClus(f) == IF ffDir[f] = FfNone THEN 0 ELSE ffDir[f].clus

FfChain(f) == FfChainFrom(ffFat[1], FfClus(f))

(* What fs_target_file_append takes for the clusters of the file: fat_next *)
(* returns 0 both at the end of a chain and when it cannot read the FAT.   *)
FfSeen(f) ==
    {FfChain(f)} \cup
    (IF "walk" \in FfFaults THEN {SubSeq(FfChain(f), 1, n) : n \in 1 .. Len(FfChain(f))} ELSE {})

FfSize(f) == IF ffDir[f] = FfNone THEN 0 ELSE ffDir[f].size

FfUnitsOf(chain, size) ==
    [i \in 1 .. size |-> ffData[chain[1 + (i - 1) \div FfUnit]][(i - 1) % FfUnit]]

(* What reading the file to its end returns.                               *)
FfRead(f) == FfUnitsOf(FfChain(f), FfSize(f))

FfSectors(n) == (n + FfUnit - 1) \div FfUnit

FfFreeOnes == {c \in FfClusters : ffFat[1][c] = FfFree}

(* alloc_clus: the first free cluster from the hint on, or from the start. *)
FfAlloc ==
    LET start == IF ffHint \in FfClusters THEN ffHint ELSE 2
        onward == {c \in FfFreeOnes : c >= start}
    IN  IF onward # {} THEN Min(onward) ELSE Min(FfFreeOnes)

FfFatSet(c, v) == <<[k |-> "fat", copy |-> 1, c |-> c, v |-> v],
                    [k |-> "fat", copy |-> 2, c |-> c, v |-> v]>>

FfZero(c) == <<[k |-> "data", c |-> c, units |-> FfBlank]>>

(* Mutant: the chain is linked to a cluster that is not marked yet.        *)
FfGrowthLinkFirst(chain, c) ==
    (IF chain = << >> THEN << >> ELSE FfFatSet(Last(chain), c))
        \o FfFatSet(c, FfEnd) \o FfZero(c)

(* Mutant: only the first copy is written.                                 *)
FfGrowthOneCopy(chain, c) ==
    <<[k |-> "fat", copy |-> 1, c |-> c, v |-> FfEnd]>>
        \o (IF chain = << >> THEN << >>
            ELSE <<[k |-> "fat", copy |-> 1, c |-> Last(chain), v |-> c]>>)
        \o FfZero(c)

(* One round of the growth loop of fs_target_file_append and               *)
(* fs_target_file_create: the cluster is marked in both copies, linked to  *)
(* the last one, and zeroed.                                               *)
FfGrowth(chain, c) ==
    FfFatSet(c, FfEnd)
        \o (IF chain = << >> THEN << >> ELSE FfFatSet(Last(chain), c))
        \o FfZero(c)

(* write_range: the sectors that hold units off .. off + len - 1 of a file *)
(* with these clusters, the units before them kept, those after kept or    *)
(* zeroed.                                                                 *)
FfRange(chain, off, len, zeroTail) ==
    LET first == off \div FfUnit
        last == IF len = 0 THEN first - 1 ELSE (off + len - 1) \div FfUnit
    IN  [i \in 1 .. last - first + 1 |->
            LET c == chain[first + i]
                at(u) == (first + i - 1) * FfUnit + u
            IN  [k |-> "data", c |-> c,
                 units |-> [u \in FfUnits |->
                    IF at(u) \in off .. off + len - 1 THEN ffCount + 1
                    ELSE IF at(u) < off \/ ~zeroTail THEN ffData[c][u] ELSE 0]]]

FfEntry(f, clus, size) == [k |-> "dir", f |-> f, entry |-> [clus |-> clus, size |-> size]]

FfFirst(chain) == IF chain = << >> THEN 0 ELSE Head(chain)

FfNote(c) == <<[k |-> "hint", c |-> c]>>

-----------------------------------------------------------------------------
(* The call begins, on a file with these clusters.                         *)
FfBegins(kind, f, off, len, chain, at, writes) ==
    /\ ffCall = FfNone /\ ffCount < FfCalls
    /\ ffCall' = [kind |-> kind, f |-> f, off |-> off, len |-> len,
                  chain |-> chain, had |-> Len(chain), at |-> at]
    /\ ffTodo' = writes
    /\ ffWas' = [g \in FfFiles |-> FfRead(g)]
    /\ UNCHANGED <<ffFat, ffData, ffDir, ffHint, ffCount, ffHurt>>

(* fs_target_file_append: it grows the chain and then writes.              *)
FfAppend(f, len) ==
    /\ ffDir[f] # FfNone /\ len > 0
    /\ \E chain \in FfSeen(f) :
          FfBegins("append", f, FfSize(f), len, chain, "grow", << >>)

(* fs_ensure_file of a path that does not exist: fs_target_file_create.    *)
FfCreate(f, len) ==
    /\ ffDir[f] = FfNone
    /\ FfBegins("create", f, 0, len, << >>, "grow", << >>)

(* fs_target_file_rewrite within the clusters the file has; fs_truncate is *)
(* the rewrite with nothing.                                               *)
FfRewrite(f, len) ==
    LET chain == FfChain(f)
    IN  /\ ffDir[f] # FfNone /\ FfSectors(len) <= Len(chain)
        /\ FfBegins("rewrite", f, 0, len, chain, "write",
                    FfRange(chain, 0, len, TRUE) \o <<FfEntry(f, ffDir[f].clus, len)>>)

(* fs_target_file_patch: never past the end of the file.                   *)
FfPatch(f, off, len) ==
    /\ ffDir[f] # FfNone /\ len > 0 /\ off + len <= FfSize(f)
    /\ FfBegins("patch", f, off, len, FfChain(f), "write",
                FfRange(FfChain(f), off, len, FALSE))

FfGrowing == ffCall # FfNone /\ ffCall.at = "grow" /\ ffTodo = << >>

FfGrownTo == FfSectors(ffCall.off + ffCall.len)

(* The growth loop takes a cluster, or fails when there is none.           *)
FfGrow ==
    /\ FfGrowing /\ Len(ffCall.chain) < FfGrownTo
    /\ IF FfFreeOnes # {}
       THEN /\ ffTodo' = FfGrowth(ffCall.chain, FfAlloc)
            /\ ffCall' = [ffCall EXCEPT !.chain = Append(@, FfAlloc)]
            /\ UNCHANGED ffHurt
       ELSE /\ ffCall' = [ffCall EXCEPT !.at = "write"] /\ ffHurt' = TRUE
            /\ UNCHANGED ffTodo
    /\ UNCHANGED <<ffFat, ffData, ffDir, ffHint, ffCount, ffWas>>

(* The hint, once clusters were taken.                                     *)
FfNoted ==
    LET chain == ffCall.chain
    IN  IF Len(chain) = ffCall.had THEN << >>
        ELSE FfNote(IF ffCall.kind = "append" THEN Last(chain) + 1
                                              ELSE Head(chain) + Len(chain))

FfWritten ==
    IF ffCall.kind = "append" THEN FfRange(ffCall.chain, ffCall.off, ffCall.len, TRUE)
                              ELSE << >>

FfSized == <<FfEntry(ffCall.f, FfFirst(ffCall.chain), ffCall.off + ffCall.len)>>

(* Mutant: the entry is written before the data.                           *)
FfRestEntryFirst == FfNoted \o FfSized \o FfWritten

(* What an append and a create do with the clusters: the hint, the data    *)
(* and the entry.                                                          *)
FfRest == FfNoted \o FfWritten \o FfSized

FfFill ==
    /\ FfGrowing /\ Len(ffCall.chain) >= FfGrownTo
    /\ ffTodo' = FfRest /\ ffCall' = [ffCall EXCEPT !.at = "write"]
    /\ UNCHANGED <<ffFat, ffData, ffDir, ffHint, ffCount, ffWas, ffHurt>>

FfPerform(w) ==
    /\ ffFat' = IF w.k = "fat" THEN [ffFat EXCEPT ![w.copy][w.c] = w.v] ELSE ffFat
    /\ ffData' = IF w.k = "data" THEN [ffData EXCEPT ![w.c] = w.units] ELSE ffData
    /\ ffDir' = IF w.k = "dir" THEN [ffDir EXCEPT ![w.f] = w.entry] ELSE ffDir
    /\ ffHint' = IF w.k = "hint" THEN w.c ELSE ffHint

FfWrite ==
    /\ ffTodo # << >>
    /\ FfPerform(Head(ffTodo)) /\ ffTodo' = Tail(ffTodo)
    /\ UNCHANGED <<ffCall, ffCount, ffWas, ffHurt>>

FfReturn ==
    /\ ffCall # FfNone /\ ffCall.at = "write" /\ ffTodo = << >>
    /\ ffCall' = FfNone /\ ffCount' = ffCount + 1
    /\ UNCHANGED <<ffFat, ffData, ffDir, ffHint, ffTodo, ffWas, ffHurt>>

(* A write fails and the call gives up, or power is lost.  A failure of    *)
(* the hint is not looked at.                                              *)
FfStops ==
    /\ ffTodo # << >>
    /\ "power" \in FfFaults \/ ("write" \in FfFaults /\ Head(ffTodo).k # "hint")
    /\ FfPerform(Head(ffTodo)) \/ UNCHANGED <<ffFat, ffData, ffDir, ffHint>>
    /\ ffTodo' = << >> /\ ffHurt' = TRUE /\ ffCall' = [ffCall EXCEPT !.at = "write"]
    /\ UNCHANGED <<ffCount, ffWas>>

FfCalled(f) ==
    \/ \E len \in FfLens : FfCreate(f, len) \/ FfAppend(f, len) \/ FfRewrite(f, len)
    \/ \E off \in 0 .. FfSize(f) : FfPatch(f, off, 1)

FfNext ==
    \/ \E f \in FfFiles : FfCalled(f)
    \/ FfGrow \/ FfFill \/ FfWrite \/ FfReturn \/ FfStops

(* What the file of the call may hold while the call runs, but for what it *)
(* held before.                                                            *)
FfMayRead(old, new) ==
    CASE ffCall.kind = "append" ->
            new = old \o [i \in 1 .. ffCall.len |-> ffCount + 1]
      [] ffCall.kind = "create" ->
            new = [i \in 1 .. ffCall.len |-> 0]
      [] ffCall.kind = "rewrite" ->
            Len(new) = Len(old) \/ new = [i \in 1 .. ffCall.len |-> ffCount + 1]
      [] OTHER ->
            /\ Len(new) = Len(old)
            /\ \A i \in 1 .. Len(old) :
                  i # ffCall.off + 1 => new[i] = old[i]

FfSpec == FfInit /\ [][FfNext]_ffVars

-----------------------------------------------------------------------------
(* Every variable has its type.                                            *)
FfTypeOK ==
    /\ ffFat \in [{1, 2} -> [FfClusters -> FfClusters \cup {FfFree, FfEnd}]]
    /\ ffData \in [FfClusters -> [FfUnits -> 0 .. FfCalls]]
    /\ ffDir \in [FfFiles -> FfEntries \cup {FfNone}] /\ ffHint \in Nat
    /\ ffCount \in 0 .. FfCalls /\ ffHurt \in BOOLEAN
    /\ ffTodo \in Seq(FfWrites) /\ ffCall \in FfCallKinds \cup {FfNone}

(* The chain of a file ends, covers its size, and shares no cluster with   *)
(* itself or another file's, at every point of every call and whatever     *)
(* became of the calls before it.                                          *)
FfChainsApart ==
    /\ \A f \in FfFiles :
          LET chain == FfChain(f)
          IN  /\ Len(chain) >= FfSectors(FfSize(f)) /\ IsInjective(chain)
              /\ chain # << >> => ffFat[1][Last(chain)] = FfEnd
    /\ \A f, g \in FfFiles :
          f # g => ToSet(FfChain(f)) \cap ToSet(FfChain(g)) = {}

(* Clusters are lost, and the copies of the FAT differ, only through a     *)
(* call that failed, was cut short or found the volume full.               *)
FfNothingLost ==
    ffCall = FfNone /\ ~ffHurt =>
        /\ ffFat[1] = ffFat[2]
        /\ \A c \in FfClusters :
              ffFat[1][c] # FfFree => \E f \in FfFiles : c \in ToSet(FfChain(f))

(* An append is seen whole or not at all, what the file held before is     *)
(* kept, a patch or a rewrite in place changes only what it writes, and no *)
(* call changes another file.                                              *)
FfAppendAtomic ==
    ffCall # FfNone =>
        \A f \in FfFiles :
            \/ FfRead(f) = ffWas[f]
            \/ f = ffCall.f /\ FfMayRead(ffWas[f], FfRead(f))
=============================================================================
