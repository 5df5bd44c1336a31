--------------------------- MODULE EqSeqlockProofs ---------------------------
(***************************************************************************)
(* For every number of bands, every set of curves and any number of        *)
(* publications: what Core B installs is a curve the AP published, whole.  *)
(* The argument is the sequence lock's own: the words stand still as long  *)
(* as the generation is even (Stable), so a reader that sees the same even *)
(* generation before and after its loads has copied one curve (Copying).   *)
(***************************************************************************)
EXTENDS EqSeqlock, TLAPS

(* The generation counts the publications, and is odd during one.          *)
Counting == gen = 2 * Len(published) + (IF wpc = "idle" THEN 0 ELSE 1)

(* What the writer has stored so far; between publications, all of it.     *)
Stored ==
    /\ wpc \in {"n", "band", "ext", "gen"} => blk.en = cached.en
    /\ wpc \in {"band", "ext", "gen"} => blk.n = cached.n
    /\ wpc = "band" => wi \in 1 .. Bands
                       /\ \A i \in 1 .. wi - 1 : blk.band[i] = cached.band[i]
    /\ wpc \in {"ext", "gen"} => \A i \in 1 .. Bands : blk.band[i] = cached.band[i]
    /\ wpc = "gen" => blk.ext = cached.ext

Stable == wpc = "idle" /\ published # <<>> => blk = published[Len(published)]

(* The reader took an even generation, and as long as that is the current  *)
(* one, what it has copied is what the block holds.                        *)
Taken ==
    rpc # "idle" => \E k \in 1 .. Len(published) : rgen = 2 * k

Copying ==
    gen = rgen =>
        /\ rpc \in {"n", "ext", "band"} => copy.en = blk.en
        /\ rpc \in {"ext", "band"} => copy.n = blk.n
        /\ rpc = "band" => copy.ext = blk.ext
        /\ rpc = "band" => \A i \in 1 .. Bands : i < ri => copy.band[i] = blk.band[i]

Cleared ==
    /\ rpc \in {"n", "ext"} => \A i \in 1 .. Bands : copy.band[i] = 0
    /\ rpc = "band" => ri \in 1 .. Bands + 1
                       /\ \A i \in 1 .. Bands : i >= ri => copy.band[i] = 0

IInv == TypeOK /\ Counting /\ Stored /\ Stable /\ Taken /\ Copying /\ Cleared
        /\ InstalledWhole

-----------------------------------------------------------------------------
USE CurveAssumption

(* Records of four known fields are equal when their fields are.           *)
LEMMA SameLayout ==
    ASSUME NEW a \in Layouts, NEW b \in Layouts,
           a.en = b.en, a.n = b.n, a.ext = b.ext,
           \A i \in 1 .. Bands : a.band[i] = b.band[i]
    PROVE  a = b
<1>1. a.band = b.band
  BY DEF Layouts
<1>2. a = [en |-> a.en, n |-> a.n, band |-> a.band, ext |-> a.ext]
  BY DEF Layouts
<1>3. b = [en |-> b.en, n |-> b.n, band |-> b.band, ext |-> b.ext]
  BY DEF Layouts
<1> QED
  BY <1>1, <1>2, <1>3

LEMMA BlankLayout == Blank \in Layouts /\ \A i \in 1 .. Bands : Blank.band[i] = 0
BY DEF Blank, Layouts

(* A layout with one word replaced by that of another layout.              *)
LEMMA LayoutUpdates ==
    ASSUME NEW a \in Layouts, NEW b \in Layouts
    PROVE  /\ [a EXCEPT !.en = b.en] \in Layouts
           /\ [a EXCEPT !.n = b.n] \in Layouts
           /\ [a EXCEPT !.ext = b.ext] \in Layouts
BY DEF Layouts

LEMMA BandUpdate ==
    ASSUME NEW a \in Layouts, NEW b \in Layouts, NEW i \in 1 .. Bands,
           NEW c, c = [a EXCEPT !.band[i] = b.band[i]]
    PROVE  /\ c \in Layouts
           /\ c.en = a.en /\ c.n = a.n /\ c.ext = a.ext
           /\ \A j \in 1 .. Bands :
                 c.band[j] = IF j = i THEN b.band[i] ELSE a.band[j]
<1>1. c = [a EXCEPT !.band = [a.band EXCEPT ![i] = b.band[i]]]
  OBVIOUS
<1>2. [a.band EXCEPT ![i] = b.band[i]] \in [1 .. Bands -> Word]
  BY DEF Layouts
<1> QED
  BY <1>1, <1>2 DEF Layouts

(* Every curve in use is a layout.                                         *)
LEMMA CurveLayouts == TypeOK => /\ blk \in Layouts /\ copy \in Layouts
                               /\ cached \in Layouts
BY BlankLayout DEF TypeOK

(* Nothing is published, stored or copied at the start.                    *)
LEMMA InitIInv == Init => IInv
<1> SUFFICES ASSUME Init PROVE IInv
  OBVIOUS
<1>1. published = <<>> /\ Len(published) = 0 /\ published \in Seq(Curves)
  BY DEF Init
<1>2. TypeOK
  BY <1>1, BlankLayout DEF Init, TypeOK
<1> QED
  BY <1>1, <1>2 DEF Init, IInv, Counting, Stored, Stable, Taken, Copying, Cleared,
     InstalledWhole
(* A publication begins.                                                   *)
LEMMA MarkStep == IInv /\ ((\E c \in Curves : SetEq(c)) \/ Republish) => IInv'
<1> SUFFICES ASSUME IInv, (\E c \in Curves : SetEq(c)) \/ Republish PROVE IInv'
  OBVIOUS
<1> USE DEF IInv
<1>1. TypeOK'
  BY DEF SetEq, Republish, Mark, rVars, TypeOK
<1>2. Copying'
  BY DEF SetEq, Republish, Mark, rVars, TypeOK, Counting, Taken, Copying
<1>3. Counting' /\ Stored' /\ Stable' /\ Taken' /\ Cleared' /\ InstalledWhole'
  BY DEF SetEq, Republish, Mark, rVars, Counting, Stored, Stable, Taken, Cleared,
     InstalledWhole
<1> QED
  BY <1>1, <1>2, <1>3

(* The writer stores the enable word.                                      *)
LEMMA StoreEnStep == IInv /\ StoreEn => IInv'
<1> SUFFICES ASSUME IInv, StoreEn PROVE IInv'
  OBVIOUS
<1> USE DEF IInv
<1>0. blk \in Layouts /\ copy \in Layouts /\ cached \in Layouts
  BY CurveLayouts
<1>a. blk' \in Layouts
  BY <1>0, LayoutUpdates DEF StoreEn
<1>1. TypeOK'
  BY <1>a DEF StoreEn, rVars, TypeOK
<1>2. Copying'
  BY DEF StoreEn, rVars, TypeOK, Counting, Taken, Copying
<1>3. Counting' /\ Stored' /\ Stable' /\ Taken' /\ Cleared' /\ InstalledWhole'
  BY DEF StoreEn, rVars, Counting, Stored, Stable, Taken, Cleared, InstalledWhole
<1> QED
  BY <1>1, <1>2, <1>3

(* The writer stores the count.                                            *)
LEMMA StoreNStep == IInv /\ StoreN => IInv'
<1> SUFFICES ASSUME IInv, StoreN PROVE IInv'
  OBVIOUS
<1> USE DEF IInv
<1>0. blk \in Layouts /\ copy \in Layouts /\ cached \in Layouts
  BY CurveLayouts
<1>a. blk' \in Layouts
  BY <1>0, LayoutUpdates DEF StoreN
<1>1. TypeOK'
  BY <1>a DEF StoreN, rVars, TypeOK
<1>2. Copying'
  BY DEF StoreN, rVars, TypeOK, Counting, Taken, Copying
<1>3. Counting' /\ Stored' /\ Stable' /\ Taken' /\ Cleared' /\ InstalledWhole'
  BY DEF StoreN, rVars, Counting, Stored, Stable, Taken, Cleared, InstalledWhole
<1> QED
  BY <1>1, <1>2, <1>3

(* The writer stores a band word.                                          *)
LEMMA StoreBandStep == IInv /\ StoreBand => IInv'
<1> SUFFICES ASSUME IInv, StoreBand PROVE IInv'
  OBVIOUS
<1> USE DEF IInv
<1>0. blk \in Layouts /\ copy \in Layouts /\ cached \in Layouts
  BY CurveLayouts
<1>a. wpc = "band" /\ wi \in 1 .. Bands
  BY DEF StoreBand, Stored
<1>b. /\ blk' \in Layouts
      /\ blk'.en = blk.en /\ blk'.n = blk.n /\ blk'.ext = blk.ext
      /\ \A j \in 1 .. Bands :
            blk'.band[j] = IF j = wi THEN cached.band[wi] ELSE blk.band[j]
  BY <1>0, <1>a, BandUpdate DEF StoreBand
<1>1. TypeOK'
  BY <1>a, <1>b DEF StoreBand, rVars, TypeOK
<1>2. Stored'
  BY <1>a, <1>b DEF StoreBand, rVars, TypeOK, Stored
<1>3. Copying'
  BY DEF StoreBand, rVars, TypeOK, Counting, Taken, Copying
<1>4. Counting' /\ Stable' /\ Taken' /\ Cleared' /\ InstalledWhole'
  BY DEF StoreBand, rVars, Counting, Stable, Taken, Cleared, InstalledWhole
<1> QED
  BY <1>1, <1>2, <1>3, <1>4

(* The writer stores the extension word.                                   *)
LEMMA StoreExtStep == IInv /\ StoreExt => IInv'
<1> SUFFICES ASSUME IInv, StoreExt PROVE IInv'
  OBVIOUS
<1> USE DEF IInv
<1>0. blk \in Layouts /\ copy \in Layouts /\ cached \in Layouts
  BY CurveLayouts
<1>a. blk' \in Layouts
  BY <1>0, LayoutUpdates DEF StoreExt
<1>1. TypeOK'
  BY <1>a DEF StoreExt, rVars, TypeOK
<1>2. Copying'
  BY DEF StoreExt, rVars, TypeOK, Counting, Taken, Copying
<1>3. Counting' /\ Stored' /\ Stable' /\ Taken' /\ Cleared' /\ InstalledWhole'
  BY DEF StoreExt, rVars, Counting, Stored, Stable, Taken, Cleared, InstalledWhole
<1> QED
  BY <1>1, <1>2, <1>3

(* The writer makes the generation even: the block is the cached curve.    *)
LEMMA SettleStep == IInv /\ Settle => IInv'
<1> SUFFICES ASSUME IInv, Settle PROVE IInv'
  OBVIOUS
<1> USE DEF IInv
<1>0. blk \in Layouts /\ copy \in Layouts /\ cached \in Layouts
  BY CurveLayouts
<1>a. blk = cached
  BY <1>0, SameLayout DEF Settle, Stored
<1>1. Stable'
  BY <1>a DEF Settle, rVars, TypeOK, Stable
<1>2. Copying'
  BY DEF Settle, rVars, TypeOK, Counting, Taken, Copying
<1>3. TypeOK' /\ Counting' /\ Stored' /\ Taken' /\ Cleared' /\ InstalledWhole'
  BY DEF Settle, rVars, TypeOK, Counting, Stored, Taken, Cleared, InstalledWhole
<1> QED
  BY <1>1, <1>2, <1>3

(* The reader takes an even generation.                                    *)
LEMMA LookStep == IInv /\ Look => IInv'
<1> SUFFICES ASSUME IInv, Look PROVE IInv'
  OBVIOUS
<1> USE DEF IInv
<1>a. gen # 0
  BY DEF Look, Counting, InstalledWhole, TypeOK
<1>b. gen = 2 * Len(published) /\ Len(published) \in Nat
  BY DEF Look, Counting, TypeOK
<1>c. Len(published) \in 1 .. Len(published)
  BY <1>a, <1>b
<1>1. Taken'
  BY <1>b, <1>c DEF Look, wVars, Taken
<1>2. TypeOK' /\ Counting' /\ Stored' /\ Stable' /\ Copying' /\ Cleared' /\
      InstalledWhole'
  BY DEF Look, wVars, TypeOK, Counting, Stored, Stable, Copying, Cleared,
     InstalledWhole
<1> QED
  BY <1>1, <1>2

(* The reader copies the enable word.                                      *)
LEMMA LoadEnStep == IInv /\ LoadEn => IInv'
<1> SUFFICES ASSUME IInv, LoadEn PROVE IInv'
  OBVIOUS
<1> USE DEF IInv
<1>0. blk \in Layouts /\ copy \in Layouts /\ cached \in Layouts
  BY CurveLayouts
<1>a. [Blank EXCEPT !.en = blk.en] \in Layouts
         /\ \A i \in 1 .. Bands : [Blank EXCEPT !.en = blk.en].band[i] = 0
  BY <1>0, BlankLayout, LayoutUpdates DEF Layouts
<1>1. TypeOK'
  BY <1>a DEF LoadEn, wVars, TypeOK
<1>2. Cleared'
  BY <1>a DEF LoadEn, wVars, Cleared
<1>3. Counting' /\ Stored' /\ Stable' /\ Taken' /\ Copying' /\ InstalledWhole'
  BY DEF LoadEn, wVars, Counting, Stored, Stable, Taken, Copying, InstalledWhole
<1> QED
  BY <1>1, <1>2, <1>3

(* The reader copies the count.                                            *)
LEMMA LoadNStep == IInv /\ LoadN => IInv'
<1> SUFFICES ASSUME IInv, LoadN PROVE IInv'
  OBVIOUS
<1> USE DEF IInv
<1>0. blk \in Layouts /\ copy \in Layouts /\ cached \in Layouts
  BY CurveLayouts
<1>a. copy' \in Layouts
  BY <1>0, LayoutUpdates DEF LoadN
<1>1. TypeOK'
  BY <1>a DEF LoadN, wVars, TypeOK
<1>2. Counting' /\ Stored' /\ Stable' /\ Taken' /\ Copying' /\ Cleared' /\
      InstalledWhole'
  BY DEF LoadN, wVars, Counting, Stored, Stable, Taken, Copying, Cleared,
     InstalledWhole
<1> QED
  BY <1>1, <1>2

(* The reader copies the extension word.                                   *)
LEMMA LoadExtStep == IInv /\ LoadExt => IInv'
<1> SUFFICES ASSUME IInv, LoadExt PROVE IInv'
  OBVIOUS
<1> USE DEF IInv
<1>0. blk \in Layouts /\ copy \in Layouts /\ cached \in Layouts
  BY CurveLayouts
<1>a. copy' \in Layouts
  BY <1>0, LayoutUpdates DEF LoadExt
<1>1. TypeOK'
  BY <1>a DEF LoadExt, wVars, TypeOK
<1>2. Counting' /\ Stored' /\ Stable' /\ Taken' /\ Copying' /\ Cleared' /\
      InstalledWhole'
  BY DEF LoadExt, wVars, Counting, Stored, Stable, Taken, Copying, Cleared,
     InstalledWhole
<1> QED
  BY <1>1, <1>2

(* The reader copies a band word.                                          *)
LEMMA LoadBandStep == IInv /\ LoadBand => IInv'
<1> SUFFICES ASSUME IInv, LoadBand PROVE IInv'
  OBVIOUS
<1> USE DEF IInv
<1>0. blk \in Layouts /\ copy \in Layouts /\ cached \in Layouts
  BY CurveLayouts
<1>a. rpc = "band" /\ ri \in 1 .. Bands
  BY DEF LoadBand, Cleared, TypeOK, Layouts
<1>b. /\ copy' \in Layouts
      /\ copy'.en = copy.en /\ copy'.n = copy.n /\ copy'.ext = copy.ext
      /\ \A j \in 1 .. Bands :
            copy'.band[j] = IF j = ri THEN blk.band[ri] ELSE copy.band[j]
  BY <1>0, <1>a, BandUpdate DEF LoadBand
<1>1. TypeOK'
  BY <1>a, <1>b DEF LoadBand, wVars, TypeOK
<1>2. Copying'
  BY <1>a, <1>b DEF LoadBand, wVars, TypeOK, Copying
<1>3. Cleared'
  BY <1>a, <1>b DEF LoadBand, wVars, TypeOK, Cleared
<1>4. Counting' /\ Stored' /\ Stable' /\ Taken' /\ InstalledWhole'
  BY DEF LoadBand, wVars, Counting, Stored, Stable, Taken, InstalledWhole
<1> QED
  BY <1>1, <1>2, <1>3, <1>4

(* The generation stood still: the copy is a published curve.              *)
LEMMA InstallStep == IInv /\ Install => IInv'
<1> SUFFICES ASSUME IInv, Install PROVE IInv'
  OBVIOUS
<1> USE DEF IInv
<1>0. blk \in Layouts /\ copy \in Layouts /\ cached \in Layouts
  BY CurveLayouts
<1>a. PICK k \in 1 .. Len(published) : rgen = 2 * k
  BY DEF Install, Loaded, Taken
<1>b. wpc = "idle" /\ k = Len(published)
  BY <1>a DEF Install, Counting, TypeOK
<1>c. blk = published[k] /\ blk \in Curves
  BY <1>a, <1>b DEF Stable, TypeOK
<1>d. \A i \in 1 .. Bands : copy.band[i] = blk.band[i]
  <2> SUFFICES ASSUME NEW i \in 1 .. Bands PROVE copy.band[i] = blk.band[i]
    OBVIOUS
  <2>1. copy.n = blk.n /\ ri > blk.n /\ ri \in 1 .. Bands + 1 /\ blk.n \in 0 .. Bands
    BY <1>0 DEF Install, Loaded, Copying, Cleared, Layouts
  <2>2. CASE i < ri
    BY <2>2 DEF Install, Loaded, Copying
  <2>3. CASE i >= ri
    BY <1>c, <2>1, <2>3 DEF Install, Loaded, Cleared
  <2> QED
    BY <2>1, <2>2, <2>3
<1>e. copy = published[k]
  BY <1>0, <1>c, <1>d, SameLayout DEF Install, Loaded, Copying
<1>1. InstalledWhole'
  BY <1>a, <1>e DEF Install, wVars, InstalledWhole
<1>2. TypeOK' /\ Counting' /\ Stored' /\ Stable' /\ Taken' /\ Copying' /\ Cleared'
  BY DEF Install, Loaded, wVars, TypeOK, Counting, Stored, Stable, Taken, Copying,
     Cleared
<1> QED
  BY <1>1, <1>2

(* The generation moved: the copy is dropped.                              *)
LEMMA TornStep == IInv /\ Torn => IInv'
<1> SUFFICES ASSUME IInv, Torn PROVE IInv'
  OBVIOUS
<1> USE DEF IInv
<1>1. TypeOK' /\ Counting' /\ Stored' /\ Stable' /\ Taken' /\ Copying' /\
      Cleared' /\ InstalledWhole'
  BY DEF Torn, Loaded, wVars, TypeOK, Counting, Stored, Stable, Taken, Copying,
     Cleared, InstalledWhole
<1> QED
  BY <1>1

(* Core B is restarted on a zeroed block.                                  *)
LEMMA CoreStartStep == IInv /\ CoreStart => IInv'
<1> SUFFICES ASSUME IInv, CoreStart PROVE IInv'
  OBVIOUS
<1> USE DEF IInv
<1>0. published' \in Seq(Curves)
  BY DEF CoreStart
<1>1. TypeOK'
  BY <1>0, BlankLayout DEF CoreStart, wVars, TypeOK
<1>2. Counting' /\ Stored' /\ Stable' /\ Taken' /\ Copying' /\ Cleared' /\
      InstalledWhole'
  BY DEF CoreStart, wVars, Counting, Stored, Stable, Taken, Copying, Cleared,
     InstalledWhole
<1> QED
  BY <1>1, <1>2

(* The invariant holds throughout.                                         *)
LEMMA NextIInv == IInv /\ [Next]_vars => IInv'
<1> SUFFICES ASSUME IInv, [Next]_vars PROVE IInv'
  OBVIOUS
<1>1. CASE (\E c \in Curves : SetEq(c)) \/ Republish
  BY <1>1, MarkStep
<1>2. CASE Store
  BY <1>2, StoreEnStep, StoreNStep, StoreBandStep, StoreExtStep, SettleStep DEF Store
<1>3. CASE Load
  BY <1>3, LookStep, LoadEnStep, LoadNStep, LoadExtStep, LoadBandStep, InstallStep,
     TornStep DEF Load
<1>4. CASE CoreStart
  BY <1>4, CoreStartStep
<1>5. CASE UNCHANGED vars
  BY <1>5 DEF vars, wVars, rVars, IInv, TypeOK, Counting, Stored, Stable, Taken,
     Copying, Cleared, InstalledWhole
<1> QED
  BY <1>1, <1>2, <1>3, <1>4, <1>5 DEF Next

LEMMA Invariance == Spec => []IInv
BY InitIInv, NextIInv, PTL DEF Spec

(* Every variable keeps its type, for every number of bands and any set of *)
(* curves.                                                                 *)
THEOREM CurveTypes == Spec => []TypeOK
<1>1. IInv => TypeOK
  BY DEF IInv
<1> QED
  BY <1>1, Invariance, PTL

(* B never installs a half-written curve (eq_ipc_publish, eq_ipc_read).    *)
THEOREM NeverHalfWritten == Spec => []InstalledWhole
<1>1. IInv => InstalledWhole
  BY DEF IInv
<1> QED
  BY <1>1, Invariance, PTL

-----------------------------------------------------------------------------
(* The generation in hand is newer than the one installed last.  Look only *)
(* asks for a different one; that it is newer follows from IInv, the last  *)
(* being one that was published and the current one the number of all.     *)
Newer == rpc # "idle" => rgen > last

LEMMA NewerLook == IInv /\ Look => Newer'
<1> SUFFICES ASSUME IInv, Look PROVE Newer'
  OBVIOUS
<1>1. gen = 2 * Len(published) /\ Len(published) \in Nat /\ last \in Nat /\ gen # last
  BY DEF IInv, Look, Counting, TypeOK
<1>2. last <= gen
  <2>1. CASE last = 0
    BY <1>1, <2>1
  <2>2. CASE last # 0
    <3>1. PICK k \in 1 .. Len(published) : last = 2 * k
      BY <2>2 DEF IInv, InstalledWhole
    <3> QED
      BY <1>1, <3>1
  <2> QED
    BY <2>1, <2>2
<1>3. rgen' = gen /\ last' = last
  BY DEF Look
<1> QED
  BY <1>1, <1>2, <1>3 DEF Newer

LEMMA NewerStep == IInv /\ Newer /\ [Next]_vars => Newer'
<1> SUFFICES ASSUME IInv, Newer, [Next]_vars PROVE Newer'
  OBVIOUS
<1>1. CASE (\E c \in Curves : SetEq(c)) \/ Republish
  BY <1>1 DEF SetEq, Republish, Mark, rVars, Newer
<1>2. CASE Store
  BY <1>2 DEF Store, StoreEn, StoreN, StoreBand, StoreExt, Settle, rVars, Newer
<1>3. CASE Look
  BY <1>3, NewerLook
<1>4. CASE LoadEn \/ LoadN \/ LoadExt \/ LoadBand
  BY <1>4 DEF LoadEn, LoadN, LoadExt, LoadBand, Newer
<1>5. CASE Install \/ Torn \/ CoreStart
  BY <1>5 DEF Install, Torn, CoreStart, Newer
<1>6. CASE UNCHANGED vars
  BY <1>6 DEF vars, rVars, Newer
<1> QED
  BY <1>1, <1>2, <1>3, <1>4, <1>5, <1>6 DEF Next, Load

(* What is applied changes only with a newer generation or a restart.      *)
LEMMA AppliedNewer ==
    IInv /\ Newer /\ [Next]_vars => (eq' # eq => last' > last \/ eq' = Blank)
<1> SUFFICES ASSUME IInv, Newer, [Next]_vars, eq' # eq
             PROVE  last' > last \/ eq' = Blank
  OBVIOUS
<1>1. CASE (\E c \in Curves : SetEq(c)) \/ Republish
  BY <1>1 DEF SetEq, Republish, Mark, rVars
<1>2. CASE Store
  BY <1>2 DEF Store, StoreEn, StoreN, StoreBand, StoreExt, Settle, rVars
<1>3. CASE Look \/ LoadEn \/ LoadN \/ LoadExt \/ LoadBand \/ Torn
  BY <1>3 DEF Look, LoadEn, LoadN, LoadExt, LoadBand, Torn
<1>4. CASE Install
  BY <1>4 DEF Install, Loaded, Newer
<1>5. CASE CoreStart
  BY <1>5 DEF CoreStart
<1>6. CASE UNCHANGED vars
  BY <1>6 DEF vars, rVars
<1> QED
  BY <1>1, <1>2, <1>3, <1>4, <1>5, <1>6 DEF Next, Load

(* A curve is not installed twice, and an older one never replaces a newer *)
(* one, unless Core B was restarted (eq_ipc_read's last_gen).              *)
THEOREM NeverGoesBack == Spec => NeverOlder
<1>1. Init => Newer
  BY DEF Init, Newer
<1>2. Spec => []Newer
  BY <1>1, NewerStep, Invariance, PTL DEF Spec
<1>3. IInv /\ Newer /\ [Next]_vars => [eq' # eq => last' > last \/ eq' = Blank]_vars
  BY AppliedNewer
<1> QED
  BY <1>2, <1>3, Invariance, PTL DEF Spec, NeverOlder
=============================================================================
