--------------------------- MODULE PlaybackProofs ---------------------------
(***************************************************************************)
(* What TLAPS proves of the Bluetooth link, BtLink.tla, and of the player  *)
(* over its list, PlayQueue.tla, and what it proves of the two beside the  *)
(* byte ring and the trim, PlaybackMC.tla.  The link: for any devices, any *)
(* size of the table and any list stored at start, whatever the module     *)
(* sends and however late, the indices into the table stay with their      *)
(* devices, the saved bits follow their entries, and the module is told    *)
(* what the player thinks, off before on at every new link.  The player:   *)
(* for any lists, formats and faults, shuffling loses nothing, list,       *)
(* display, codec and Core B agree, and the list moves once for each end   *)
(* of a track.                                                             *)
(***************************************************************************)
EXTENDS PlaybackMC, RingBufProofs, GaplessTrimProofs, SequenceTheorems, FiniteSetTheorems,
        FunctionTheorems, WellFoundedInduction, TLAPS

-----------------------------------------------------------------------------
(* Sets of numbers.                                                        *)

(* One that is not empty has a least.                                      *)
LEMMA LeastOf ==
    ASSUME NEW I \in SUBSET Nat, I # {}
    PROVE  Min(I) \in I /\ \A j \in I : Min(I) <= j
<1> DEFINE R == {ss \in Nat \X Nat : ss[1] < ss[2]}
<1>1. IsWellFoundedOn(R, Nat)
  BY NatLessThanWellFounded DEF OpToRel
<1> HIDE DEF R
<1>2. PICK m \in I : \A j \in I : ~(<<j, m>> \in R)
  BY <1>1, WFMin
<1>3. ASSUME NEW j \in I PROVE m <= j
  <2>1. j \in Nat /\ m \in Nat /\ <<j, m>> \in Nat \X Nat /\ <<j, m>> \notin R
    BY <1>2
  <2>2. ~(<<j, m>>[1] < <<j, m>>[2])
    BY <2>1 DEF R
  <2> QED BY <2>1, <2>2
<1> QED BY <1>3 DEF Min

-----------------------------------------------------------------------------
(* The Bluetooth link.                                                     *)

(* A table in order, and no device in it twice.                            *)
BtTables ==
    [devices : Seq(BtAddrs), saved : SUBSET Nat, connected : Nat, target : Nat]

BtWhole(t) ==
    /\ t \in BtTables
    /\ Len(t.devices) <= BtDevMax /\ IsInjective(t.devices)
    /\ t.saved \subseteq DOMAIN t.devices
    /\ t.connected \in DOMAIN t.devices \cup {0}
    /\ t.target \in DOMAIN t.devices \cup {0}

BtLinks ==
    [state : BtStates, streaming : BOOLEAN, late : BOOLEAN,
     play : {"started", "paused", "playing"}, resend : BOOLEAN]

BtIndexed ==
    /\ BtWhole(btTab) /\ btPend \in DOMAIN btTab.devices \cup {0}
    /\ btSent \in BtAddrs \cup {BtNone} /\ btPick \in BtAddrs \cup {BtNone}

BtTyped ==
    /\ BtIndexed /\ btLink \in BtLinks
    /\ btWasUp \in BOOLEAN /\ btPc \in BtPcs /\ btPaired \in BOOLEAN

(* A link that is not up carries no stream and owes no answer; one that    *)
(* has just come up has been told nothing yet, and is answered before the  *)
(* pass goes on.                                                           *)
BtAnswered ==
    /\ btLink.state # "connected" \/ btLink.resend =>
          ~btLink.streaming /\ ~btLink.late
    /\ btLink.state # "connected" => ~btLink.resend
    /\ btLink.state = "connected" /\ btTold = "none" => btLink.resend
    /\ btPc \notin {"receive", "poll"} => ~btLink.resend

(* What it was told is what streaming says, but for a notice on its way.   *)
BtTelling ==
    btLink.state = "connected" /\ ~btLink.resend /\ ~btLink.late =>
        (btLink.streaming <=> btTold = "on")

BtInv == BtTyped /\ BtIndicesRight /\ BtAnswered /\ BtTelling

-----------------------------------------------------------------------------
(* The device table.                                                       *)

(* What the assumption says of the constants.                              *)
LEMMA BtConstants ==
    /\ BtDevMax \in Nat \ {0} /\ BtNone \notin BtAddrs
    /\ \A s \in BtStored : s \in Seq(BtAddrs) /\ Len(s) <= BtDevMax /\ IsInjective(s)
BY BtAssumption

(* A list of devices is a function on its positions.                       *)
LEMMA BtListIs ==
    ASSUME NEW s \in Seq(BtAddrs)
    PROVE  /\ Len(s) \in Nat /\ DOMAIN s = 1 .. Len(s)
           /\ \A j \in 1 .. Len(s) : s[j] \in BtAddrs
           /\ IsInjective(s) <=>
                 \A j \in 1 .. Len(s), k \in 1 .. Len(s) : s[j] = s[k] => j = k
<1>1. Len(s) \in Nat /\ DOMAIN s = 1 .. Len(s)
  BY LenProperties
<1>2. \A j \in 1 .. Len(s) : s[j] \in BtAddrs
  BY ElementOfSeq
<1> QED BY <1>1, <1>2 DEF IsInjective

(* Searching an address.                                                   *)
LEMMA BtSearch ==
    ASSUME NEW t, t.devices \in Seq(BtAddrs), NEW a
    PROVE  /\ BtIndexOf(t, a) # 0 =>
                 BtIndexOf(t, a) \in 1 .. Len(t.devices) /\ t.devices[BtIndexOf(t, a)] = a
           /\ BtIndexOf(t, a) = 0 => \A j \in 1 .. Len(t.devices) : t.devices[j] # a
<1> DEFINE I == {j \in 1 .. Len(t.devices) : t.devices[j] = a}
<1>1. BtIndexOf(t, a) = IF I # {} THEN Min(I) ELSE 0
  BY DEF BtIndexOf, SelectInSeq
<1>2. Len(t.devices) \in Nat
  BY BtListIs
<1>3. ASSUME I # {} PROVE Min(I) \in I
  <2>1. I \in SUBSET Nat
    BY <1>2
  <2> QED BY <1>3, <2>1, LeastOf
<1>4. \A j \in I : j # 0
  BY <1>2
<1>5. ASSUME I = {} PROVE \A j \in 1 .. Len(t.devices) : t.devices[j] # a
  BY <1>5
<1> HIDE DEF I
<1>6. BtIndexOf(t, a) # 0 => BtIndexOf(t, a) \in I
  BY <1>1, <1>3
<1>7. BtIndexOf(t, a) = 0 => I = {}
  BY <1>1, <1>3, <1>4
<1> QED BY <1>5, <1>6, <1>7 DEF I

(* The first entry gone, and a device added: remember_device.              *)
LEMMA BtTailIs ==
    ASSUME NEW s \in Seq(BtAddrs), Len(s) > 0
    PROVE  /\ Tail(s) \in Seq(BtAddrs) /\ Len(Tail(s)) = Len(s) - 1
           /\ \A j \in 1 .. Len(s) - 1 : Tail(s)[j] = s[j + 1]
<1>1. s # << >>
  BY EmptySeq
<1> QED BY <1>1, HeadTailProperties

(* An entry gone.                                                          *)
LEMMA BtRemoveIs ==
    ASSUME NEW s \in Seq(BtAddrs), NEW i \in 1 .. Len(s)
    PROVE  /\ RemoveAt(s, i) \in Seq(BtAddrs) /\ Len(RemoveAt(s, i)) = Len(s) - 1
           /\ \A j \in 1 .. Len(s) - 1 :
                 RemoveAt(s, i)[j] = IF j < i THEN s[j] ELSE s[j + 1]
<1> DEFINE a == SubSeq(s, 1, i - 1)
           b == SubSeq(s, i + 1, Len(s))
<1>1. Len(s) \in Nat /\ \A j \in 1 .. Len(s) : s[j] \in BtAddrs
  BY BtListIs
<1>2. i \in Int /\ i - 1 \in Int /\ i + 1 \in Int /\ 1 \in Int /\ 1 <= i /\ i <= Len(s)
  BY <1>1
<1>3. a \in Seq(BtAddrs) /\ Len(a) = i - 1 /\ \A j \in 1 .. i - 1 : a[j] = s[j]
  <2>1. \A j \in 1 .. i - 1 : s[j] \in BtAddrs
    BY <1>1, <1>2
  <2>2. /\ a \in Seq(BtAddrs) /\ Len(a) = IF 1 <= i - 1 THEN i - 1 - 1 + 1 ELSE 0
        /\ \A j \in 1 .. i - 1 - 1 + 1 : a[j] = s[1 + j - 1]
    BY <1>2, <2>1, SubSeqProperties
  <2> QED BY <1>2, <2>2
<1>4. /\ b \in Seq(BtAddrs) /\ Len(b) = Len(s) - i
      /\ \A j \in 1 .. Len(s) - i : b[j] = s[i + j]
  <2>1. \A j \in i + 1 .. Len(s) : s[j] \in BtAddrs
    BY <1>1, <1>2
  <2>2. /\ b \in Seq(BtAddrs) /\ Len(b) = IF i + 1 <= Len(s) THEN Len(s) - (i + 1) + 1 ELSE 0
        /\ \A j \in 1 .. Len(s) - (i + 1) + 1 : b[j] = s[(i + 1) + j - 1]
    BY <1>1, <1>2, <2>1, SubSeqProperties
  <2> QED BY <1>1, <1>2, <2>2
<1>5. RemoveAt(s, i) = a \o b
  BY DEF RemoveAt
<1> HIDE DEF a, b
<1>6. /\ RemoveAt(s, i) \in Seq(BtAddrs) /\ Len(RemoveAt(s, i)) = Len(a) + Len(b)
      /\ \A j \in 1 .. Len(a) + Len(b) :
            RemoveAt(s, i)[j] = IF j <= Len(a) THEN a[j] ELSE b[j - Len(a)]
  <2>1. a \in Seq(BtAddrs) /\ b \in Seq(BtAddrs)
    BY <1>3, <1>4
  <2>2. /\ a \o b \in Seq(BtAddrs) /\ Len(a \o b) = Len(a) + Len(b)
        /\ \A j \in 1 .. Len(a) + Len(b) :
              (a \o b)[j] = IF j <= Len(a) THEN a[j] ELSE b[j - Len(a)]
    BY <2>1, ConcatProperties
  <2> QED BY <1>5, <2>2
<1>7. Len(RemoveAt(s, i)) = Len(s) - 1
  BY <1>1, <1>2, <1>3, <1>4, <1>6
<1>8. ASSUME NEW j \in 1 .. Len(s) - 1
      PROVE  RemoveAt(s, i)[j] = IF j < i THEN s[j] ELSE s[j + 1]
  <2>1. j \in 1 .. Len(a) + Len(b)
    BY <1>1, <1>2, <1>3, <1>4
  <2>2. CASE j < i
    <3>1. j \in 1 .. i - 1 /\ j <= Len(a)
      BY <1>2, <1>3, <2>2
    <3> QED BY <1>3, <1>6, <2>1, <2>2, <3>1
  <2>3. CASE ~(j < i)
    <3>1. j - (i - 1) \in 1 .. Len(s) - i /\ ~(j <= Len(a)) /\ i + (j - (i - 1)) = j + 1
      BY <1>1, <1>2, <1>3, <2>3
    <3>2. RemoveAt(s, i)[j] = b[j - (i - 1)]
      BY <1>3, <1>6, <2>1, <3>1
    <3> QED BY <1>4, <2>3, <3>1, <3>2
  <2> QED BY <2>2, <2>3
<1> QED BY <1>6, <1>7, <1>8

(* An entry first.                                                         *)
LEMMA BtFirstIs ==
    ASSUME NEW s \in Seq(BtAddrs), NEW i \in 1 .. Len(s)
    PROVE  LET u == <<s[i]>> \o RemoveAt(s, i)
           IN  /\ u \in Seq(BtAddrs) /\ Len(u) = Len(s) /\ u[1] = s[i]
               /\ \A j \in 2 .. Len(s) : u[j] = IF j <= i THEN s[j - 1] ELSE s[j]
<1> DEFINE r == RemoveAt(s, i)
           u == <<s[i]>> \o r
<1>1. Len(s) \in Nat /\ s[i] \in BtAddrs /\ i \in Int /\ 1 <= i /\ i <= Len(s)
  BY BtListIs
<1>2. /\ r \in Seq(BtAddrs) /\ Len(r) = Len(s) - 1
      /\ \A j \in 1 .. Len(s) - 1 : r[j] = IF j < i THEN s[j] ELSE s[j + 1]
  BY BtRemoveIs
<1>3. <<s[i]>> \in Seq(BtAddrs) /\ Len(<<s[i]>>) = 1 /\ <<s[i]>>[1] = s[i]
  BY <1>1
<1> HIDE DEF r
<1>4. /\ u \in Seq(BtAddrs) /\ Len(u) = 1 + Len(r)
      /\ \A j \in 1 .. 1 + Len(r) : u[j] = IF j <= 1 THEN <<s[i]>>[j] ELSE r[j - 1]
  BY <1>2, <1>3, ConcatProperties
<1> HIDE DEF u
<1>5. Len(u) = Len(s) /\ u[1] = s[i]
  BY <1>1, <1>2, <1>3, <1>4
<1>6. ASSUME NEW j \in 2 .. Len(s) PROVE u[j] = IF j <= i THEN s[j - 1] ELSE s[j]
  <2>1. j \in 1 .. 1 + Len(r) /\ ~(j <= 1) /\ j - 1 \in 1 .. Len(s) - 1 /\ j - 1 + 1 = j
        /\ (j - 1 < i <=> j <= i)
    BY <1>1, <1>2
  <2>2. u[j] = r[j - 1]
    BY <1>4, <2>1
  <2> QED BY <1>2, <2>1, <2>2
<1> QED BY <1>4, <1>5, <1>6 DEF u, r

-----------------------------------------------------------------------------
(* What the operations on the table keep.                                  *)

(* The parts of a table.                                                   *)
LEMMA BtParts ==
    ASSUME NEW t, BtWhole(t)
    PROVE  /\ t \in BtTables /\ t.devices \in Seq(BtAddrs) /\ Len(t.devices) \in Nat
           /\ DOMAIN t.devices = 1 .. Len(t.devices) /\ Len(t.devices) <= BtDevMax
           /\ \A j \in 1 .. Len(t.devices) : t.devices[j] \in BtAddrs
           /\ \A j \in 1 .. Len(t.devices), k \in 1 .. Len(t.devices) :
                 t.devices[j] = t.devices[k] => j = k
           /\ t.saved \subseteq 1 .. Len(t.devices)
           /\ t.connected \in 0 .. Len(t.devices) /\ t.target \in 0 .. Len(t.devices)
<1>1. t \in BtTables /\ t.devices \in Seq(BtAddrs) /\ Len(t.devices) <= BtDevMax
      /\ IsInjective(t.devices) /\ t.saved \subseteq DOMAIN t.devices
      /\ t.connected \in DOMAIN t.devices \cup {0} /\ t.target \in DOMAIN t.devices \cup {0}
  BY DEF BtWhole, BtTables
<1>2. /\ Len(t.devices) \in Nat /\ DOMAIN t.devices = 1 .. Len(t.devices)
      /\ \A j \in 1 .. Len(t.devices) : t.devices[j] \in BtAddrs
      /\ \A j \in 1 .. Len(t.devices), k \in 1 .. Len(t.devices) :
            t.devices[j] = t.devices[k] => j = k
  BY <1>1, BtListIs
<1> QED BY <1>1, <1>2

(* And a table made of parts.                                              *)
LEMMA BtMade ==
    ASSUME NEW d \in Seq(BtAddrs), Len(d) <= BtDevMax,
           \A j \in 1 .. Len(d), k \in 1 .. Len(d) : d[j] = d[k] => j = k,
           NEW s \in SUBSET (1 .. Len(d)), NEW c \in 0 .. Len(d), NEW g \in 0 .. Len(d)
    PROVE  BtWhole([devices |-> d, saved |-> s, connected |-> c, target |-> g])
<1>1. Len(d) \in Nat /\ DOMAIN d = 1 .. Len(d) /\ IsInjective(d)
  BY BtListIs
<1>2. s \in SUBSET Nat /\ c \in Nat /\ g \in Nat
  BY <1>1
<1>3. c \in DOMAIN d \cup {0} /\ g \in DOMAIN d \cup {0} /\ s \subseteq DOMAIN d
  BY <1>1
<1> QED BY <1>1, <1>2, <1>3 DEF BtWhole, BtTables

(* Changing an index or the saved bits.                                    *)
LEMMA BtPointed ==
    ASSUME NEW t, BtWhole(t)
    PROVE  /\ \A c \in 0 .. Len(t.devices) :
                 BtWhole([t EXCEPT !.connected = c]) /\ BtWhole([t EXCEPT !.target = c])
           /\ BtWhole([t EXCEPT !.connected = 0, !.target = 0])
           /\ \A s \in SUBSET (1 .. Len(t.devices)) : BtWhole([t EXCEPT !.saved = s])
<1>1. /\ t \in BtTables /\ t.devices \in Seq(BtAddrs) /\ Len(t.devices) \in Nat
      /\ Len(t.devices) <= BtDevMax
      /\ \A j \in 1 .. Len(t.devices), k \in 1 .. Len(t.devices) :
            t.devices[j] = t.devices[k] => j = k
      /\ t.saved \in SUBSET (1 .. Len(t.devices))
      /\ t.connected \in 0 .. Len(t.devices) /\ t.target \in 0 .. Len(t.devices)
      /\ 0 \in 0 .. Len(t.devices)
  BY BtParts
<1> DEFINE Made(s, c, g) ==
              [devices |-> t.devices, saved |-> s, connected |-> c, target |-> g]
<1>2. ASSUME NEW s \in SUBSET (1 .. Len(t.devices)), NEW c \in 0 .. Len(t.devices),
             NEW g \in 0 .. Len(t.devices)
      PROVE  BtWhole(Made(s, c, g))
  BY <1>1, BtMade
<1>3. ASSUME NEW c \in 0 .. Len(t.devices)
      PROVE  BtWhole([t EXCEPT !.connected = c]) /\ BtWhole([t EXCEPT !.target = c])
  <2>1. [t EXCEPT !.connected = c] = Made(t.saved, c, t.target)
    BY <1>1 DEF BtTables
  <2>2. [t EXCEPT !.target = c] = Made(t.saved, t.connected, c)
    BY <1>1 DEF BtTables
  <2> HIDE DEF Made
  <2> QED BY <1>1, <1>2, <2>1, <2>2
<1>4. BtWhole([t EXCEPT !.connected = 0, !.target = 0])
  <2>1. [t EXCEPT !.connected = 0, !.target = 0] = Made(t.saved, 0, 0)
    <3> DEFINE u == [t EXCEPT !.connected = 0, !.target = 0]
    <3>1. 0 \in Nat
      OBVIOUS
    <3>2. u \in BtTables
      BY <1>1, <3>1 DEF BtTables
    <3>3. u.devices = t.devices /\ u.saved = t.saved /\ u.connected = 0 /\ u.target = 0
      BY <1>1 DEF BtTables
    <3> HIDE DEF u
    <3>4. u = Made(t.saved, 0, 0)
      BY <3>2, <3>3 DEF BtTables
    <3> QED BY <3>4 DEF u
  <2> HIDE DEF Made
  <2> QED BY <1>1, <1>2, <2>1
<1>5. ASSUME NEW s \in SUBSET (1 .. Len(t.devices))
      PROVE  BtWhole([t EXCEPT !.saved = s])
  <2>1. [t EXCEPT !.saved = s] = Made(s, t.connected, t.target)
    BY <1>1 DEF BtTables
  <2> HIDE DEF Made
  <2> QED BY <1>1, <1>2, <2>1
<1> QED BY <1>3, <1>4, <1>5

(* Marking: only a saved bit.                                              *)
LEMMA BtMarkKeeps ==
    ASSUME NEW t, BtWhole(t), NEW i
    PROVE  LET u == BtMark(t, i)
           IN  /\ BtWhole(u) /\ u.devices = t.devices
               /\ u.connected = t.connected /\ u.target = t.target
               /\ u.saved = t.saved \cup ({i} \cap DOMAIN t.devices)
<1>1. t \in BtTables /\ t.saved \subseteq 1 .. Len(t.devices)
      /\ DOMAIN t.devices = 1 .. Len(t.devices)
  BY BtParts
<1>2. CASE i \in DOMAIN t.devices
  <2>1. t.saved \cup {i} \in SUBSET (1 .. Len(t.devices))
    BY <1>1, <1>2
  <2> DEFINE s == t.saved \cup {i}
  <2>2. BtMark(t, i) = [t EXCEPT !.saved = s]
    BY <1>2 DEF BtMark
  <2>3. s = t.saved \cup ({i} \cap DOMAIN t.devices)
    BY <1>2
  <2> HIDE DEF s
  <2>4. BtWhole([t EXCEPT !.saved = s])
    <3>1. s \in SUBSET (1 .. Len(t.devices))
      BY <2>1 DEF s
    <3> QED BY <3>1, BtPointed
  <2>5. /\ [t EXCEPT !.saved = s].devices = t.devices
        /\ [t EXCEPT !.saved = s].connected = t.connected
        /\ [t EXCEPT !.saved = s].target = t.target
        /\ [t EXCEPT !.saved = s].saved = s
    BY <1>1 DEF BtTables
  <2> QED BY <2>2, <2>3, <2>4, <2>5
<1>3. CASE i \notin DOMAIN t.devices
  <2>1. BtMark(t, i) = t
    BY <1>3 DEF BtMark
  <2> QED BY <1>3, <2>1
<1> QED BY <1>2, <1>3

(* What became of the indices and the saved bits between two tables: no    *)
(* index means another device than before, and no saved bit either; and    *)
(* the devices whose bit is gone.                                          *)
BtCarried(t, u) ==
    /\ u.target # 0 => t.target # 0 /\ u.devices[u.target] = t.devices[t.target]
    /\ u.connected # 0 => t.connected # 0 /\ u.devices[u.connected] = t.devices[t.connected]
    /\ BtSavedAddrs(u) \subseteq BtSavedAddrs(t)

(* The first entry goes.                                                   *)
LEMMA BtEvictKeeps ==
    ASSUME NEW t, BtWhole(t), Len(t.devices) > 0
    PROVE  LET u == BtEvict(t)
           IN  /\ BtWhole(u) /\ BtCarried(t, u) /\ Len(u.devices) = Len(t.devices) - 1
               /\ \A j \in 1 .. Len(u.devices) : u.devices[j] = t.devices[j + 1]
               /\ \A x \in BtSavedAddrs(t) \ BtSavedAddrs(u) : x = t.devices[1]
<1> DEFINE d == Tail(t.devices)
           s == {i - 1 : i \in t.saved \ {1}}
           c == IF t.connected > 0 THEN t.connected - 1 ELSE 0
           g == IF t.target > 0 THEN t.target - 1 ELSE 0
           u == BtEvict(t)
<1>1. /\ t.devices \in Seq(BtAddrs) /\ Len(t.devices) \in Nat /\ Len(t.devices) <= BtDevMax
      /\ \A j \in 1 .. Len(t.devices), k \in 1 .. Len(t.devices) :
            t.devices[j] = t.devices[k] => j = k
      /\ t.saved \subseteq 1 .. Len(t.devices)
      /\ t.connected \in 0 .. Len(t.devices) /\ t.target \in 0 .. Len(t.devices)
  BY BtParts
<1>2. /\ d \in Seq(BtAddrs) /\ Len(d) = Len(t.devices) - 1
      /\ \A j \in 1 .. Len(t.devices) - 1 : d[j] = t.devices[j + 1]
  BY <1>1, BtTailIs
<1>3. u = [devices |-> d, saved |-> s, connected |-> c, target |-> g]
  BY DEF BtEvict
<1>4. \A i \in t.saved \ {1} : i - 1 \in 1 .. Len(d) /\ d[i - 1] = t.devices[i]
  <2> HIDE DEF d
  <2> SUFFICES ASSUME NEW i \in t.saved \ {1}
               PROVE  i - 1 \in 1 .. Len(d) /\ d[i - 1] = t.devices[i]
    OBVIOUS
  <2>1. i \in Nat /\ 2 <= i /\ i <= Len(t.devices) /\ i - 1 + 1 = i
    BY <1>1
  <2>2. i - 1 \in 1 .. Len(t.devices) - 1
    BY <1>1, <2>1
  <2> QED BY <1>2, <2>1, <2>2
<1>5. c \in 0 .. Len(d) /\ g \in 0 .. Len(d)
  <2> HIDE DEF d
  <2> QED BY <1>1, <1>2
<1>6. \A j \in 1 .. Len(d), k \in 1 .. Len(d) : d[j] = d[k] => j = k
  <2> HIDE DEF d
  <2> SUFFICES ASSUME NEW j \in 1 .. Len(d), NEW k \in 1 .. Len(d), d[j] = d[k] PROVE j = k
    OBVIOUS
  <2>1. j \in Nat /\ k \in Nat /\ j + 1 \in 1 .. Len(t.devices) /\ k + 1 \in 1 .. Len(t.devices)
    BY <1>1, <1>2
  <2>2. t.devices[j + 1] = t.devices[k + 1]
    BY <1>2
  <2> QED BY <1>1, <2>1, <2>2
<1>7. BtWhole(u)
  <2>1. s \in SUBSET (1 .. Len(d)) /\ Len(d) <= BtDevMax
    BY <1>1, <1>2, <1>4, BtConstants
  <2> HIDE DEF d, s, c, g, u
  <2> QED BY <1>2, <1>3, <1>5, <1>6, <2>1, BtMade
<1>8. \A j \in 1 .. Len(t.devices) : j > 1 => j - 1 \in 1 .. Len(d) /\ d[j - 1] = t.devices[j]
  <2> HIDE DEF d
  <2> SUFFICES ASSUME NEW j \in 1 .. Len(t.devices), j > 1
               PROVE  j - 1 \in 1 .. Len(d) /\ d[j - 1] = t.devices[j]
    OBVIOUS
  <2>1. j \in Nat /\ j - 1 \in 1 .. Len(t.devices) - 1 /\ j - 1 + 1 = j
    BY <1>1
  <2> QED BY <1>2, <2>1
<1>9. BtSavedAddrs(u) = {d[i - 1] : i \in t.saved \ {1}}
  <2>1. u.devices = d /\ u.saved = s
    BY <1>3
  <2>2. {d[j] : j \in s} = {d[i - 1] : i \in t.saved \ {1}}
    <3> HIDE DEF d
    <3> QED OBVIOUS
  <2> HIDE DEF d, s, u
  <2> QED BY <2>1, <2>2 DEF BtSavedAddrs
<1>10. BtSavedAddrs(u) = {t.devices[i] : i \in t.saved \ {1}}
  <2> HIDE DEF d, u
  <2> QED BY <1>4, <1>9
<1>11. BtCarried(t, u)
  <2>1. c # 0 => t.connected # 0 /\ d[c] = t.devices[t.connected]
    <3> HIDE DEF d
    <3> QED BY <1>1, <1>8
  <2>2. g # 0 => t.target # 0 /\ d[g] = t.devices[t.target]
    <3> HIDE DEF d
    <3> QED BY <1>1, <1>8
  <2>3. BtSavedAddrs(u) \subseteq BtSavedAddrs(t)
    <3> HIDE DEF u
    <3> QED BY <1>10 DEF BtSavedAddrs
  <2> HIDE DEF d, c, g, s
  <2> QED BY <1>3, <2>1, <2>2, <2>3 DEF BtCarried
<1>12. \A x \in BtSavedAddrs(t) \ BtSavedAddrs(u) : x = t.devices[1]
  <2> HIDE DEF u
  <2> QED BY <1>10 DEF BtSavedAddrs
<1> HIDE DEF d, s, c, g
<1> QED BY <1>2, <1>3, <1>7, <1>11, <1>12

(* A device is found: remember_device.                                     *)
LEMMA BtRememberKeeps ==
    ASSUME NEW t, BtWhole(t), NEW a \in BtAddrs
    PROVE  LET u == BtRemember(t, a)
           IN  /\ BtWhole(u) /\ BtCarried(t, u)
               /\ BtIndexOf(u, a) \in 1 .. Len(u.devices) /\ u.devices[BtIndexOf(u, a)] = a
               /\ Len(t.devices) <= Len(u.devices)
               /\ ~BtEvicts(t, a) => \A j \in 1 .. Len(t.devices) : u.devices[j] = t.devices[j]
               /\ \A x \in BtSavedAddrs(t) \ BtSavedAddrs(u) :
                     x = t.devices[1] /\ x \notin ToSet(u.devices)
<1> DEFINE u == BtRemember(t, a)
<1>1. /\ t \in BtTables /\ t.devices \in Seq(BtAddrs) /\ Len(t.devices) \in Nat
      /\ Len(t.devices) <= BtDevMax /\ BtDevMax \in Nat \ {0}
      /\ \A j \in 1 .. Len(t.devices), k \in 1 .. Len(t.devices) :
            t.devices[j] = t.devices[k] => j = k
      /\ t.saved \subseteq 1 .. Len(t.devices)
      /\ t.connected \in 0 .. Len(t.devices) /\ t.target \in 0 .. Len(t.devices)
  BY BtParts, BtConstants
<1>2. CASE BtIndexOf(t, a) # 0
  <2>1. u = t /\ BtCarried(t, t)
    BY <1>2 DEF BtRemember, BtCarried
  <2>2. BtIndexOf(t, a) \in 1 .. Len(t.devices) /\ t.devices[BtIndexOf(t, a)] = a
    BY <1>1, <1>2, BtSearch
  <2> QED BY <1>1, <2>1, <2>2
<1>3. CASE BtIndexOf(t, a) = 0
  <2> DEFINE r == IF BtFull(t) THEN BtEvict(t) ELSE t
             d == Append(r.devices, a)
  <2>1. u = [r EXCEPT !.devices = d]
    BY <1>3 DEF BtRemember
  <2>2. \A j \in 1 .. Len(t.devices) : t.devices[j] # a
    BY <1>1, <1>3, BtSearch
  <2>3. /\ BtWhole(r) /\ BtCarried(t, r) /\ Len(r.devices) < BtDevMax
        /\ Len(r.devices) >= Len(t.devices) - 1
        /\ \A x \in BtSavedAddrs(t) \ BtSavedAddrs(r) : x = t.devices[1] /\ BtFull(t)
        /\ \A j \in 1 .. Len(r.devices) : \E k \in 1 .. Len(t.devices) :
              r.devices[j] = t.devices[k] /\ (BtFull(t) => k > 1)
        /\ ~BtFull(t) => r = t
    <3>1. CASE BtFull(t)
      <4>1. r = BtEvict(t) /\ Len(t.devices) = BtDevMax
        BY <3>1 DEF BtFull
      <4>2. Len(t.devices) > 0
        BY <1>1, <4>1
      <4>3. /\ BtWhole(r) /\ BtCarried(t, r) /\ Len(r.devices) = Len(t.devices) - 1
            /\ \A j \in 1 .. Len(r.devices) : r.devices[j] = t.devices[j + 1]
            /\ \A x \in BtSavedAddrs(t) \ BtSavedAddrs(r) : x = t.devices[1]
        BY <4>1, <4>2, BtEvictKeeps
      <4> HIDE DEF r
      <4>4. Len(r.devices) < BtDevMax /\ Len(r.devices) >= Len(t.devices) - 1
        BY <1>1, <4>1, <4>3
      <4>5. ASSUME NEW j \in 1 .. Len(r.devices)
            PROVE  j + 1 \in 1 .. Len(t.devices) /\ j + 1 > 1
        BY <1>1, <4>3
      <4> QED BY <3>1, <4>3, <4>4, <4>5
    <3>2. CASE ~BtFull(t)
      <4>1. r = t /\ Len(t.devices) # BtDevMax
        BY <3>2 DEF BtFull
      <4>2. Len(t.devices) < BtDevMax /\ Len(t.devices) >= Len(t.devices) - 1
        BY <1>1, <4>1
      <4>3. BtCarried(t, t)
        BY DEF BtCarried
      <4> HIDE DEF r
      <4> QED BY <3>2, <4>1, <4>2, <4>3
    <3> QED BY <3>1, <3>2
  <2> HIDE DEF r
  <2>4. /\ r \in BtTables /\ r.devices \in Seq(BtAddrs) /\ Len(r.devices) \in Nat
        /\ \A j \in 1 .. Len(r.devices), k \in 1 .. Len(r.devices) :
              r.devices[j] = r.devices[k] => j = k
        /\ r.saved \subseteq 1 .. Len(r.devices)
        /\ r.connected \in 0 .. Len(r.devices) /\ r.target \in 0 .. Len(r.devices)
    BY <2>3, BtParts
  <2>5. /\ d \in Seq(BtAddrs) /\ Len(d) = Len(r.devices) + 1
        /\ \A j \in 1 .. Len(r.devices) : d[j] = r.devices[j]
        /\ d[Len(r.devices) + 1] = a
    BY <2>4, AppendProperties
  <2> HIDE DEF d
  <2>6. u = [devices |-> d, saved |-> r.saved, connected |-> r.connected, target |-> r.target]
    BY <2>1, <2>4 DEF BtTables
  <2>7. \A j \in 1 .. Len(r.devices) : r.devices[j] # a
    BY <2>2, <2>3
  <2>8. \A j \in 1 .. Len(d) : j \in 1 .. Len(r.devices) \/ j = Len(r.devices) + 1
    BY <2>4, <2>5
  <2>9. \A j \in 1 .. Len(d), k \in 1 .. Len(d) : d[j] = d[k] => j = k
    BY <2>4, <2>5, <2>7, <2>8
  <2>10. 1 .. Len(r.devices) \subseteq 1 .. Len(d) /\ 0 .. Len(r.devices) \subseteq 0 .. Len(d)
         /\ Len(d) <= BtDevMax /\ Len(r.devices) + 1 \in 1 .. Len(d)
    BY <1>1, <2>3, <2>4, <2>5
  <2>11. BtWhole(u)
    <3>1. r.saved \in SUBSET (1 .. Len(d)) /\ r.connected \in 0 .. Len(d) /\ r.target \in 0 .. Len(d)
      BY <2>4, <2>10
    <3> HIDE DEF u
    <3> QED BY <2>5, <2>6, <2>9, <2>10, <3>1, BtMade
  <2>12. /\ u.devices = d /\ u.saved = r.saved /\ u.connected = r.connected
         /\ u.target = r.target
    BY <2>6
  <2> HIDE DEF u
  <2>13. BtSavedAddrs(u) = BtSavedAddrs(r)
    <3>1. \A j \in r.saved : d[j] = r.devices[j]
      BY <2>4, <2>5
    <3>2. {d[j] : j \in r.saved} = {r.devices[j] : j \in r.saved}
      BY <3>1
    <3>3. BtSavedAddrs(u) = {d[j] : j \in r.saved}
      BY <2>12 DEF BtSavedAddrs
    <3> QED BY <3>2, <3>3 DEF BtSavedAddrs
  <2>14. BtCarried(t, u)
    <3>1. u.target # 0 => u.target \in 1 .. Len(r.devices)
      BY <2>4, <2>12
    <3>2. u.connected # 0 => u.connected \in 1 .. Len(r.devices)
      BY <2>4, <2>12
    <3> QED BY <2>3, <2>5, <2>12, <2>13, <3>1, <3>2 DEF BtCarried
  <2>15. BtIndexOf(u, a) \in 1 .. Len(u.devices) /\ u.devices[BtIndexOf(u, a)] = a
    BY <2>5, <2>10, <2>12, BtSearch
  <2>16. Len(t.devices) <= Len(u.devices)
    BY <1>1, <2>3, <2>4, <2>5, <2>12
  <2>17. ~BtEvicts(t, a) => \A j \in 1 .. Len(t.devices) : u.devices[j] = t.devices[j]
    BY <1>3, <2>3, <2>5, <2>12 DEF BtEvicts
  <2>18. ASSUME NEW x \in BtSavedAddrs(t) \ BtSavedAddrs(u)
         PROVE  x = t.devices[1] /\ x \notin ToSet(u.devices)
    <3>1. x = t.devices[1] /\ BtFull(t)
      BY <2>3, <2>13, <2>18
    <3>2. 1 \in 1 .. Len(t.devices)
      BY <1>1, <3>1 DEF BtFull
    <3>3. \A k \in 1 .. Len(t.devices) : k > 1 => t.devices[k] # t.devices[1]
      BY <1>1, <3>2
    <3>4. \A j \in 1 .. Len(r.devices) : r.devices[j] # x
      BY <2>3, <3>1, <3>3
    <3>5. x # a
      BY <2>2, <3>1, <3>2
    <3>6. \A j \in 1 .. Len(d) : d[j] # x
      BY <2>5, <2>8, <3>4, <3>5
    <3>7. DOMAIN u.devices = 1 .. Len(d)
      BY <2>5, <2>12, BtListIs
    <3> QED BY <2>12, <3>1, <3>6, <3>7 DEF ToSet
  <2> QED BY <2>11, <2>14, <2>15, <2>16, <2>17, <2>18 DEF u
<1> QED BY <1>2, <1>3

(* An entry goes: bt_proto_remove_device.                                  *)
LEMMA BtRemoveKeeps ==
    ASSUME NEW t, BtWhole(t), NEW i \in 1 .. Len(t.devices)
    PROVE  LET u == BtRemove(t, i)
           IN  /\ BtWhole(u) /\ BtCarried(t, u)
               /\ \A j \in 0 .. Len(t.devices) :
                     /\ BtWithout(i, j) \in 0 .. Len(u.devices)
                     /\ j # 0 /\ j # i => BtWithout(i, j) # 0
                     /\ BtWithout(i, j) # 0 => j # 0 /\ u.devices[BtWithout(i, j)] = t.devices[j]
               /\ \A x \in BtSavedAddrs(t) \ BtSavedAddrs(u) : x \notin ToSet(u.devices)
<1> DEFINE d == RemoveAt(t.devices, i)
           s == {BtWithout(i, j) : j \in t.saved \ {i}}
           c == BtWithout(i, t.connected)
           g == BtWithout(i, t.target)
           u == BtRemove(t, i)
<1>1. /\ t.devices \in Seq(BtAddrs) /\ Len(t.devices) \in Nat /\ Len(t.devices) <= BtDevMax
      /\ \A j \in 1 .. Len(t.devices), k \in 1 .. Len(t.devices) :
            t.devices[j] = t.devices[k] => j = k
      /\ t.saved \subseteq 1 .. Len(t.devices)
      /\ t.connected \in 0 .. Len(t.devices) /\ t.target \in 0 .. Len(t.devices)
  BY BtParts
<1>2. /\ d \in Seq(BtAddrs) /\ Len(d) = Len(t.devices) - 1
      /\ \A j \in 1 .. Len(t.devices) - 1 :
            d[j] = IF j < i THEN t.devices[j] ELSE t.devices[j + 1]
  BY <1>1, BtRemoveIs
<1> HIDE DEF d
<1>3. u = [devices |-> d, saved |-> s, connected |-> c, target |-> g]
  BY DEF BtRemove, d
<1>4. ASSUME NEW j \in 0 .. Len(t.devices)
      PROVE  /\ BtWithout(i, j) \in 0 .. Len(d) /\ BtWithout(i, j) \in Nat
             /\ j # 0 /\ j # i => BtWithout(i, j) # 0
             /\ BtWithout(i, j) # 0 => j # 0 /\ d[BtWithout(i, j)] = t.devices[j]
  <2>1. j \in Nat /\ i \in Nat /\ 1 <= i /\ i <= Len(t.devices) /\ j <= Len(t.devices)
    BY <1>1
  <2>2. CASE j = i
    BY <1>1, <1>2, <2>1, <2>2 DEF BtWithout
  <2>3. CASE j > i
    <3>1. BtWithout(i, j) = j - 1 /\ j - 1 \in 1 .. Len(t.devices) - 1 /\ ~(j - 1 < i)
          /\ j - 1 + 1 = j /\ j # 0 /\ j - 1 # 0 /\ j - 1 \in Nat /\ j - 1 \in 0 .. Len(d)
      BY <1>1, <1>2, <2>1, <2>3 DEF BtWithout
    <3> QED BY <1>2, <3>1
  <2>4. CASE j < i
    <3>1. BtWithout(i, j) = j /\ j \in 0 .. Len(d) /\ (j # 0 => j \in 1 .. Len(t.devices) - 1)
      BY <1>1, <1>2, <2>1, <2>4 DEF BtWithout
    <3> QED BY <1>2, <2>1, <2>4, <3>1
  <2> QED BY <2>1, <2>2, <2>3, <2>4
<1>5. \A j \in 1 .. Len(d) : \E k \in 1 .. Len(t.devices) :
         d[j] = t.devices[k] /\ k # i /\ (k = j \/ k = j + 1) /\ (j < i <=> k = j)
  <2> SUFFICES ASSUME NEW j \in 1 .. Len(d)
               PROVE  \E k \in 1 .. Len(t.devices) :
                        d[j] = t.devices[k] /\ k # i /\ (k = j \/ k = j + 1) /\ (j < i <=> k = j)
    OBVIOUS
  <2>1. j \in Nat /\ i \in Nat /\ j \in 1 .. Len(t.devices) - 1
        /\ j \in 1 .. Len(t.devices) /\ j + 1 \in 1 .. Len(t.devices)
    BY <1>1, <1>2
  <2>2. CASE j < i
    BY <1>2, <2>1, <2>2
  <2>3. CASE ~(j < i)
    <3>1. j + 1 # i /\ j + 1 # j /\ d[j] = t.devices[j + 1]
      BY <1>2, <2>1, <2>3
    <3> QED BY <2>1, <2>3, <3>1
  <2> QED BY <2>2, <2>3
<1>6. \A j \in 1 .. Len(d), k \in 1 .. Len(d) : d[j] = d[k] => j = k
  <2> SUFFICES ASSUME NEW j \in 1 .. Len(d), NEW k \in 1 .. Len(d), d[j] = d[k] PROVE j = k
    OBVIOUS
  <2>1. PICK m \in 1 .. Len(t.devices) :
           d[j] = t.devices[m] /\ m # i /\ (m = j \/ m = j + 1) /\ (j < i <=> m = j)
    BY <1>5
  <2>2. PICK n \in 1 .. Len(t.devices) :
           d[k] = t.devices[n] /\ n # i /\ (n = k \/ n = k + 1) /\ (k < i <=> n = k)
    BY <1>5
  <2>3. m = n
    BY <1>1, <2>1, <2>2
  <2>4. j \in Nat /\ k \in Nat /\ i \in Nat
    BY <1>1, <1>2
  <2> QED BY <2>1, <2>2, <2>3, <2>4
<1>7. \A j \in t.saved \ {i} : BtWithout(i, j) \in 1 .. Len(d) /\ d[BtWithout(i, j)] = t.devices[j]
  <2> SUFFICES ASSUME NEW j \in t.saved \ {i}
               PROVE  BtWithout(i, j) \in 1 .. Len(d) /\ d[BtWithout(i, j)] = t.devices[j]
    OBVIOUS
  <2>1. j \in 0 .. Len(t.devices) /\ j # 0 /\ j # i
    BY <1>1
  <2>2. BtWithout(i, j) \in 0 .. Len(d) /\ BtWithout(i, j) # 0
    BY <1>4, <2>1
  <2>3. BtWithout(i, j) \in 1 .. Len(d)
    BY <1>1, <1>2, <2>2
  <2> QED BY <1>4, <2>1, <2>2, <2>3
<1>8. BtWhole(u)
  <2>1. s \in SUBSET (1 .. Len(d)) /\ Len(d) <= BtDevMax
    BY <1>1, <1>2, <1>7, BtConstants
  <2>2. c \in 0 .. Len(d) /\ g \in 0 .. Len(d)
    BY <1>1, <1>4
  <2> HIDE DEF s, c, g, u
  <2> QED BY <1>2, <1>3, <1>6, <2>1, <2>2, BtMade
<1>9. /\ u.devices = d /\ u.saved = s /\ u.connected = c /\ u.target = g
  BY <1>3
<1> HIDE DEF u
<1>10. BtSavedAddrs(u) = {t.devices[j] : j \in t.saved \ {i}}
  <2>1. BtSavedAddrs(u) = {d[BtWithout(i, j)] : j \in t.saved \ {i}}
    BY <1>9 DEF BtSavedAddrs
  <2> QED BY <1>7, <2>1
<1>11. BtCarried(t, u)
  <2>1. c # 0 => t.connected # 0 /\ d[c] = t.devices[t.connected]
    BY <1>1, <1>4
  <2>2. g # 0 => t.target # 0 /\ d[g] = t.devices[t.target]
    BY <1>1, <1>4
  <2>3. BtSavedAddrs(u) \subseteq BtSavedAddrs(t)
    BY <1>10 DEF BtSavedAddrs
  <2> HIDE DEF c, g, s
  <2> QED BY <1>9, <2>1, <2>2, <2>3 DEF BtCarried
<1>12. ASSUME NEW x \in BtSavedAddrs(t) \ BtSavedAddrs(u)
       PROVE  x \notin ToSet(u.devices)
  <2>1. x = t.devices[i]
    BY <1>10, <1>12 DEF BtSavedAddrs
  <2>2. \A j \in 1 .. Len(d) : d[j] # x
    BY <1>1, <1>5, <2>1
  <2>3. DOMAIN u.devices = 1 .. Len(d)
    BY <1>2, <1>9, BtListIs
  <2> QED BY <1>9, <2>2, <2>3 DEF ToSet
<1> QED BY <1>4, <1>8, <1>9, <1>11, <1>12 DEF u

(* An entry comes first: bt_proto_promote_device.                          *)
LEMMA BtPromoteKeeps ==
    ASSUME NEW t, BtWhole(t), NEW i \in 0 .. Len(t.devices)
    PROVE  LET u == BtPromote(t, i)
           IN  /\ BtWhole(u) /\ BtCarried(t, u) /\ BtSavedAddrs(u) = BtSavedAddrs(t)
               /\ Len(u.devices) = Len(t.devices)
               /\ i <= 1 => u = t
               /\ i # 0 => u.devices[1] = t.devices[i]
               /\ i # 0 /\ t.connected = i => u.connected = 1
<1> DEFINE u == BtPromote(t, i)
<1>1. /\ t.devices \in Seq(BtAddrs) /\ Len(t.devices) \in Nat /\ Len(t.devices) <= BtDevMax
      /\ \A j \in 1 .. Len(t.devices), k \in 1 .. Len(t.devices) :
            t.devices[j] = t.devices[k] => j = k
      /\ t.saved \subseteq 1 .. Len(t.devices) /\ i \in Nat
      /\ t.connected \in 0 .. Len(t.devices) /\ t.target \in 0 .. Len(t.devices)
  BY BtParts
<1>2. CASE i <= 1
  <2>1. u = t /\ BtCarried(t, t)
    BY <1>2 DEF BtPromote, BtCarried
  <2>2. i # 0 => i = 1
    BY <1>1, <1>2
  <2> HIDE DEF u
  <2> QED BY <1>1, <2>1, <2>2 DEF u
<1>3. CASE ~(i <= 1)
  <2> DEFINE d == <<t.devices[i]>> \o RemoveAt(t.devices, i)
             s == {BtFirst(i, j) : j \in t.saved}
             c == BtFirst(i, t.connected)
             g == BtFirst(i, t.target)
  <2>1. i \in 1 .. Len(t.devices) /\ 1 \in 1 .. Len(t.devices) /\ i # 0 /\ i > 1
        /\ i <= Len(t.devices)
    BY <1>1, <1>3
  <2>2. /\ d \in Seq(BtAddrs) /\ Len(d) = Len(t.devices) /\ d[1] = t.devices[i]
        /\ \A j \in 2 .. Len(t.devices) :
              d[j] = IF j <= i THEN t.devices[j - 1] ELSE t.devices[j]
    <3> DEFINE f == t.devices
    <3>1. f \in Seq(BtAddrs) /\ i \in 1 .. Len(f)
      BY <1>1, <2>1
    <3> HIDE DEF f
    <3>2. LET w == <<f[i]>> \o RemoveAt(f, i)
          IN  /\ w \in Seq(BtAddrs) /\ Len(w) = Len(f) /\ w[1] = f[i]
              /\ \A j \in 2 .. Len(f) : w[j] = IF j <= i THEN f[j - 1] ELSE f[j]
      BY ONLY <3>1, BtFirstIs, Zenon
    <3> QED BY <3>2 DEF f
  <2> DEFINE v == [devices |-> d, saved |-> s, connected |-> c, target |-> g]
  <2>3. u = v
    <3>1. u = IF i <= 1 THEN t ELSE v
      BY Zenon DEF BtPromote
    <3> HIDE DEF u, v
    <3> QED BY <1>3, <3>1
  <2> HIDE DEF d
  <2>4. ASSUME NEW j \in 0 .. Len(t.devices)
        PROVE  /\ BtFirst(i, j) \in 0 .. Len(d) /\ (BtFirst(i, j) = 0 <=> j = 0)
               /\ j # 0 => BtFirst(i, j) \in 1 .. Len(d) /\ d[BtFirst(i, j)] = t.devices[j]
    <3>1. j \in Nat /\ j <= Len(t.devices)
      BY <1>1
    <3>2. CASE j = i
      <4>1. BtFirst(i, j) = 1
        BY <3>2 DEF BtFirst
      <4> QED BY <2>1, <2>2, <3>2, <4>1
    <3>3. CASE j # 0 /\ j < i
      <4>1. BtFirst(i, j) = j + 1 /\ j + 1 \in 2 .. Len(t.devices) /\ j + 1 <= i
            /\ j + 1 - 1 = j /\ j + 1 \in 1 .. Len(t.devices) /\ j + 1 \in 0 .. Len(t.devices)
            /\ j + 1 # 0
        BY <1>1, <2>1, <3>1, <3>3 DEF BtFirst
      <4> QED BY <2>2, <3>3, <4>1
    <3>4. CASE j > i
      <4>1. BtFirst(i, j) = j /\ j \in 2 .. Len(t.devices) /\ ~(j <= i)
            /\ j \in 1 .. Len(t.devices) /\ j # 0
        BY <1>1, <2>1, <3>1, <3>4 DEF BtFirst
      <4> QED BY <2>2, <4>1
    <3>5. CASE j = 0
      <4>1. BtFirst(i, j) = 0
        BY <2>1, <3>5 DEF BtFirst
      <4> QED BY <1>1, <2>2, <3>5, <4>1
    <3> QED BY <1>1, <3>1, <3>2, <3>3, <3>4, <3>5
  <2>5. \A j \in 1 .. Len(d) : \E k \in 1 .. Len(t.devices) :
           d[j] = t.devices[k] /\ BtFirst(i, k) = j
    <3> SUFFICES ASSUME NEW j \in 1 .. Len(d)
                 PROVE  \E k \in 1 .. Len(t.devices) : d[j] = t.devices[k] /\ BtFirst(i, k) = j
      OBVIOUS
    <3>1. j \in Nat /\ j \in 1 .. Len(t.devices)
      BY <1>1, <2>2
    <3>2. CASE j = 1
      BY <2>1, <2>2, <3>2 DEF BtFirst
    <3>3. CASE j # 1 /\ j <= i
      <4>1. j \in 2 .. Len(t.devices) /\ j - 1 \in 1 .. Len(t.devices) /\ BtFirst(i, j - 1) = j
        BY <1>1, <2>1, <3>1, <3>3 DEF BtFirst
      <4> QED BY <2>2, <3>3, <4>1
    <3>4. CASE j > i
      <4>1. j \in 2 .. Len(t.devices) /\ BtFirst(i, j) = j /\ ~(j <= i)
        BY <1>1, <2>1, <3>1, <3>4 DEF BtFirst
      <4> QED BY <2>2, <3>1, <4>1
    <3> QED BY <1>1, <3>1, <3>2, <3>3, <3>4
  <2>6. \A j \in 1 .. Len(d), k \in 1 .. Len(d) : d[j] = d[k] => j = k
    BY <1>1, <2>5
  <2>7. BtWhole(u)
    <3>1. s \in SUBSET (1 .. Len(d)) /\ Len(d) <= BtDevMax
      <4>1. \A j \in t.saved : j \in 0 .. Len(t.devices) /\ j # 0
        BY <1>1
      <4> QED BY <1>1, <2>2, <2>4, <4>1
    <3>2. c \in 0 .. Len(d) /\ g \in 0 .. Len(d)
      BY <1>1, <2>4
    <3> HIDE DEF s, c, g, u
    <3> QED BY <2>2, <2>3, <2>6, <3>1, <3>2, BtMade
  <2>8. /\ u.devices = d /\ u.saved = s /\ u.connected = c /\ u.target = g
    BY <2>3
  <2> HIDE DEF u
  <2>9. BtSavedAddrs(u) = BtSavedAddrs(t)
    <3>1. BtSavedAddrs(u) = {d[BtFirst(i, j)] : j \in t.saved}
      BY <2>8 DEF BtSavedAddrs
    <3>2. \A j \in t.saved : d[BtFirst(i, j)] = t.devices[j]
      <4>1. \A j \in t.saved : j \in 0 .. Len(t.devices) /\ j # 0
        BY <1>1
      <4> QED BY <2>4, <4>1
    <3> QED BY <3>1, <3>2 DEF BtSavedAddrs
  <2>10. BtCarried(t, u)
    <3>1. c # 0 => t.connected # 0 /\ d[c] = t.devices[t.connected]
      BY <1>1, <2>4
    <3>2. g # 0 => t.target # 0 /\ d[g] = t.devices[t.target]
      BY <1>1, <2>4
    <3> HIDE DEF c, g, s
    <3> QED BY <2>8, <2>9, <3>1, <3>2 DEF BtCarried
  <2>11. t.connected = i => u.connected = 1
    BY <2>8 DEF BtFirst
  <2> QED BY <1>3, <2>2, <2>7, <2>8, <2>9, <2>10, <2>11 DEF u
<1> QED BY <1>2, <1>3

-----------------------------------------------------------------------------
(* The table, step by step.                                                *)

(* What a step may do to the saved bits: BtSavedFollows.                   *)
BtSavedStep ==
    /\ \A a \in BtSavedAddrs(btTab) \ BtSavedAddrs(btTab') :
          a \notin ToSet(btTab'.devices) /\ (btPc = "rest" \/ a = btTab.devices[1])
    /\ \A a \in BtSavedAddrs(btTab') \ BtSavedAddrs(btTab) :
          \/ btPc = "rest" /\ btTab'.devices = btTab.devices
          \/ btPc = "follow" /\ btTab'.devices[1] = a /\ btTab'.connected = 1

(* What every step keeps of the table and the indices into it.             *)
BtTableStep == BtIndexed' /\ BtIndicesRight' /\ BtSavedStep

(* What is known of the table before a step.                               *)
LEMMA BtBefore ==
    ASSUME BtInv
    PROVE  /\ BtWhole(btTab) /\ btTab \in BtTables /\ DOMAIN btTab.devices = 1 .. Len(btTab.devices)
           /\ Len(btTab.devices) \in Nat /\ btPend \in 0 .. Len(btTab.devices)
           /\ btSent \in BtAddrs \cup {BtNone} /\ btPick \in BtAddrs \cup {BtNone}
           /\ btTab.connected \in 0 .. Len(btTab.devices) /\ btTab.target \in 0 .. Len(btTab.devices)
           /\ btTab.saved \subseteq 1 .. Len(btTab.devices)
           /\ \A j \in 1 .. Len(btTab.devices) : btTab.devices[j] \in BtAddrs
           /\ btTab.target # 0 => btTab.devices[btTab.target] = btSent
           /\ btTab.connected # 0 => btTab.devices[btTab.connected] = btSaid
           /\ btPick # BtNone => btPend # 0 /\ btTab.devices[btPend] = btPick
           /\ 0 \in 0 .. Len(btTab.devices)
<1>1. BtWhole(btTab) /\ btPend \in DOMAIN btTab.devices \cup {0} /\ BtIndicesRight
      /\ btSent \in BtAddrs \cup {BtNone} /\ btPick \in BtAddrs \cup {BtNone}
  BY DEF BtInv, BtTyped, BtIndexed
<1>2. /\ btTab \in BtTables /\ DOMAIN btTab.devices = 1 .. Len(btTab.devices)
      /\ Len(btTab.devices) \in Nat
      /\ btTab.connected \in 0 .. Len(btTab.devices) /\ btTab.target \in 0 .. Len(btTab.devices)
      /\ btTab.saved \subseteq 1 .. Len(btTab.devices)
      /\ \A j \in 1 .. Len(btTab.devices) : btTab.devices[j] \in BtAddrs
  BY <1>1, BtParts
<1>3. btPend \in 0 .. Len(btTab.devices) /\ 0 \in 0 .. Len(btTab.devices)
  BY <1>1, <1>2
<1>4. btPick # BtNone => btPend # 0 /\ btTab.devices[btPend] = btPick
  BY <1>1, <1>2 DEF BtIndicesRight
<1> QED BY <1>1, <1>2, <1>3, <1>4 DEF BtIndicesRight

(* The table and the indices after a step, from their parts.               *)
LEMMA BtAfter ==
    ASSUME BtWhole(btTab'), btPend' \in 0 .. Len(btTab'.devices),
           btSent' \in BtAddrs \cup {BtNone}, btPick' \in BtAddrs \cup {BtNone},
           btTab'.target # 0 => btTab'.devices[btTab'.target] = btSent',
           btTab'.connected # 0 => btTab'.devices[btTab'.connected] = btSaid',
           btPick' # BtNone => btPend' # 0 /\ btTab'.devices[btPend'] = btPick'
    PROVE  BtIndexed' /\ BtIndicesRight'
<1>1. DOMAIN btTab'.devices = 1 .. Len(btTab'.devices) /\ Len(btTab'.devices) \in Nat
  BY BtParts
<1>2. btPend' \in DOMAIN btTab'.devices \cup {0}
      /\ (btPend' # 0 => btPend' \in DOMAIN btTab'.devices)
  BY <1>1
<1> QED BY <1>2 DEF BtIndexed, BtIndicesRight

(* A step that leaves the devices and their saved bits alone.              *)
LEMMA BtSavedSame ==
    ASSUME btTab'.devices = btTab.devices, btTab'.saved = btTab.saved
    PROVE  BtSavedStep
BY DEF BtSavedStep, BtSavedAddrs

(* A step that leaves the table and the indices alone.                     *)
LEMMA BtTableSame ==
    ASSUME BtInv, UNCHANGED <<btTab, btSent, btPend>>,
           btTab.connected # 0 => btSaid' = btSaid,
           btPick' = btPick \/ btPick' = BtNone
    PROVE  BtTableStep
<1>1. BtIndexed' /\ BtIndicesRight'
  BY BtBefore, BtAfter
<1> QED BY <1>1, BtSavedSame DEF BtTableStep

(* A step that only sets the two indices of the table.                     *)
LEMMA BtTablePointed ==
    ASSUME BtInv, NEW c \in 0 .. Len(btTab.devices), NEW g \in 0 .. Len(btTab.devices),
           \/ btTab' = [btTab EXCEPT !.connected = c, !.target = g]
           \/ btTab' = [btTab EXCEPT !.connected = c] /\ g = btTab.target
           \/ btTab' = [btTab EXCEPT !.target = g] /\ c = btTab.connected
           \/ btTab' = btTab /\ g = btTab.target /\ c = btTab.connected,
           btSent' \in BtAddrs \cup {BtNone},
           g # 0 => btTab.devices[g] = btSent',
           c # 0 => btTab.devices[c] = btSaid',
           \/ btPend' = btPend /\ (btPick' = btPick \/ btPick' = BtNone)
           \/ btPend' = 0 /\ btPick' = BtNone
    PROVE  BtTableStep
<1>1. /\ btTab'.devices = btTab.devices /\ btTab'.saved = btTab.saved
      /\ btTab'.connected = c /\ btTab'.target = g /\ btTab' \in BtTables
  <2>1. c \in Nat /\ g \in Nat
    BY BtBefore
  <2>2. btTab \in BtTables
    BY BtBefore
  <2> QED BY <2>1, <2>2 DEF BtTables
<1>2. BtWhole(btTab')
  <2>1. BtWhole(btTab) /\ DOMAIN btTab.devices = 1 .. Len(btTab.devices)
        /\ Len(btTab.devices) \in Nat
    BY BtBefore
  <2>2. c \in DOMAIN btTab.devices \cup {0} /\ g \in DOMAIN btTab.devices \cup {0}
    BY <2>1
  <2> QED BY <1>1, <2>1, <2>2 DEF BtWhole
<1>3. BtIndexed' /\ BtIndicesRight'
  <2>1. btPend' \in 0 .. Len(btTab'.devices) /\ btPick' \in BtAddrs \cup {BtNone}
        /\ (btPick' # BtNone => btPend' # 0 /\ btTab'.devices[btPend'] = btPick')
    BY <1>1, BtBefore
  <2> QED BY <1>1, <1>2, <2>1, BtAfter
<1> QED BY <1>1, <1>3, BtSavedSame DEF BtTableStep

(* Switching the module on or off.                                         *)
LEMMA BtTableOnOff ==
    ASSUME BtInv, \/ BtModuleOn /\ btPend' = btPend /\ btPick' = btPick
                  \/ BtModuleOff /\ btSent' = btSent
    PROVE  BtTableStep
<1>1. btTab' = [btTab EXCEPT !.connected = 0, !.target = 0]
      /\ btSent' \in BtAddrs \cup {BtNone}
      /\ \/ btPend' = btPend /\ btPick' = btPick
         \/ btPend' = 0 /\ btPick' = BtNone
  BY BtBefore DEF BtModuleOn, BtModuleOff
<1> QED BY <1>1, BtBefore, BtTablePointed

(* A frame that names a device.                                            *)
LEMMA BtTableFound ==
    ASSUME BtInv, NEW a \in BtAddrs, BtFoundFrame(a) \/ BtStatusFrame(a)
    PROVE  BtTableStep
<1> DEFINE u == BtRemember(btTab, a)
<1>1. /\ btPc = "receive" /\ btSent' = btSent /\ btPend' = btPend
      /\ btPick' = IF BtEvicts(btTab, a) THEN BtNone ELSE btPick
      /\ \/ btTab' = u /\ btSaid' = btSaid
         \/ btTab' = [u EXCEPT !.connected = BtIndexOf(u, a)] /\ btSaid' = a
  BY DEF BtFoundFrame, BtStatusFrame, BtWhenRunning, BtReorders, BtLinkIs, btPolicy
<1>2. /\ BtWhole(u) /\ BtCarried(btTab, u)
      /\ BtIndexOf(u, a) \in 1 .. Len(u.devices) /\ u.devices[BtIndexOf(u, a)] = a
      /\ Len(btTab.devices) <= Len(u.devices)
      /\ ~BtEvicts(btTab, a) =>
            \A j \in 1 .. Len(btTab.devices) : u.devices[j] = btTab.devices[j]
      /\ \A x \in BtSavedAddrs(btTab) \ BtSavedAddrs(u) :
            x = btTab.devices[1] /\ x \notin ToSet(u.devices)
  BY BtBefore, BtRememberKeeps
<1> HIDE DEF u
<1>3. u \in BtTables /\ Len(u.devices) \in Nat
  BY <1>2, BtParts
<1> DEFINE k == BtIndexOf(u, a)
<1>4. k \in 1 .. Len(u.devices) /\ u.devices[k] = a /\ k \in 0 .. Len(u.devices)
  BY <1>2, <1>3
<1> HIDE DEF k
<1>5. /\ btTab'.devices = u.devices /\ btTab'.saved = u.saved /\ btTab'.target = u.target
      /\ \/ btTab' = u /\ btSaid' = btSaid
         \/ btTab' = [u EXCEPT !.connected = k] /\ btTab'.connected = k /\ btSaid' = a
  BY <1>1, <1>3 DEF BtTables, k
<1>6. BtWhole(btTab')
  <2>1. \A j \in 0 .. Len(u.devices) : BtWhole([u EXCEPT !.connected = j])
    BY <1>2, BtPointed
  <2> QED BY <1>2, <1>4, <1>5, <2>1
<1>7. btPend' \in 0 .. Len(btTab'.devices)
  BY <1>1, <1>2, <1>3, <1>5, BtBefore
<1>8. btTab'.target # 0 => btTab'.devices[btTab'.target] = btSent'
  BY <1>1, <1>2, <1>5, BtBefore DEF BtCarried
<1>9. btTab'.connected # 0 => btTab'.devices[btTab'.connected] = btSaid'
  BY <1>2, <1>4, <1>5, BtBefore DEF BtCarried
<1>10. btPick' # BtNone => btPend' # 0 /\ btTab'.devices[btPend'] = btPick'
  <2> SUFFICES ASSUME btPick' # BtNone PROVE btPend' # 0 /\ btTab'.devices[btPend'] = btPick'
    OBVIOUS
  <2>1. btPick' = btPick /\ ~BtEvicts(btTab, a)
    BY <1>1
  <2>2. btPend # 0 /\ btTab.devices[btPend] = btPick /\ btPend \in 1 .. Len(btTab.devices)
    BY <2>1, BtBefore
  <2> QED BY <1>1, <1>2, <1>5, <2>1, <2>2
<1>11. BtIndexed' /\ BtIndicesRight'
  <2>1. btSent' \in BtAddrs \cup {BtNone} /\ btPick' \in BtAddrs \cup {BtNone}
    BY <1>1, BtBefore
  <2> QED BY <1>6, <1>7, <1>8, <1>9, <1>10, <2>1, BtAfter
<1>12. BtSavedStep
  <2>1. BtSavedAddrs(btTab') = BtSavedAddrs(u)
    BY <1>5 DEF BtSavedAddrs
  <2>2. BtSavedAddrs(u) \subseteq BtSavedAddrs(btTab)
    BY <1>2 DEF BtCarried
  <2> QED BY <1>2, <1>5, <2>1, <2>2 DEF BtSavedStep
<1> QED BY <1>11, <1>12 DEF BtTableStep

(* A link that has just come up: its device is saved and comes first.      *)
LEMMA BtTableFollow ==
    ASSUME BtInv, BtFollow
    PROVE  BtTableStep
<1>1. btPc = "follow" /\ UNCHANGED <<btSent, btPend, btSaid>>
  BY DEF BtFollow, BtGoes
<1>2. CASE UNCHANGED <<btTab, btPick>>
  BY <1>1, <1>2, BtTableSame
<1>3. CASE ~UNCHANGED <<btTab, btPick>>
  <2> DEFINE m == BtMark(btTab, btTab.connected)
             c == btTab.connected
  <2>1. /\ btTab' = BtPromote(m, c)
        /\ btPick' = IF c > 1 THEN BtNone ELSE btPick
    BY <1>3 DEF BtFollow, BtReorders
  <2>2. /\ BtWhole(m) /\ m.devices = btTab.devices
        /\ m.connected = c /\ m.target = btTab.target
        /\ m.saved = btTab.saved \cup ({c} \cap DOMAIN btTab.devices)
    BY BtBefore, BtMarkKeeps
  <2> HIDE DEF m
  <2>3. c \in 0 .. Len(m.devices) /\ c \in Nat
    BY <2>2, BtBefore
  <2>4. /\ BtWhole(btTab') /\ BtCarried(m, btTab') /\ BtSavedAddrs(btTab') = BtSavedAddrs(m)
        /\ Len(btTab'.devices) = Len(m.devices)
        /\ c <= 1 => btTab' = m
        /\ c # 0 => btTab'.devices[1] = m.devices[c] /\ btTab'.connected = 1
    BY <2>1, <2>2, <2>3, BtPromoteKeeps
  <2>5. BtIndexed' /\ BtIndicesRight'
    <3>1. btPend' \in 0 .. Len(btTab'.devices) /\ btPick' \in BtAddrs \cup {BtNone}
          /\ btSent' \in BtAddrs \cup {BtNone}
      BY <1>1, <2>1, <2>2, <2>4, BtBefore
    <3>2. btTab'.target # 0 => btTab'.devices[btTab'.target] = btSent'
      BY <1>1, <2>2, <2>4, BtBefore DEF BtCarried
    <3>3. btTab'.connected # 0 => btTab'.devices[btTab'.connected] = btSaid'
      BY <1>1, <2>2, <2>4, BtBefore DEF BtCarried
    <3>4. btPick' # BtNone => btPend' # 0 /\ btTab'.devices[btPend'] = btPick'
      <4>1. btPick' # BtNone => c <= 1 /\ btPick' = btPick
        BY <2>1, <2>3
      <4> QED BY <1>1, <2>2, <2>4, <4>1, BtBefore
    <3> QED BY <2>4, <3>1, <3>2, <3>3, <3>4, BtAfter
  <2>6. BtSavedStep
    <3>1. BtSavedAddrs(btTab) \subseteq BtSavedAddrs(m)
      BY <2>2 DEF BtSavedAddrs
    <3>2. \A x \in BtSavedAddrs(m) \ BtSavedAddrs(btTab) :
             c \in DOMAIN btTab.devices /\ x = btTab.devices[c]
      BY <2>2 DEF BtSavedAddrs
    <3>3. c \in DOMAIN btTab.devices => c # 0
      BY BtBefore
    <3> QED BY <1>1, <2>2, <2>4, <3>1, <3>2, <3>3 DEF BtSavedStep
  <2> QED BY <2>5, <2>6 DEF BtTableStep
<1> QED BY <1>2, <1>3

(* An attempt to connect to entry i.                                       *)
LEMMA BtTableAttempt ==
    ASSUME BtInv, NEW i, BtAttempt(i), btSaid' = btSaid,
           btPend' = btPend \/ btPend' = 0, btPick' = IF btPend' = 0 THEN BtNone ELSE btPick
    PROVE  BtTableStep
<1>1. CASE UNCHANGED <<btTab, btSent>>
  BY <1>1, BtBefore, BtTablePointed
<1>2. CASE ~UNCHANGED <<btTab, btSent>>
  <2>1. i \in DOMAIN btTab.devices /\ btTab' = [btTab EXCEPT !.target = i]
        /\ btSent' = btTab.devices[i]
    BY <1>2 DEF BtAttempt
  <2>2. i \in 0 .. Len(btTab.devices) /\ btSent' \in BtAddrs \cup {BtNone}
    BY <2>1, BtBefore
  <2> QED BY <2>1, <2>2, BtBefore, BtTablePointed
<1> QED BY <1>1, <1>2

(* The user chooses a device.                                              *)
LEMMA BtTableConnect ==
    ASSUME BtInv, NEW i, BtConnect(i)
    PROVE  BtTableStep
<1> DEFINE m == BtMark(btTab, i)
<1>1. btPc = "rest" /\ i \in DOMAIN btTab.devices /\ btSaid' = btSaid
      /\ i \in 1 .. Len(btTab.devices) /\ i # 0
  <2>1. btPc = "rest" /\ i \in DOMAIN btTab.devices /\ btSaid' = btSaid
    BY DEF BtConnect, BtAtRest
  <2> QED BY <2>1, BtBefore
<1>2. /\ BtWhole(m) /\ m.devices = btTab.devices
      /\ m.connected = btTab.connected /\ m.target = btTab.target
      /\ m.saved = btTab.saved \cup ({i} \cap DOMAIN btTab.devices)
  BY BtBefore, BtMarkKeeps
<1>3. m \in BtTables
  BY <1>2, BtParts
<1>4. \/ /\ btTab' = [m EXCEPT !.connected = 0] /\ btSent' = btSent
         /\ btPend' = i /\ btPick' = btTab.devices[i]
      \/ /\ btTab' = [m EXCEPT !.target = i] /\ btSent' = btTab.devices[i]
         /\ UNCHANGED <<btPend, btPick>>
      \/ btTab' = m /\ UNCHANGED <<btSent, btPend, btPick>>
  BY DEF BtConnect
<1> HIDE DEF m
<1>5. BtWhole(btTab')
  <2>1. i \in 0 .. Len(m.devices) /\ 0 \in 0 .. Len(m.devices)
    BY <1>1, <1>2, BtBefore
  <2>2. \A j \in 0 .. Len(m.devices) :
           BtWhole([m EXCEPT !.connected = j]) /\ BtWhole([m EXCEPT !.target = j])
    BY <1>2, BtPointed
  <2>3. BtWhole([m EXCEPT !.connected = 0]) /\ BtWhole([m EXCEPT !.target = i])
    BY <2>1, <2>2
  <2> QED BY <1>2, <1>4, <2>3
<1>6. btTab'.devices = btTab.devices /\ btTab'.saved = m.saved
  BY <1>2, <1>3, <1>4 DEF BtTables
<1>7. \/ btTab'.target = btTab.target /\ btSent' = btSent
      \/ btTab'.target = i /\ btSent' = btTab.devices[i]
  BY <1>2, <1>3, <1>4 DEF BtTables
<1>8. btTab'.connected = btTab.connected \/ btTab'.connected = 0
  BY <1>2, <1>3, <1>4 DEF BtTables
<1>9. \/ btPend' = i /\ btPick' = btTab.devices[i]
      \/ UNCHANGED <<btPend, btPick>>
  BY <1>4
<1>10. BtIndexed' /\ BtIndicesRight'
  <2>1. btPend' \in 0 .. Len(btTab'.devices) /\ btPick' \in BtAddrs \cup {BtNone}
        /\ btSent' \in BtAddrs \cup {BtNone}
    BY <1>1, <1>6, <1>7, <1>9, BtBefore
  <2>2. btTab'.target # 0 => btTab'.devices[btTab'.target] = btSent'
    BY <1>6, <1>7, BtBefore
  <2>3. btTab'.connected # 0 => btTab'.devices[btTab'.connected] = btSaid'
    BY <1>1, <1>6, <1>8, BtBefore
  <2>4. btPick' # BtNone => btPend' # 0 /\ btTab'.devices[btPend'] = btPick'
    BY <1>1, <1>6, <1>9, BtBefore
  <2> QED BY <1>5, <2>1, <2>2, <2>3, <2>4, BtAfter
<1>11. BtSavedStep
  <2>1. BtSavedAddrs(btTab) \subseteq BtSavedAddrs(btTab')
    BY <1>2, <1>6 DEF BtSavedAddrs
  <2> QED BY <1>1, <1>6, <2>1 DEF BtSavedStep
<1> QED BY <1>10, <1>11 DEF BtTableStep

(* The user forgets a device.                                              *)
LEMMA BtTableForget ==
    ASSUME BtInv, NEW i, BtForget(i)
    PROVE  BtTableStep
<1> DEFINE w == [btTab EXCEPT !.connected = 0]
<1>1. btPc = "rest" /\ i \in DOMAIN btTab.devices /\ UNCHANGED <<btSaid, btSent>>
  BY DEF BtForget, BtAtRest
<1>2. i \in 1 .. Len(btTab.devices)
  BY <1>1, BtBefore
<1>3. PICK t \in {w, btTab} :
         /\ btTab' = BtRemove(t, i)
         /\ btPend' = 0 \/ btPend' = BtWithout(i, btPend)
         /\ btPick' = IF btPend' = 0 THEN BtNone ELSE btPick
  BY DEF BtForget, BtPendWithout
<1>4. /\ BtWhole(t) /\ t.devices = btTab.devices /\ t.saved = btTab.saved
      /\ t.target = btTab.target /\ (t.connected = btTab.connected \/ t.connected = 0)
  <2>1. BtWhole(w) /\ BtWhole(btTab) /\ btTab \in BtTables
    BY BtBefore, BtPointed
  <2> QED BY <1>3, <2>1 DEF BtTables
<1>5. /\ BtWhole(btTab') /\ BtCarried(t, btTab')
      /\ \A j \in 0 .. Len(t.devices) :
            /\ BtWithout(i, j) \in 0 .. Len(btTab'.devices)
            /\ BtWithout(i, j) # 0 =>
                  j # 0 /\ btTab'.devices[BtWithout(i, j)] = t.devices[j]
      /\ \A x \in BtSavedAddrs(t) \ BtSavedAddrs(btTab') : x \notin ToSet(btTab'.devices)
  BY <1>2, <1>3, <1>4, BtRemoveKeeps
<1>6. BtIndexed' /\ BtIndicesRight'
  <2>1. Len(btTab'.devices) \in Nat
    BY <1>5, BtParts
  <2>2. btPend' \in 0 .. Len(btTab'.devices) /\ btPick' \in BtAddrs \cup {BtNone}
        /\ btSent' \in BtAddrs \cup {BtNone}
    BY <1>1, <1>3, <1>4, <1>5, <2>1, BtBefore
  <2>3. btTab'.target # 0 => btTab'.devices[btTab'.target] = btSent'
    BY <1>1, <1>4, <1>5, BtBefore DEF BtCarried
  <2>4. btTab'.connected # 0 => btTab'.devices[btTab'.connected] = btSaid'
    BY <1>1, <1>4, <1>5, BtBefore DEF BtCarried
  <2>5. btPick' # BtNone => btPend' # 0 /\ btTab'.devices[btPend'] = btPick'
    BY <1>3, <1>4, <1>5, BtBefore
  <2> QED BY <1>5, <2>2, <2>3, <2>4, <2>5, BtAfter
<1>7. BtSavedStep
  <2>1. BtSavedAddrs(t) = BtSavedAddrs(btTab)
    BY <1>4 DEF BtSavedAddrs
  <2> QED BY <1>1, <1>5, <2>1 DEF BtSavedStep, BtCarried
<1> QED BY <1>6, <1>7 DEF BtTableStep

(* A frame that names no device.                                           *)
LEMMA BtTableFrame ==
    ASSUME BtInv, BtFrame
    PROVE  BtTableStep
<1> DEFINE c == btTab.connected
           g == btTab.target
<1>1. c \in 0 .. Len(btTab.devices) /\ g \in 0 .. Len(btTab.devices)
      /\ 0 \in 0 .. Len(btTab.devices) /\ btSent \in BtAddrs \cup {BtNone}
      /\ (g # 0 => btTab.devices[g] = btSent) /\ (c # 0 => btTab.devices[c] = btSaid)
  BY BtBefore
<1>2. CASE BtReadyFrame \/ BtScanEndFrame \/ \E ok \in BOOLEAN : BtPairedFrame(ok)
  <2>1. UNCHANGED <<btTab, btSent, btPend, btSaid, btPick>>
    BY <1>2 DEF BtReadyFrame, BtScanEndFrame, BtPairedFrame, BtWhenRunning, btPolicy
  <2> QED BY <2>1, BtTableSame
<1>3. CASE \E a \in BtAddrs : BtFoundFrame(a) \/ BtStatusFrame(a)
  BY <1>3, BtTableFound
<1>4. ASSUME NEW dropped \in BOOLEAN, BtUnlinkedFrame(dropped)
      PROVE  BtTableStep
  <2>1. btTab' = [btTab EXCEPT !.connected = 0] /\ UNCHANGED <<btSent, btPend, btPick>>
    BY <1>4 DEF BtUnlinkedFrame, BtWhenRunning, btPolicy
  <2> QED BY <1>1, <2>1, BtTablePointed
<1>5. ASSUME btTab' = [btTab EXCEPT !.connected = g],
             btSaid' = IF g = 0 THEN BtNone ELSE btSent,
             UNCHANGED <<btSent, btPend, btPick>>
      PROVE  BtTableStep
  <2>1. g # 0 => btTab.devices[g] = btSaid'
    BY <1>1, <1>5
  <2> QED BY <1>1, <1>5, <2>1, BtTablePointed
<1>6. CASE BtLinkedFrame
  <2>1. /\ btTab' = [btTab EXCEPT !.connected = g]
        /\ btSaid' = IF g = 0 THEN BtNone ELSE btSent
        /\ UNCHANGED <<btSent, btPend, btPick>>
    BY <1>6 DEF BtLinkedFrame, BtMarkConnected, BtLinkIs, BtWhenRunning, btPolicy
  <2> QED BY <1>5, <2>1
<1>7. ASSUME NEW play \in {"paused", "playing"}, BtPlayFrame(play)
      PROVE  BtTableStep
  <2>1. UNCHANGED <<btSent, btPend, btPick>>
        /\ \/ UNCHANGED <<btTab, btSaid>>
           \/ /\ btTab' = [btTab EXCEPT !.connected = g]
              /\ btSaid' = IF g = 0 THEN BtNone ELSE btSent
    BY <1>7 DEF BtPlayFrame, BtWhenRunning, btPolicy
  <2>2. CASE UNCHANGED <<btTab, btSaid>>
    BY <2>1, <2>2, BtTableSame
  <2> QED BY <1>5, <2>1, <2>2
<1> QED BY <1>2, <1>3, <1>4, <1>6, <1>7 DEF BtFrame

(* Every step.                                                             *)
LEMMA BtTableKept ==
    ASSUME BtInv, [BtNext]_btVars
    PROVE  BtTableStep
<1> USE DEF btPolicy, btHistory
<1>1. CASE UNCHANGED btVars
  BY <1>1, BtTableSame DEF btVars
<1>2. CASE BtFrame
  BY <1>2, BtTableFrame
<1>3. CASE BtReceived \/ BtPollStream \/ BtPollTimeout \/ BtPolled \/ BtStream \/ BtPlayer
  <2>1. UNCHANGED <<btTab, btSent, btPend, btSaid, btPick>>
    BY <1>3 DEF BtReceived, BtPollStream, BtPollTimeout, BtPolled, BtStream, BtPlayer
  <2> QED BY <2>1, BtTableSame
<1>4. CASE BtFollow
  BY <1>4, BtTableFollow
<1>5. ASSUME \/ UNCHANGED <<btTab, btSent, btPend, btSaid, btPick>>
             \/ BtModuleOn /\ UNCHANGED <<btPend, btPick>>
             \/ BtModuleOff /\ UNCHANGED btSent
      PROVE  BtTableStep
  BY <1>5, BtTableSame, BtTableOnOff
<1>6. CASE BtService
  BY <1>5, <1>6 DEF BtService
<1>7. CASE BtIdle
  BY <1>5, <1>7 DEF BtIdle
<1>8. ASSUME NEW on \in BOOLEAN, BtSetEnabled(on) PROVE BtTableStep
  BY <1>5, <1>8 DEF BtSetEnabled
<1>9. CASE BtScreenOpened
  BY <1>5, <1>9 DEF BtScreenOpened
<1>10. CASE BtPowerOff
  BY <1>5, <1>10 DEF BtPowerOff
<1>11. CASE BtScan
  BY <1>5, <1>11 DEF BtScan
<1>12. CASE BtSwitch
  <2>1. btSaid' = btSaid /\ btPick' = (IF btPend' = 0 THEN BtNone ELSE btPick)
        /\ (btPend' = btPend \/ btPend' = 0)
        /\ \/ UNCHANGED <<btTab, btSent>>
           \/ \E i \in {btPend, Min(btTab.saved)} : BtAttempt(i)
    BY <1>12 DEF BtSwitch
  <2>2. CASE UNCHANGED <<btTab, btSent>>
    BY <2>1, <2>2, BtBefore, BtTablePointed
  <2> QED BY <2>1, <2>2, BtTableAttempt
<1>13. CASE BtUserDisconnect
  <2>1. UNCHANGED <<btSent, btSaid>> /\ btPend' = 0 /\ btPick' = BtNone
        /\ (btTab' = btTab \/ btTab' = [btTab EXCEPT !.connected = 0])
    BY <1>13 DEF BtUserDisconnect, BtDisconnect
  <2> QED BY <2>1, BtBefore, BtTablePointed
<1>14. ASSUME NEW i \in 1 .. BtDevMax, BtConnect(i) \/ BtForget(i) PROVE BtTableStep
  BY <1>14, BtTableConnect, BtTableForget
<1> QED BY <1>1, <1>2, <1>3, <1>4, <1>6, <1>7, <1>8, <1>9, <1>10, <1>11, <1>12, <1>13, <1>14
        DEF BtNext, BtUser

-----------------------------------------------------------------------------
(* The link, step by step.                                                 *)

(* What every step keeps of the link and of what the module was told.      *)
BtLinkStep ==
    /\ btLink' \in BtLinks /\ BtAnswered' /\ BtTelling'
    /\ btTold' = "on" => btTold # "none"

(* What is known of the link before a step.                                *)
LEMMA BtLinkBefore ==
    ASSUME BtInv
    PROVE  /\ btLink \in BtLinks /\ BtAnswered /\ BtTelling
           /\ btPc \in BtPcs /\ btPaired \in BOOLEAN /\ btWasUp \in BOOLEAN
BY DEF BtInv, BtTyped

(* A link that is not up, fresh.                                           *)
LEMMA BtDown ==
    ASSUME BtInv, btLink' \in BtLinks, btLink'.state # "connected",
           ~btLink'.streaming, ~btLink'.late, ~btLink'.resend,
           btTold' = btTold \/ btTold' = "none"
    PROVE  BtLinkStep
BY DEF BtLinkStep, BtAnswered, BtTelling

(* set_state to anything but connected.                                    *)
LEMMA BtNewLinkIs ==
    ASSUME NEW state \in BtStates \ {"connected"}
    PROVE  /\ BtNewLink(state) \in BtLinks /\ BtNewLink(state).state = state
           /\ ~BtNewLink(state).streaming /\ ~BtNewLink(state).late /\ ~BtNewLink(state).resend
           /\ \A l : BtEnters(l, state) = BtNewLink(state)
BY DEF BtNewLink, BtLinks, BtEnters

(* A link that ends, or that never came up.                                *)
LEMMA BtGoesDown ==
    ASSUME BtInv, NEW state \in BtStates \ {"connected"},
           btLink' = BtEnters(btLink, state) \/ btLink' = BtNewLink(state),
           btTold' = btTold \/ btTold' = "none"
    PROVE  BtLinkStep
<1>1. btLink' = BtNewLink(state)
  BY BtNewLinkIs
<1> QED BY <1>1, BtNewLinkIs, BtDown

(* A step that leaves the link alone.                                      *)
LEMMA BtLinkSame ==
    ASSUME BtInv, btLink' = btLink, btTold' = btTold,
           btPc' \in {"receive", "poll"} \/ btPc' = btPc \/ ~btLink.resend
    PROVE  BtLinkStep
BY BtLinkBefore DEF BtLinkStep, BtAnswered, BtTelling

(* A link that comes up while frames are received, with or without a       *)
(* report of what the headphone plays.                                     *)
LEMMA BtComesUp ==
    ASSUME BtInv, btPc = "receive", btPc' = btPc,
           NEW play \in {"started", "paused", "playing"},
           \/ btLink' = BtEnters(btLink, "connected")
           \/ btLink' = [BtEnters(btLink, "connected") EXCEPT !.play = play],
           btTold' = IF btLink.state = "connected" THEN btTold ELSE "none"
    PROVE  BtLinkStep
<1> DEFINE l == [btLink EXCEPT !.state = "connected",
                     !.resend = btLink.resend \/ btLink.state # "connected"]
<1>1. btLink \in BtLinks /\ BtAnswered /\ BtTelling
  BY BtLinkBefore
<1>2. BtEnters(btLink, "connected") = l
  BY <1>1 DEF BtEnters, BtLinks
<1>3. /\ l \in BtLinks /\ l.state = "connected" /\ l.streaming = btLink.streaming
      /\ l.late = btLink.late /\ l.resend = (btLink.resend \/ btLink.state # "connected")
  BY <1>1 DEF BtLinks, BtStates
<1> HIDE DEF l
<1>4. /\ btLink' \in BtLinks /\ btLink'.state = "connected"
      /\ btLink'.streaming = btLink.streaming /\ btLink'.late = btLink.late
      /\ btLink'.resend = (btLink.resend \/ btLink.state # "connected")
  <2>1. CASE btLink' = l
    BY <1>3, <2>1
  <2>2. CASE btLink' = [l EXCEPT !.play = play]
    BY <1>3, <2>2 DEF BtLinks
  <2> QED BY <1>2, <2>1, <2>2
<1>5. CASE btLink.state = "connected"
  BY <1>1, <1>4, <1>5 DEF BtLinkStep, BtAnswered, BtTelling, BtLinks
<1>6. CASE btLink.state # "connected"
  BY <1>1, <1>4, <1>6 DEF BtLinkStep, BtAnswered, BtTelling, BtLinks
<1> QED BY <1>5, <1>6

(* A report of what the headphone plays changes only what is known of it.  *)
LEMMA BtReported ==
    ASSUME BtInv, NEW play \in {"started", "paused", "playing"}, btPc' = btPc,
           btLink' = [btLink EXCEPT !.play = play], btTold' = btTold
    PROVE  BtLinkStep
<1>1. btLink \in BtLinks /\ BtAnswered /\ BtTelling
  BY BtLinkBefore
<1>2. /\ btLink' \in BtLinks /\ btLink'.state = btLink.state
      /\ btLink'.streaming = btLink.streaming /\ btLink'.late = btLink.late
      /\ btLink'.resend = btLink.resend
  BY <1>1 DEF BtLinks
<1> QED BY <1>1, <1>2 DEF BtLinkStep, BtAnswered, BtTelling

(* Every frame.                                                            *)
LEMMA BtLinkFrame ==
    ASSUME BtInv, BtFrame
    PROVE  BtLinkStep
<1>1. btPc = "receive" /\ btPc' = btPc
  BY DEF BtFrame, BtReadyFrame, BtScanEndFrame, BtLinkedFrame, BtFoundFrame, BtStatusFrame,
         BtUnlinkedFrame, BtPairedFrame, BtPlayFrame, BtWhenRunning
<1>2. "ready" \in BtStates \ {"connected"}
  BY DEF BtStates
<1>3. CASE BtReadyFrame \/ BtScanEndFrame
  BY <1>2, <1>3, BtGoesDown DEF BtReadyFrame, BtScanEndFrame
<1>4. ASSUME NEW a \in BtAddrs, BtFoundFrame(a) PROVE BtLinkStep
  BY <1>1, <1>4, BtLinkSame DEF BtFoundFrame
<1>5. ASSUME NEW a \in BtAddrs, BtStatusFrame(a) PROVE BtLinkStep
  BY <1>1, <1>5, BtComesUp DEF BtStatusFrame, BtLinkIs
<1>6. ASSUME NEW dropped \in BOOLEAN, BtUnlinkedFrame(dropped) PROVE BtLinkStep
  <2>1. \/ btLink' = BtEnters(btLink, "ready") /\ (btTold' = btTold \/ btTold' = "none")
        \/ UNCHANGED <<btLink, btTold>>
    BY <1>6 DEF BtUnlinkedFrame, BtLinkIs
  <2> QED BY <1>1, <1>2, <2>1, BtGoesDown, BtLinkSame
<1>7. CASE BtLinkedFrame
  BY <1>1, <1>7, BtComesUp DEF BtLinkedFrame, BtMarkConnected, BtLinkIs
<1>8. ASSUME NEW ok \in BOOLEAN, BtPairedFrame(ok) PROVE BtLinkStep
  <2>1. btTold' = btTold /\ (btLink' = BtEnters(btLink, "ready") \/ btLink' = btLink)
    BY <1>8 DEF BtPairedFrame
  <2> QED BY <1>1, <1>2, <2>1, BtGoesDown, BtLinkSame
<1>9. ASSUME NEW play \in {"paused", "playing"}, BtPlayFrame(play) PROVE BtLinkStep
  <2>1. \/ /\ btLink.state # "connected" /\ btTold' = "none"
           /\ btLink' = [BtEnters(btLink, "connected") EXCEPT !.play = play]
        \/ btLink' = [btLink EXCEPT !.play = play] /\ btTold' = btTold
    BY <1>9 DEF BtPlayFrame
  <2> QED BY <1>1, <2>1, BtComesUp, BtReported
<1> QED BY <1>3, <1>4, <1>5, <1>6, <1>7, <1>8, <1>9 DEF BtFrame

(* A new link is answered, or the stream command follows its notice.       *)
LEMMA BtLinkPolled ==
    ASSUME BtInv, BtPollStream
    PROVE  BtLinkStep
<1>1. btLink \in BtLinks /\ BtAnswered /\ BtTelling /\ btPc' = btPc /\ btPc = "poll"
      /\ btLink.state = "connected"
  BY BtLinkBefore DEF BtPollStream
<1>2. CASE btLink.resend
  <2>1. btLink' = [btLink EXCEPT !.resend = FALSE] /\ btTold' = "off"
    BY <1>2 DEF BtPollStream
  <2>2. /\ btLink' \in BtLinks /\ btLink'.state = "connected" /\ ~btLink'.resend
        /\ btLink'.streaming = btLink.streaming /\ btLink'.late = btLink.late
    BY <1>1, <2>1 DEF BtLinks
  <2> QED BY <1>1, <1>2, <2>1, <2>2 DEF BtLinkStep, BtAnswered, BtTelling
<1>3. CASE ~btLink.resend
  <2>1. btLink' = [btLink EXCEPT !.late = FALSE]
        /\ btTold' = IF btLink.streaming THEN "on" ELSE "off"
    BY <1>3 DEF BtPollStream
  <2>2. /\ btLink' \in BtLinks /\ btLink'.state = "connected" /\ ~btLink'.resend
        /\ btLink'.streaming = btLink.streaming /\ ~btLink'.late
    BY <1>1, <1>3, <2>1 DEF BtLinks
  <2>3. btTold # "none"
    BY <1>1, <1>3 DEF BtAnswered
  <2> QED BY <1>1, <1>3, <2>1, <2>2, <2>3 DEF BtLinkStep, BtAnswered, BtTelling
<1> QED BY <1>2, <1>3

(* The stream follows the player.                                          *)
LEMMA BtLinkStream ==
    ASSUME BtInv, BtStream
    PROVE  BtLinkStep
<1>1. btLink \in BtLinks /\ BtAnswered /\ BtTelling /\ btPc = "stream"
  BY BtLinkBefore DEF BtStream, BtGoes
<1>2. ~btLink.resend
  BY <1>1 DEF BtAnswered
<1>3. CASE UNCHANGED <<btLink, btTold>>
  BY <1>2, <1>3, BtLinkSame
<1>4. ASSUME NEW on \in BOOLEAN, BtSetStream(on), btLink.state = "connected"
      PROVE  BtLinkStep
  <2> DEFINE notice == IF on THEN btLink.play = "paused" ELSE btLink.play = "playing"
             play == IF ~notice THEN btLink.play ELSE IF on THEN "playing" ELSE "paused"
  <2>1. /\ btLink' = [btLink EXCEPT !.streaming = on, !.late = notice, !.play = play]
        /\ btTold' = IF notice THEN btTold ELSE IF on THEN "on" ELSE "off"
    BY <1>1, <1>4 DEF BtSetStream, BtLinks
  <2>2. notice \in BOOLEAN /\ play \in {"started", "paused", "playing"}
    BY <1>1 DEF BtLinks
  <2> HIDE DEF notice, play
  <2>3. /\ btLink' \in BtLinks /\ btLink'.state = btLink.state /\ btLink'.streaming = on
        /\ btLink'.late = notice /\ btLink'.resend = btLink.resend
    BY <1>1, <1>4, <2>1, <2>2 DEF BtLinks
  <2>4. btTold # "none"
    BY <1>1, <1>2, <1>4 DEF BtAnswered
  <2>5. btTold' # "none" /\ (~notice => (on <=> btTold' = "on"))
    BY <1>4, <2>1, <2>2, <2>4
  <2> QED BY <1>2, <1>4, <2>3, <2>4, <2>5 DEF BtLinkStep, BtAnswered, BtTelling
<1>5. \/ UNCHANGED <<btLink, btTold>>
      \/ btLink.state = "connected" /\ \E on \in BOOLEAN : BtSetStream(on)
  <2>1. btWant' \in BOOLEAN \/ UNCHANGED <<btLink, btTold>>
    <3>1. btWant' = (btLink.state = "connected" /\ btPlaying)
      BY DEF BtStream
    <3> QED BY <3>1
  <2> QED BY <2>1 DEF BtStream
<1> QED BY <1>3, <1>4, <1>5

(* Switching the module on or off.                                         *)
LEMMA BtLinkOnOff ==
    ASSUME BtInv, BtModuleOn \/ BtModuleOff
    PROVE  BtLinkStep
<1>1. "starting" \in BtStates \ {"connected"} /\ "off" \in BtStates \ {"connected"}
  BY DEF BtStates
<1>2. CASE BtModuleOn
  BY <1>1, <1>2, BtGoesDown DEF BtModuleOn
<1>3. CASE BtModuleOff
  <2>1. btLink' = [BtNewLink("off") EXCEPT !.play = btLink.play] /\ btTold' = "none"
        /\ btLink.play \in {"started", "paused", "playing"}
    BY <1>3, BtLinkBefore DEF BtModuleOff, BtLinks
  <2>2. /\ btLink' \in BtLinks /\ btLink'.state = "off" /\ ~btLink'.streaming
        /\ ~btLink'.late /\ ~btLink'.resend
    BY <2>1 DEF BtNewLink, BtLinks, BtStates
  <2> QED BY <2>1, <2>2, BtDown
<1> QED BY <1>2, <1>3

(* Every step.                                                             *)
LEMMA BtLinkKept ==
    ASSUME BtInv, [BtNext]_btVars
    PROVE  BtLinkStep
<1> USE DEF btPolicy, btHistory
<1>1. CASE UNCHANGED btVars
  BY <1>1, BtLinkSame DEF btVars
<1>2. CASE BtFrame
  BY <1>2, BtLinkFrame
<1>3. CASE BtPollStream
  BY <1>3, BtLinkPolled
<1>4. CASE BtStream
  BY <1>4, BtLinkStream
<1>5. CASE BtReceived \/ BtPolled \/ BtPlayer
  <2>1. UNCHANGED <<btLink, btTold>>
        /\ (btPc' \in {"receive", "poll"} \/ btPc' = btPc \/ ~btLink.resend)
    BY <1>5 DEF BtReceived, BtPolled, BtPlayer, BtGoes, BtAtRest
  <2> QED BY <2>1, BtLinkSame
<1>6. CASE BtPollTimeout
  <2>1. \E state \in {"no_reply", "ready"} : btLink' = BtEnters(btLink, state)
    BY <1>6 DEF BtPollTimeout
  <2>2. {"no_reply", "ready"} \subseteq BtStates \ {"connected"} /\ btTold' = btTold
    BY <1>6 DEF BtStates, BtPollTimeout
  <2> QED BY <2>1, <2>2, BtGoesDown
<1>7. btPc \in {"follow", "switch", "idle", "rest"} => ~btLink.resend
  BY BtLinkBefore DEF BtAnswered
<1>8. ASSUME btPc \in {"follow", "switch", "idle", "rest"},
             \/ UNCHANGED <<btLink, btTold>>
             \/ btTold' = btTold /\ \E state \in {"ready", "scanning", "connecting"} :
                   btLink' = BtEnters(btLink, state)
             \/ BtModuleOn \/ BtModuleOff
      PROVE  BtLinkStep
  <2>1. {"ready", "scanning", "connecting"} \subseteq BtStates \ {"connected"}
    BY DEF BtStates
  <2>2. CASE btTold' = btTold /\ \E state \in {"ready", "scanning", "connecting"} :
                btLink' = BtEnters(btLink, state)
    BY <2>1, <2>2, BtGoesDown
  <2> QED BY <1>7, <1>8, <2>2, BtLinkSame, BtLinkOnOff
<1>9. CASE BtFollow
  BY <1>8, <1>9 DEF BtFollow, BtGoes
<1>10. CASE BtService
  BY <1>8, <1>10 DEF BtService
<1>11. CASE BtSwitch
  BY <1>8, <1>11 DEF BtSwitch, BtAttempt, BtGoes
<1>12. CASE BtIdle
  BY <1>8, <1>12 DEF BtIdle, BtGoes
<1>13. CASE BtUser
  <2>1. btPc = "rest"
    BY <1>13 DEF BtUser, BtAtRest, BtSetEnabled, BtScreenOpened, BtScan, BtUserDisconnect,
                 BtPowerOff, BtConnect, BtForget
  <2>2. ASSUME NEW on \in BOOLEAN, BtSetEnabled(on) PROVE BtLinkStep
    BY <1>8, <2>1, <2>2 DEF BtSetEnabled
  <2>3. CASE BtScreenOpened
    BY <1>8, <2>1, <2>3 DEF BtScreenOpened
  <2>4. CASE BtScan
    BY <1>8, <2>1, <2>4 DEF BtScan
  <2>5. CASE BtUserDisconnect
    BY <1>8, <2>1, <2>5 DEF BtUserDisconnect, BtDisconnect
  <2>6. CASE BtPowerOff
    BY <1>8, <2>1, <2>6 DEF BtPowerOff
  <2>7. ASSUME NEW i \in 1 .. BtDevMax, BtConnect(i) PROVE BtLinkStep
    BY <1>8, <2>1, <2>7 DEF BtConnect
  <2>8. ASSUME NEW i \in 1 .. BtDevMax, BtForget(i) PROVE BtLinkStep
    BY <1>8, <2>1, <2>8 DEF BtForget
  <2> QED BY <1>13, <2>2, <2>3, <2>4, <2>5, <2>6, <2>7, <2>8 DEF BtUser
<1> QED BY <1>1, <1>2, <1>3, <1>4, <1>5, <1>6, <1>9, <1>10, <1>11, <1>12, <1>13 DEF BtNext

(* The remaining types.                                                    *)
LEMMA BtRestTyped ==
    ASSUME BtInv, [BtNext]_btVars
    PROVE  btPc' \in BtPcs /\ btPaired' \in BOOLEAN /\ btWasUp' \in BOOLEAN
<1>1. btPc \in BtPcs /\ btPaired \in BOOLEAN /\ btWasUp \in BOOLEAN
  BY BtLinkBefore
<1> USE DEF btPolicy, btHistory, BtPcs
<1>2. CASE UNCHANGED btVars
  BY <1>1, <1>2 DEF btVars
<1>3. CASE BtFrame
  <2>1. UNCHANGED <<btPc, btWasUp>>
    BY <1>3 DEF BtFrame, BtReadyFrame, BtScanEndFrame, BtLinkedFrame, BtFoundFrame,
                BtStatusFrame, BtUnlinkedFrame, BtPairedFrame, BtPlayFrame, BtWhenRunning
  <2>2. btPaired' \in BOOLEAN
    BY <1>1, <1>3
       DEF BtFrame, BtReadyFrame, BtScanEndFrame, BtLinkedFrame, BtFoundFrame,
           BtStatusFrame, BtUnlinkedFrame, BtPairedFrame, BtPlayFrame, BtMarkConnected
  <2> QED BY <1>1, <2>1, <2>2
<1>4. CASE BtService
  BY <1>1, <1>4 DEF BtService, BtModuleOn
<1>5. CASE BtReceived \/ BtPollStream \/ BtPollTimeout \/ BtPolled \/ BtPlayer
  BY <1>1, <1>5 DEF BtReceived, BtPollStream, BtPollTimeout, BtPolled, BtPlayer, BtGoes, BtAtRest
<1>6. CASE BtFollow \/ BtStream
  BY <1>1, <1>6 DEF BtFollow, BtStream, BtGoes
<1>7. CASE BtSwitch
  BY <1>1, <1>7 DEF BtSwitch, BtAttempt, BtGoes
<1>8. CASE BtIdle
  BY <1>1, <1>8 DEF BtIdle, BtGoes, BtModuleOff
<1>9. CASE BtUser
  <2>1. ASSUME NEW on \in BOOLEAN, BtSetEnabled(on)
        PROVE  btPc' = btPc /\ btPaired' \in BOOLEAN /\ btWasUp' \in BOOLEAN
    BY <1>1, <2>1 DEF BtSetEnabled, BtAtRest, BtModuleOn, BtModuleOff
  <2>2. CASE BtScreenOpened \/ BtScan \/ BtPowerOff
    BY <1>1, <2>2 DEF BtScreenOpened, BtScan, BtPowerOff, BtAtRest, BtModuleOn, BtModuleOff
  <2>3. CASE BtUserDisconnect
    BY <1>1, <2>3 DEF BtUserDisconnect, BtDisconnect, BtAtRest
  <2>4. ASSUME NEW i \in 1 .. BtDevMax, BtConnect(i) \/ BtForget(i)
        PROVE  btPc' = btPc /\ btPaired' \in BOOLEAN /\ btWasUp' \in BOOLEAN
    BY <1>1, <2>4 DEF BtConnect, BtForget, BtAtRest
  <2> QED BY <1>1, <1>9, <2>1, <2>2, <2>3, <2>4 DEF BtUser
<1> QED BY <1>2, <1>3, <1>4, <1>5, <1>6, <1>7, <1>8, <1>9 DEF BtNext

-----------------------------------------------------------------------------
(* The invariant holds at start, is kept by every step, and so always.     *)
LEMMA BtInitInv == BtInit => BtInv
<1> SUFFICES ASSUME BtInit PROVE BtInv
  OBVIOUS
<1>1. PICK s \in BtStored :
         btTab = [devices |-> s, saved |-> DOMAIN s, connected |-> 0, target |-> 0]
  BY DEF BtInit
<1>2. s \in Seq(BtAddrs) /\ Len(s) <= BtDevMax /\ IsInjective(s)
  BY BtConstants
<1>3. Len(s) \in Nat /\ DOMAIN s = 1 .. Len(s)
      /\ \A j \in 1 .. Len(s), k \in 1 .. Len(s) : s[j] = s[k] => j = k
  BY <1>2, BtListIs
<1>4. BtWhole(btTab)
  <2>1. DOMAIN s \in SUBSET (1 .. Len(s)) /\ 0 \in 0 .. Len(s)
    BY <1>3
  <2> QED BY <1>1, <1>2, <1>3, <2>1, BtMade
<1>5. /\ btLink = BtNewLink("off") /\ btPaired = FALSE /\ btSent = BtNone /\ btPc = "rest"
      /\ btPend = 0 /\ btWasUp = FALSE /\ btPick = BtNone /\ btTold = "none"
  BY DEF BtInit
<1>6. "off" \in BtStates \ {"connected"}
  BY DEF BtStates
<1>7. /\ btLink \in BtLinks /\ btLink.state = "off"
      /\ ~btLink.streaming /\ ~btLink.late /\ ~btLink.resend
  BY <1>5, <1>6, BtNewLinkIs
<1>8. BtIndexed /\ BtIndicesRight
  BY <1>1, <1>4, <1>5 DEF BtIndexed, BtIndicesRight
<1>9. BtTyped
  BY <1>5, <1>7, <1>8 DEF BtTyped, BtPcs
<1>10. BtAnswered /\ BtTelling
  BY <1>7 DEF BtAnswered, BtTelling
<1> QED BY <1>8, <1>9, <1>10 DEF BtInv

(* Every step keeps it: the table, the link and the remaining types.       *)
LEMMA BtInvKept == BtInv /\ [BtNext]_btVars => BtInv'
<1> SUFFICES ASSUME BtInv, [BtNext]_btVars PROVE BtInv'
  OBVIOUS
<1>1. BtIndexed' /\ BtIndicesRight'
  BY BtTableKept DEF BtTableStep
<1>2. btLink' \in BtLinks /\ BtAnswered' /\ BtTelling'
  BY BtLinkKept DEF BtLinkStep
<1> QED BY <1>1, <1>2, BtRestTyped DEF BtInv, BtTyped

(* The inductive invariant holds in every state.                           *)
LEMMA BtInvariance == BtSpec => []BtInv
BY BtInitInv, BtInvKept, PTL DEF BtSpec

(* The types; no device is in the table twice, and no index or saved bit   *)
(* is outside it, whatever frames come in whatever order.                  *)
THEOREM BtTypes == BtSpec => []BtTypeOK
<1>1. BtInv => BtTypeOK
  <2> SUFFICES ASSUME BtInv PROVE BtTypeOK
    OBVIOUS
  <2>1. BtTyped /\ BtIndexed /\ BtWhole(btTab) /\ btTab \in BtTables
    BY BtBefore DEF BtInv, BtTyped
  <2>2. btLink.state \in BtStates
    BY <2>1 DEF BtTyped, BtLinks
  <2> QED BY <2>1, <2>2 DEF BtTyped, BtIndexed, BtWhole, BtTables, BtTypeOK
<1> QED BY <1>1, BtInvariance, PTL

(* The connected, the chosen and the pending index stay with their device  *)
(* while bt_proto.c extends, shifts, cuts and reorders the table.          *)
THEOREM BtIndicesStay == BtSpec => []BtIndicesRight
<1>1. BtInv => BtIndicesRight
  BY DEF BtInv
<1> QED BY <1>1, BtInvariance, PTL

(* A saved bit follows its entry, goes only with it, and comes only by the *)
(* user's choice or to the device that is connected.                       *)
THEOREM BtSavedStays == BtSpec => BtSavedFollows
<1>1. BtInv /\ [BtNext]_btVars =>
        [/\ \A a \in BtSavedAddrs(btTab) \ BtSavedAddrs(btTab)' :
               a \notin ToSet(btTab'.devices) /\ (btPc = "rest" \/ a = btTab.devices[1])
         /\ \A a \in BtSavedAddrs(btTab)' \ BtSavedAddrs(btTab) :
               \/ btPc = "rest" /\ btTab'.devices = btTab.devices
               \/ btPc = "follow" /\ btTab'.devices[1] = a /\ btTab'.connected = 1]_btVars
  BY BtTableKept DEF BtTableStep, BtSavedStep
<1> QED BY <1>1, BtInvariance, PTL DEF BtSpec, BtSavedFollows

(* Every new link is answered with "off" before it is told "on".           *)
THEOREM BtAnsweredFirst == BtSpec => BtOffFirst
<1>1. BtInv /\ [BtNext]_btVars => [btTold' = "on" => btTold # "none"]_btVars
  BY BtLinkKept DEF BtLinkStep
<1> QED BY <1>1, BtInvariance, PTL DEF BtSpec, BtOffFirst

(* Between passes the module was told what streaming says, but for a       *)
(* command that waits behind its notice.                                   *)
THEOREM BtToldWhatIs == BtSpec => []BtToldRight
<1>1. BtInv => BtToldRight
  BY BtLinkBefore DEF BtAnswered, BtTelling, BtToldRight
<1> QED BY <1>1, BtInvariance, PTL

-----------------------------------------------------------------------------
(* The track list.                                                         *)

PqTables ==
    [orig : Seq(PqRecords), order : Seq(PqRecords), pos : Nat,
     repeat : {"off", "all", "one"}, shuffle : BOOLEAN]

(* The one list is the other in another order.                             *)
PqReordered(s, o) ==
    /\ Len(o) = Len(s)
    /\ \E q \in Bijection(1 .. Len(s), 1 .. Len(s)) : \A i \in 1 .. Len(s) : o[i] = s[q[i]]

PqWhole(l) ==
    /\ l \in PqTables /\ PqReordered(l.orig, l.order)
    /\ l.pos \in 0 .. Len(l.order) /\ (l.pos = 0 <=> Len(l.order) = 0)

(* What the assumption says of the constants.                              *)
LEMMA PqConstants ==
    /\ PqMissing \subseteq PqRecords /\ PqBad \subseteq PqRecords
    /\ \A s \in PqLists : s \in Seq(PqRecords) /\ Len(s) \in Nat \ {0}
    /\ PqSkips \in Nat \ {0} /\ PqNone \notin PqRecords
<1>1. \A s \in PqLists : s \in Seq(PqRecords) /\ s # << >>
  BY PqAssumption
<1> QED BY <1>1, PqAssumption, EmptySeq

(* A list is a function on its positions, and the other way round.         *)
LEMMA PqListIs ==
    ASSUME NEW s \in Seq(PqRecords)
    PROVE  /\ Len(s) \in Nat /\ DOMAIN s = 1 .. Len(s) /\ s \in [1 .. Len(s) -> PqRecords]
           /\ \A j \in 1 .. Len(s) : s[j] \in PqRecords
BY LenProperties, ElementOfSeq

LEMMA PqListMade ==
    ASSUME NEW n \in Nat, NEW f \in [1 .. n -> PqRecords]
    PROVE  f \in Seq(PqRecords) /\ Len(f) = n /\ DOMAIN f = 1 .. n
BY SeqDef

(* On finitely many positions, an injection is onto.                       *)
LEMMA PqOnto ==
    ASSUME NEW n \in Nat, NEW q \in [1 .. n -> 1 .. n],
           \A j \in 1 .. n, k \in 1 .. n : q[j] = q[k] => j = k
    PROVE  q \in Bijection(1 .. n, 1 .. n)
<1>1. q \in Injection(1 .. n, 1 .. n)
  BY Fun_IsInj
<1>2. IsFiniteSet(1 .. n)
  BY FS_Interval
<1>3. q \in Surjection(1 .. n, 1 .. n)
  BY <1>1, <1>2, FS_Injection
<1> QED BY <1>1, <1>3 DEF Bijection

(* A list is itself in another order; and reordering twice is reordering.  *)
LEMMA PqReorderedItself ==
    ASSUME NEW s \in Seq(PqRecords)
    PROVE  PqReordered(s, s)
<1> DEFINE q == [i \in 1 .. Len(s) |-> i]
<1>1. Len(s) \in Nat
  BY PqListIs
<1>2. q \in Bijection(1 .. Len(s), 1 .. Len(s))
  <2>1. q \in [1 .. Len(s) -> 1 .. Len(s)]
    OBVIOUS
  <2>2. \A j \in 1 .. Len(s), k \in 1 .. Len(s) : q[j] = q[k] => j = k
    OBVIOUS
  <2> HIDE DEF q
  <2> QED BY <1>1, <2>1, <2>2, PqOnto
<1>3. \A i \in 1 .. Len(s) : s[i] = s[q[i]]
  OBVIOUS
<1> HIDE DEF q
<1> QED BY <1>2, <1>3 DEF PqReordered

LEMMA PqReorderedTwice ==
    ASSUME NEW s \in Seq(PqRecords), NEW t \in Seq(PqRecords), NEW o \in Seq(PqRecords),
           PqReordered(s, t), PqReordered(t, o)
    PROVE  PqReordered(s, o)
<1> DEFINE n == Len(s)
<1>1. Len(t) = n /\ Len(o) = n
  BY DEF PqReordered
<1>2. PICK p \in Bijection(1 .. n, 1 .. n) : \A i \in 1 .. n : t[i] = s[p[i]]
  BY DEF PqReordered
<1>3. PICK q \in Bijection(1 .. n, 1 .. n) : \A i \in 1 .. n : o[i] = t[q[i]]
  BY <1>1 DEF PqReordered
<1> DEFINE r == [i \in 1 .. n |-> p[q[i]]]
<1>4. r \in Bijection(1 .. n, 1 .. n)
  BY <1>2, <1>3, Fun_BijTransitive
<1>5. \A i \in 1 .. n : q[i] \in 1 .. n
  <2>1. q \in [1 .. n -> 1 .. n]
    BY <1>3 DEF Bijection, Injection
  <2> QED BY <2>1
<1>6. \A i \in 1 .. n : o[i] = s[r[i]]
  BY <1>2, <1>3, <1>5
<1> HIDE DEF r
<1> QED BY <1>1, <1>4, <1>6 DEF PqReordered

(* The others shuffled behind the first.                                   *)
LEMMA PqShuffledIs ==
    ASSUME NEW s \in Seq(PqRecords), Len(s) # 0, NEW o \in PqShuffled(s)
    PROVE  /\ o \in Seq(PqRecords) /\ Len(o) = Len(s) /\ o[1] = s[1]
           /\ PqReordered(s, o)
<1> DEFINE n == Len(s)
<1>1. n \in Nat /\ n # 0 /\ DOMAIN s = 1 .. n /\ \A j \in 1 .. n : s[j] \in PqRecords
  BY PqListIs
<1>2. PICK p \in [2 .. n -> 2 .. n] :
         IsInjective(p) /\ o = [i \in 1 .. n |-> IF i = 1 THEN s[1] ELSE s[p[i]]]
  BY <1>1 DEF PqShuffled
<1>3. \A j \in 2 .. n : p[j] \in 2 .. n
  BY <1>2
<1>4. \A j \in 2 .. n, k \in 2 .. n : p[j] = p[k] => j = k
  BY <1>2 DEF IsInjective
<1> HIDE DEF n
<1> DEFINE q == [i \in 1 .. n |-> IF i = 1 THEN 1 ELSE p[i]]
<1>5. \A i \in 1 .. n : i = 1 \/ i \in 2 .. n
  BY <1>1
<1>6. \A i \in 2 .. n : i # 1 /\ i \in 1 .. n
  BY <1>1
<1>7. 1 \in 1 .. n
  BY <1>1
<1>8. q \in [1 .. n -> 1 .. n]
  BY <1>3, <1>5, <1>6, <1>7
<1>9. \A i \in 1 .. n : q[i] = IF i = 1 THEN 1 ELSE p[i]
  OBVIOUS
<1> HIDE DEF q
<1>10. \A j \in 1 .. n, k \in 1 .. n : q[j] = q[k] => j = k
  BY <1>3, <1>4, <1>5, <1>6, <1>9
<1>11. q \in Bijection(1 .. n, 1 .. n)
  BY <1>1, <1>8, <1>10, PqOnto
<1>12. \A i \in 1 .. n : o[i] = s[q[i]]
  BY <1>2, <1>9
<1>13. \A i \in 1 .. n : q[i] \in 1 .. n
  BY <1>8
<1>14. o \in [1 .. n -> PqRecords]
  <2>1. \A i \in 1 .. n : (IF i = 1 THEN s[1] ELSE s[p[i]]) \in PqRecords
    BY <1>1, <1>3, <1>5, <1>6, <1>7
  <2> QED BY <1>2, <2>1
<1>15. o \in Seq(PqRecords) /\ Len(o) = n
  BY <1>1, <1>14, PqListMade
<1>16. o[1] = s[1]
  BY <1>2, <1>7
<1> QED BY <1>11, <1>12, <1>15, <1>16 DEF PqReordered, n

(* An entry exchanged with the first.                                      *)
LEMMA PqToFrontIs ==
    ASSUME NEW s \in Seq(PqRecords), NEW i \in 1 .. Len(s)
    PROVE  /\ PqToFront(s, i) \in Seq(PqRecords) /\ Len(PqToFront(s, i)) = Len(s)
           /\ PqToFront(s, i)[1] = s[i] /\ PqReordered(s, PqToFront(s, i))
<1> DEFINE n == Len(s)
           t == PqToFront(s, i)
<1>1. /\ n \in Nat /\ s \in [1 .. n -> PqRecords] /\ i \in 1 .. n /\ 1 \in 1 .. n
      /\ \A j \in 1 .. n : s[j] \in PqRecords
  BY PqListIs
<1> HIDE DEF n
<1>2. t \in [1 .. n -> PqRecords]
  BY <1>1 DEF PqToFront
<1>3. \A j \in 1 .. n : t[j] = IF j = i THEN s[1] ELSE IF j = 1 THEN s[i] ELSE s[j]
  BY <1>1 DEF PqToFront
<1> HIDE DEF t
<1> DEFINE q == [j \in 1 .. n |-> IF j = i THEN 1 ELSE IF j = 1 THEN i ELSE j]
<1>4. q \in [1 .. n -> 1 .. n]
  BY <1>1
<1>5. \A j \in 1 .. n : q[j] = IF j = i THEN 1 ELSE IF j = 1 THEN i ELSE j
  OBVIOUS
<1> HIDE DEF q
<1>6. \A j \in 1 .. n, k \in 1 .. n : q[j] = q[k] => j = k
  BY <1>5
<1>7. q \in Bijection(1 .. n, 1 .. n)
  BY <1>1, <1>4, <1>6, PqOnto
<1>8. \A j \in 1 .. n : t[j] = s[q[j]]
  BY <1>3, <1>5
<1>9. t \in Seq(PqRecords) /\ Len(t) = n
  BY <1>1, <1>2, PqListMade
<1>10. t[1] = s[i]
  BY <1>1, <1>3
<1> QED BY <1>7, <1>8, <1>9, <1>10 DEF PqReordered, n, t

(* find_val finds what is there.                                           *)
LEMMA PqFindIs ==
    ASSUME NEW s \in Seq(PqRecords), NEW i \in 1 .. Len(s)
    PROVE  PqFind(s, s[i]) \in 1 .. Len(s) /\ s[PqFind(s, s[i])] = s[i]
<1> DEFINE x == s[i]
           I == {j \in 1 .. Len(s) : s[j] = x}
<1>1. PqFind(s, x) = IF I # {} THEN Min(I) ELSE 0
  BY DEF PqFind, SelectInSeq
<1>2. Len(s) \in Nat
  BY PqListIs
<1>3. I \in SUBSET Nat /\ I # {}
  BY <1>2
<1>4. Min(I) \in I
  BY <1>3, LeastOf
<1>5. PqFind(s, x) \in I
  BY <1>1, <1>3, <1>4
<1> QED BY <1>5

(* Another order has every record as often.                                *)
LEMMA PqTimesSame ==
    ASSUME NEW s \in Seq(PqRecords), NEW o \in Seq(PqRecords), PqReordered(s, o), NEW r
    PROVE  PqTimes(r, o) = PqTimes(r, s)
<1> DEFINE n == Len(s)
           A == {i \in 1 .. n : o[i] = r}
           B == {i \in 1 .. n : s[i] = r}
<1>1. n \in Nat /\ DOMAIN s = 1 .. n /\ DOMAIN o = 1 .. n
  BY PqListIs DEF PqReordered
<1>2. PICK q \in Bijection(1 .. n, 1 .. n) : \A i \in 1 .. n : o[i] = s[q[i]]
  BY DEF PqReordered
<1>3. /\ \A i \in 1 .. n : q[i] \in 1 .. n
      /\ \A j \in 1 .. n, k \in 1 .. n : q[j] = q[k] => j = k
      /\ \A k \in 1 .. n : \E j \in 1 .. n : q[j] = k
  <2>1. /\ q \in [1 .. n -> 1 .. n] /\ IsInjective(q)
        /\ \A k \in 1 .. n : \E j \in 1 .. n : q[j] = k
    BY <1>2 DEF Bijection, Injection, Surjection
  <2>2. DOMAIN q = 1 .. n
    BY <2>1
  <2> QED BY <2>1, <2>2 DEF IsInjective
<1> DEFINE f == [i \in A |-> q[i]]
<1>4. f \in [A -> B]
  BY <1>2, <1>3
<1>5. \A j \in A, k \in A : f[j] = f[k] => j = k
  BY <1>3
<1>6. \A k \in B : \E j \in A : f[j] = k
  <2> SUFFICES ASSUME NEW k \in B PROVE \E j \in A : f[j] = k
    OBVIOUS
  <2>1. PICK j \in 1 .. n : q[j] = k
    BY <1>3
  <2>2. j \in A
    BY <1>2, <2>1
  <2> QED BY <2>1, <2>2
<1> HIDE DEF f
<1>7. f \in Bijection(A, B)
  <2> HIDE DEF A, B
  <2>1. f \in Injection(A, B)
    BY <1>4, <1>5, Fun_IsInj
  <2>2. f \in Surjection(A, B)
    BY <1>4, <1>6, Fun_IsSurj
  <2> QED BY <2>1, <2>2 DEF Bijection
<1>8. IsFiniteSet(A)
  <2>1. IsFiniteSet(1 .. n) /\ A \in SUBSET (1 .. n)
    BY <1>1, FS_Interval
  <2> HIDE DEF A
  <2> QED BY <2>1, FS_Subset
<1>9. Cardinality(A) = Cardinality(B)
  <2> HIDE DEF A, B
  <2>1. ExistsBijection(A, B)
    BY <1>7, Fun_ExistsBij
  <2> QED BY <1>8, <2>1, FS_Bijection
<1>10. PqTimes(r, o) = Cardinality(A) /\ PqTimes(r, s) = Cardinality(B)
  BY <1>1 DEF PqTimes
<1> QED BY <1>9, <1>10

-----------------------------------------------------------------------------
(* Where the list goes.                                                    *)

(* The parts of a list.                                                    *)
LEMMA PqParts ==
    ASSUME NEW l, PqWhole(l)
    PROVE  /\ l \in PqTables /\ l.orig \in Seq(PqRecords) /\ l.order \in Seq(PqRecords)
           /\ Len(l.orig) \in Nat /\ Len(l.order) = Len(l.orig)
           /\ PqReordered(l.orig, l.order)
           /\ l.pos \in 0 .. Len(l.order) /\ (l.pos = 0 <=> Len(l.order) = 0)
           /\ \A j \in 1 .. Len(l.order) : l.order[j] \in PqRecords
<1>1. l \in PqTables /\ l.orig \in Seq(PqRecords) /\ l.order \in Seq(PqRecords)
  BY DEF PqWhole, PqTables
<1>2. /\ PqReordered(l.orig, l.order)
      /\ l.pos \in 0 .. Len(l.order) /\ (l.pos = 0 <=> Len(l.order) = 0)
  BY DEF PqWhole
<1> QED BY <1>1, <1>2, PqListIs DEF PqReordered

(* Moving within the list, and choosing a mode.                            *)
LEMMA PqMoved ==
    ASSUME NEW l, PqWhole(l)
    PROVE  /\ \A p \in 1 .. Len(l.order) :
                 /\ PqWhole([l EXCEPT !.pos = p])
                 /\ PqPlays([l EXCEPT !.pos = p]) = l.order[p]
           /\ \A mode \in {"off", "all", "one"} :
                 /\ PqWhole([l EXCEPT !.repeat = mode])
                 /\ PqPlays([l EXCEPT !.repeat = mode]) = PqPlays(l)
           /\ \A on \in BOOLEAN :
                 /\ PqWhole([l EXCEPT !.shuffle = on])
                 /\ PqPlays([l EXCEPT !.shuffle = on]) = PqPlays(l)
<1>1. /\ l \in PqTables /\ Len(l.order) \in Nat /\ PqReordered(l.orig, l.order)
      /\ l.pos \in 0 .. Len(l.order) /\ (l.pos = 0 <=> Len(l.order) = 0)
  BY PqParts
<1>2. ASSUME NEW p \in 1 .. Len(l.order)
      PROVE  /\ PqWhole([l EXCEPT !.pos = p])
             /\ PqPlays([l EXCEPT !.pos = p]) = l.order[p]
  <2> DEFINE m == [l EXCEPT !.pos = p]
  <2>1. p \in Nat /\ p # 0 /\ Len(l.order) # 0 /\ p \in 0 .. Len(l.order)
    BY <1>1
  <2>2. /\ m \in PqTables /\ m.orig = l.orig /\ m.order = l.order /\ m.pos = p
    BY <1>1, <2>1 DEF PqTables
  <2> HIDE DEF m
  <2> QED BY <1>1, <2>1, <2>2 DEF PqWhole, PqPlays, m
<1>3. ASSUME NEW mode \in {"off", "all", "one"}
      PROVE  /\ PqWhole([l EXCEPT !.repeat = mode])
             /\ PqPlays([l EXCEPT !.repeat = mode]) = PqPlays(l)
  <2> DEFINE m == [l EXCEPT !.repeat = mode]
  <2>1. m \in PqTables /\ m.orig = l.orig /\ m.order = l.order /\ m.pos = l.pos
    BY <1>1 DEF PqTables
  <2> HIDE DEF m
  <2> QED BY <1>1, <2>1 DEF PqWhole, PqPlays, m
<1>4. ASSUME NEW on \in BOOLEAN
      PROVE  /\ PqWhole([l EXCEPT !.shuffle = on])
             /\ PqPlays([l EXCEPT !.shuffle = on]) = PqPlays(l)
  <2> DEFINE m == [l EXCEPT !.shuffle = on]
  <2>1. m \in PqTables /\ m.orig = l.orig /\ m.order = l.order /\ m.pos = l.pos
    BY <1>1 DEF PqTables
  <2> HIDE DEF m
  <2> QED BY <1>1, <2>1 DEF PqWhole, PqPlays, m
<1> QED BY <1>2, <1>3, <1>4

(* A list made of an order of the user's.                                  *)
LEMMA PqMade ==
    ASSUME NEW s \in Seq(PqRecords), NEW o \in Seq(PqRecords), PqReordered(s, o),
           NEW p \in 0 .. Len(o), p = 0 <=> Len(o) = 0,
           NEW mode \in {"off", "all", "one"}, NEW on \in BOOLEAN, NEW l,
           l = [orig |-> s, order |-> o, pos |-> p, repeat |-> mode, shuffle |-> on]
    PROVE  PqWhole(l) /\ l.order = o /\ PqPlays(l) = o[p]
<1>1. p \in Nat
  BY PqListIs
<1>2. l \in PqTables /\ l.order = o /\ l.orig = s /\ l.pos = p
  BY <1>1 DEF PqTables
<1> QED BY <1>2 DEF PqWhole, PqPlays

(* Forwards and backwards, the list stays on its positions.                *)
LEMMA PqNextIs ==
    ASSUME PqWhole(pqList), NEW p \in 0 .. PqCount, NEW hard \in BOOLEAN
    PROVE  PqNextPos(p, hard) \in 0 .. PqCount
<1>1. PqCount \in Nat
  BY PqParts DEF PqCount
<1> QED BY <1>1 DEF PqNextPos

LEMMA PqPrevIs ==
    ASSUME PqWhole(pqList)
    PROVE  PqPrevPos \in 0 .. PqCount
<1>1. PqCount \in Nat /\ pqList.pos \in 0 .. PqCount
  BY PqParts DEF PqCount
<1> QED BY <1>1 DEF PqPrevPos

(* A list loaded: its entry is first, or it stands at its entry.           *)
LEMMA PqLoadKeeps ==
    ASSUME PqWhole(pqList), NEW s \in PqLists, NEW start \in DOMAIN s,
           NEW l \in PqLoad(s, start)
    PROVE  PqWhole(l) /\ PqPlays(l) = s[start]
<1>1. /\ s \in Seq(PqRecords) /\ Len(s) \in Nat \ {0} /\ start \in 1 .. Len(s)
      /\ 1 \in 0 .. Len(s) /\ start \in 0 .. Len(s) /\ start # 0
  BY PqConstants, PqListIs
<1>2. pqList \in PqTables
  BY PqParts
<1>3. pqList.repeat \in {"off", "all", "one"} /\ pqList.shuffle \in BOOLEAN
  BY <1>2 DEF PqTables
<1>4. CASE pqList.shuffle
  <2>1. PICK o \in PqShuffled(PqToFront(s, start)) :
           l = [pqList EXCEPT !.orig = s, !.order = o, !.pos = 1]
    BY <1>4 DEF PqLoad
  <2> DEFINE t == PqToFront(s, start)
  <2>2. /\ t \in Seq(PqRecords) /\ Len(t) = Len(s) /\ t[1] = s[start] /\ PqReordered(s, t)
    BY <1>1, PqToFrontIs
  <2>3. /\ o \in Seq(PqRecords) /\ Len(o) = Len(s) /\ o[1] = s[start] /\ PqReordered(t, o)
    <3> HIDE DEF t
    <3>1. o \in PqShuffled(t) /\ Len(t) # 0
      BY <1>1, <2>1, <2>2 DEF t
    <3> QED BY <2>2, <3>1, PqShuffledIs
  <2> HIDE DEF t
  <2>4. PqReordered(s, o)
    BY <1>1, <2>2, <2>3, PqReorderedTwice
  <2>5. l = [orig |-> s, order |-> o, pos |-> 1, repeat |-> pqList.repeat,
             shuffle |-> pqList.shuffle]
    BY <1>2, <2>1 DEF PqTables
  <2>6. 1 \in 0 .. Len(o) /\ 1 # 0 /\ Len(o) # 0
    BY <1>1, <2>3
  <2> QED BY <1>1, <1>3, <2>3, <2>4, <2>5, <2>6, PqMade
<1>5. CASE ~pqList.shuffle
  <2>1. l = [pqList EXCEPT !.orig = s, !.order = s, !.pos = start]
    BY <1>5 DEF PqLoad
  <2>2. PqReordered(s, s)
    BY <1>1, PqReorderedItself
  <2>3. l = [orig |-> s, order |-> s, pos |-> start, repeat |-> pqList.repeat,
             shuffle |-> pqList.shuffle]
    BY <1>2, <2>1 DEF PqTables
  <2> QED BY <1>1, <1>3, <2>2, <2>3, PqMade
<1> QED BY <1>4, <1>5

(* Shuffled and back: what plays goes on playing.                          *)
LEMMA PqToggleKeeps ==
    ASSUME PqWhole(pqList), NEW l \in PqToggled
    PROVE  /\ PqWhole(l) /\ Len(l.order) = PqCount
           /\ PqCount > 0 => PqPlays(l) = PqPlays(pqList)
<1> DEFINE s == pqList.orig
           x == PqPlays(pqList)
<1>1. /\ pqList \in PqTables /\ s \in Seq(PqRecords) /\ pqList.order \in Seq(PqRecords)
      /\ Len(s) \in Nat /\ Len(pqList.order) = Len(s) /\ PqReordered(s, pqList.order)
      /\ pqList.pos \in 0 .. Len(s) /\ (pqList.pos = 0 <=> Len(s) = 0)
      /\ PqCount = Len(s)
  BY PqParts DEF PqCount
<1>2. pqList.repeat \in {"off", "all", "one"}
  BY <1>1 DEF PqTables
<1>3. CASE PqCount = 0
  <2>1. l = [pqList EXCEPT !.shuffle = ~pqList.shuffle]
    BY <1>3 DEF PqToggled
  <2>3. (~pqList.shuffle) \in BOOLEAN
    OBVIOUS
  <2>2. l.order = pqList.order
    BY <1>1, <2>1 DEF PqTables
  <2> QED BY <1>1, <1>3, <2>1, <2>2, <2>3, PqMoved
<1>4. CASE PqCount # 0
  <2> DEFINE i == PqFind(s, x)
  <2>1. i \in 1 .. Len(s) /\ s[i] = x
    <3>1. pqList.pos \in 1 .. Len(s)
      BY <1>1, <1>4
    <3>2. PICK q \in Bijection(1 .. Len(s), 1 .. Len(s)) :
             \A j \in 1 .. Len(s) : pqList.order[j] = s[q[j]]
      BY <1>1 DEF PqReordered
    <3>3. q \in [1 .. Len(s) -> 1 .. Len(s)]
      BY <3>2 DEF Bijection, Injection
    <3>4. q[pqList.pos] \in 1 .. Len(s) /\ x = s[q[pqList.pos]]
      BY <3>1, <3>2, <3>3 DEF PqPlays
    <3> QED BY <1>1, <3>4, PqFindIs
  <2>2. i \in 0 .. Len(s) /\ i # 0 /\ 1 \in 0 .. Len(s) /\ Len(s) # 0
    BY <1>1, <2>1
  <2>3. CASE pqList.shuffle
    <3>1. l = [pqList EXCEPT !.shuffle = FALSE, !.order = s, !.pos = i]
      BY <1>4, <2>3 DEF PqToggled
    <3> HIDE DEF i
    <3>2. l = [orig |-> s, order |-> s, pos |-> i, repeat |-> pqList.repeat,
               shuffle |-> l.shuffle] /\ l.shuffle \in BOOLEAN
      BY <1>1, <3>1 DEF PqTables
    <3>3. PqReordered(s, s)
      BY <1>1, PqReorderedItself
    <3> HIDE DEF s
    <3>4. PqWhole(l) /\ l.order = s /\ PqPlays(l) = s[i]
      BY <1>1, <1>2, <2>2, <3>2, <3>3, PqMade
    <3> QED BY <1>1, <2>1, <3>4
  <2>4. CASE ~pqList.shuffle
    <3> DEFINE t == PqToFront(s, i)
    <3>1. PICK o \in PqShuffled(t) :
             l = [pqList EXCEPT !.shuffle = TRUE, !.order = o, !.pos = 1]
      BY <1>4, <2>4 DEF PqToggled
    <3>2. /\ t \in Seq(PqRecords) /\ Len(t) = Len(s) /\ t[1] = x /\ PqReordered(s, t)
      <4> HIDE DEF i
      <4> QED BY <1>1, <2>1, PqToFrontIs
    <3> HIDE DEF i, t
    <3>3. /\ o \in Seq(PqRecords) /\ Len(o) = Len(s) /\ o[1] = x /\ PqReordered(t, o)
      BY <2>2, <3>1, <3>2, PqShuffledIs
    <3>4. PqReordered(s, o)
      BY <1>1, <3>2, <3>3, PqReorderedTwice
    <3>5. l = [orig |-> s, order |-> o, pos |-> 1, repeat |-> pqList.repeat,
               shuffle |-> l.shuffle] /\ l.shuffle \in BOOLEAN
      BY <1>1, <3>1 DEF PqTables
    <3> HIDE DEF s
    <3>6. PqWhole(l) /\ l.order = o /\ PqPlays(l) = o[1]
      BY <1>1, <1>2, <2>2, <3>3, <3>4, <3>5, PqMade
    <3> QED BY <1>1, <3>3, <3>6
  <2> QED BY <2>3, <2>4
<1> QED BY <1>3, <1>4

-----------------------------------------------------------------------------
(* The player over the list.                                               *)

PqTracks == PqRecords \cup {PqNone}
PqStates == {"stopped", "playing", "paused", "error"}
PqApFields ==
    [track : PqTracks, codec : PqTracks, pending : PqTracks,
     eof : BOOLEAN, restart : BOOLEAN, done : BOOLEAN]

(* With no track on display nothing is open.                               *)
PqAps ==
    {ap \in PqApFields : ap.track = PqNone => ap.codec = PqNone /\ ap.pending = PqNone}
PqBs == [track : PqTracks, eof : BOOLEAN, empty : BOOLEAN, pre : PqTracks, fell : BOOLEAN]
PqWalkOf == [on : BOOLEAN, left : 0 .. PqSkips, hard : BOOLEAN]

(* A stream is up; Core B decodes it.                                      *)
PqRunning == pqState \in {"playing", "paused"}
PqOnB == pqB.track # PqNone

(* The codec is the playing track's, or the pending one's, or none.        *)
PqCodecRight(ap) ==
    ap.codec # PqNone => ap.codec = IF ap.pending # PqNone THEN ap.pending ELSE ap.track

(* Core B decodes the track on display or waits for the restart; it is     *)
(* closed under a stream only when its start failed, and without one.      *)
PqFollows ==
    IF PqRunning
    THEN /\ pqAp.track # PqNone
         /\ PqOnB => pqAp.restart \/ pqB.track = pqAp.track
         /\ ~PqOnB => pqB.fell /\ ~pqAp.restart
    ELSE ~PqOnB

(* The end is kept as consumed only while Core B stands at it.             *)
PqNoted ==
    /\ PqRunning /\ PqOnB /\ pqAp.eof => pqB.eof
    /\ pqState = "stopped" => ~pqAp.eof

(* A restart is deferred only over the end of the track before.            *)
PqDeferral ==
    ~pqMixed =>
        /\ pqState = "stopped" => ~pqAp.restart
        /\ PqRunning /\ pqAp.restart =>
              /\ pqAp.eof /\ pqB.eof /\ pqB.track # pqAp.track
              /\ pqAp.pending = PqNone

PqStream ==
    /\ pqState \in PqStates /\ pqAp \in PqAps /\ pqB \in PqBs
    /\ PqFollows /\ PqNoted /\ PqDeferral

(* An advance at the end of a track has noted that end as long as Core B   *)
(* is open or nothing was tried; without Core B its start has failed.      *)
PqOnward ==
    pqWalk.on /\ ~pqWalk.hard =>
        /\ IF PqOnB THEN pqMixed \/ ~pqAp.restart ELSE pqB.fell /\ ~pqAp.restart
        /\ PqOnB \/ pqWalk.left = PqSkips => pqAp.eof

PqDisplay ==
    ~pqLost => PqCodecRight(pqAp) /\ (PqCount > 0 => PqPlays(pqList) = pqAp.track)

PqInv ==
    /\ PqWhole(pqList) /\ PqStream /\ PqDisplay
    /\ pqWalk \in PqWalkOf /\ PqOnward

(* What a step leaves of the stream: it is right, the track on display     *)
(* stays, and so does what is known of its codec.                          *)
PqLeaves(ap) ==
    /\ PqStream' /\ pqAp'.track = ap.track
    /\ PqCodecRight(ap) => PqCodecRight(pqAp')

(* Core B closed, freshly started, and fallen.                             *)
LEMMA PqClosedIs == PqClosed \in PqBs /\ PqClosed.track = PqNone /\ PqClosed.eof = FALSE
BY DEF PqClosed, PqBs, PqTracks

LEMMA PqFreshIs ==
    ASSUME NEW r \in PqTracks
    PROVE  PqFresh(r) \in PqBs /\ PqFresh(r).track = r /\ PqFresh(r).eof = FALSE
BY PqClosedIs DEF PqFresh, PqClosed, PqBs

LEMMA PqFallenIs ==
    ASSUME NEW e \in BOOLEAN
    PROVE  LET b == [PqClosed EXCEPT !.empty = e, !.fell = TRUE]
           IN  b \in PqBs /\ b.track = PqNone /\ b.eof = FALSE /\ b.fell
BY PqClosedIs DEF PqClosed, PqBs

(* What the AP knows, field by field.                                      *)
LEMMA PqApIs ==
    ASSUME NEW ap
    PROVE  ap \in PqAps <=>
              /\ ap \in PqApFields
              /\ ap.track = PqNone => ap.codec = PqNone /\ ap.pending = PqNone
BY DEF PqAps

LEMMA PqRecordIs ==
    ASSUME NEW r \in PqRecords
    PROVE  r \in PqTracks /\ r # PqNone /\ PqNone \in PqTracks
BY PqConstants DEF PqTracks

(* A codec opened, and not opened.                                         *)
LEMMA PqOpenedIs ==
    ASSUME NEW ap \in PqAps, NEW r \in PqRecords
    PROVE  /\ PqOpened(ap, r) \in PqAps /\ PqOpened(ap, r).track = r
           /\ PqOpened(ap, r).eof = FALSE /\ PqOpened(ap, r).restart = ap.restart
           /\ PqOpened(ap, r).pending = PqNone /\ PqCodecRight(PqOpened(ap, r))
<1> DEFINE u == PqOpened(ap, r)
<1>1. ap \in PqApFields
  BY PqApIs
<1>2. u \in PqApFields
  BY <1>1, PqRecordIs DEF PqOpened, PqApFields
<1>3. /\ u.track = r /\ u.codec = r /\ u.pending = PqNone /\ u.eof = FALSE
      /\ u.restart = ap.restart
  BY <1>1 DEF PqOpened, PqApFields
<1> HIDE DEF u
<1>4. u \in PqAps /\ PqCodecRight(u)
  BY <1>2, <1>3, PqApIs, PqRecordIs DEF PqCodecRight
<1> QED BY <1>3, <1>4 DEF u

LEMMA PqNotOpenedIs ==
    ASSUME NEW ap \in PqAps
    PROVE  /\ PqNotOpened(ap) \in PqAps /\ PqNotOpened(ap).track = ap.track
           /\ PqNotOpened(ap).eof = ap.eof /\ PqNotOpened(ap).restart = ap.restart
           /\ PqNotOpened(ap).pending = PqNone /\ PqCodecRight(PqNotOpened(ap))
<1> DEFINE u == PqNotOpened(ap)
<1>1. ap \in PqApFields /\ PqNone \in PqTracks
  BY PqApIs DEF PqTracks
<1>2. u \in PqApFields
  BY <1>1 DEF PqNotOpened, PqApFields
<1>3. /\ u.track = ap.track /\ u.codec = PqNone /\ u.pending = PqNone /\ u.eof = ap.eof
      /\ u.restart = ap.restart
  BY <1>1 DEF PqNotOpened, PqApFields
<1> HIDE DEF u
<1>4. u \in PqAps /\ PqCodecRight(u)
  BY <1>2, <1>3, PqApIs DEF PqCodecRight
<1> QED BY <1>3, <1>4 DEF u

(* The end and the restart do not matter to the codec.                     *)
LEMMA PqMarkedIs ==
    ASSUME NEW ap \in PqAps, NEW e \in BOOLEAN, NEW q \in BOOLEAN
    PROVE  LET u == [ap EXCEPT !.eof = e, !.restart = q]
           IN  /\ u \in PqAps /\ u.track = ap.track /\ u.eof = e /\ u.restart = q
               /\ u.pending = ap.pending /\ (PqCodecRight(ap) => PqCodecRight(u))
<1> DEFINE u == [ap EXCEPT !.eof = e, !.restart = q]
<1>1. ap \in PqApFields /\ (ap.track = PqNone => ap.codec = PqNone /\ ap.pending = PqNone)
  BY PqApIs
<1>2. u \in PqApFields
  BY <1>1 DEF PqApFields
<1>3. /\ u.track = ap.track /\ u.codec = ap.codec /\ u.pending = ap.pending
      /\ u.eof = e /\ u.restart = q
  BY <1>1 DEF PqApFields
<1> HIDE DEF u
<1>4. u \in PqAps
  BY <1>1, <1>2, <1>3, PqApIs
<1> QED BY <1>3, <1>4 DEF PqCodecRight, u

LEMMA PqEndMarkedIs ==
    ASSUME NEW ap \in PqAps, NEW e \in BOOLEAN
    PROVE  LET u == [ap EXCEPT !.eof = e]
           IN  /\ u \in PqAps /\ u.track = ap.track /\ u.eof = e /\ u.restart = ap.restart
               /\ u.pending = ap.pending /\ (PqCodecRight(ap) => PqCodecRight(u))
<1> DEFINE u == [ap EXCEPT !.eof = e]
<1>1. ap \in PqApFields /\ (ap.track = PqNone => ap.codec = PqNone /\ ap.pending = PqNone)
  BY PqApIs
<1>2. u \in PqApFields
  BY <1>1 DEF PqApFields
<1>3. /\ u.track = ap.track /\ u.codec = ap.codec /\ u.pending = ap.pending
      /\ u.eof = e /\ u.restart = ap.restart
  BY <1>1 DEF PqApFields
<1> HIDE DEF u
<1>4. u \in PqAps
  BY <1>1, <1>2, <1>3, PqApIs
<1> QED BY <1>3, <1>4 DEF PqCodecRight, u

(* The playing track's codec, brought back or not.                         *)
LEMMA PqRestoredIs ==
    ASSUME pqAp \in PqAps, NEW ap \in PqRestored
    PROVE  /\ ap \in PqAps /\ ap.track = pqAp.track /\ ap.restart = pqAp.restart
           /\ ap.eof => pqAp.eof
           /\ pqAp.pending = PqNone => ap = pqAp
           /\ PqCodecRight(pqAp) => PqCodecRight(ap)
<1>1. CASE pqAp.pending = PqNone
  BY <1>1 DEF PqRestored
<1>2. CASE pqAp.pending # PqNone
  <2>1. pqAp.track \in PqRecords
    BY <1>2, PqApIs DEF PqApFields, PqTracks
  <2>2. ap = PqOpened(pqAp, pqAp.track) \/ ap = PqNotOpened(pqAp)
    BY <1>2 DEF PqRestored
  <2>3. CASE ap = PqOpened(pqAp, pqAp.track)
    BY <1>2, <2>1, <2>3, PqOpenedIs
  <2>4. CASE ap = PqNotOpened(pqAp)
    BY <1>2, <2>4, PqNotOpenedIs
  <2> QED BY <2>2, <2>3, <2>4
<1> QED BY <1>1, <1>2

(* A stream that has just started, or failed to.                           *)
LEMMA PqStarted ==
    ASSUME NEW r \in PqRecords, PqStart(r), pqAp' \in PqAps, pqAp'.track = r,
           ~pqAp'.eof, ~pqMixed' => ~pqAp'.restart
    PROVE  PqStream' /\ (pqState' = "error" => pqB'.fell)
<1>1. CASE pqState' = "playing" /\ pqB' = PqFresh(r)
  <2>1. pqB' \in PqBs /\ pqB'.track = r /\ r # PqNone
    BY <1>1, PqFreshIs, PqRecordIs
  <2>2. pqState' \in PqStates /\ PqRunning'
    BY <1>1 DEF PqStates, PqRunning
  <2>3. PqFollows'
    BY <2>1, <2>2 DEF PqFollows, PqOnB
  <2>4. PqNoted' /\ PqDeferral'
    BY <1>1 DEF PqNoted, PqDeferral
  <2> QED BY <1>1, <2>1, <2>2, <2>3, <2>4 DEF PqStream
<1>2. ASSUME pqState' = "error", NEW e \in BOOLEAN,
             pqB' = [PqClosed EXCEPT !.empty = e, !.fell = TRUE]
      PROVE  PqStream' /\ pqB'.fell
  <2>1. pqB' \in PqBs /\ pqB'.track = PqNone /\ pqB'.fell
    BY <1>2, PqFallenIs
  <2>2. pqState' \in PqStates /\ ~PqRunning'
    BY <1>2 DEF PqStates, PqRunning
  <2>3. PqFollows' /\ PqNoted' /\ PqDeferral'
    BY <1>2, <2>1, <2>2 DEF PqFollows, PqOnB, PqNoted, PqDeferral
  <2> QED BY <2>1, <2>2, <2>3 DEF PqStream
<1> QED BY <1>1, <1>2 DEF PqStart

(* restart_stream and player_stop.                                         *)
LEMMA PqRestarted ==
    ASSUME NEW ap \in PqAps, ap.track # PqNone, PqRestartStream(ap)
    PROVE  PqLeaves(ap) /\ (pqState' = "error" => pqB'.fell /\ ~pqAp'.restart)
<1> DEFINE u == [ap EXCEPT !.eof = FALSE, !.restart = FALSE]
<1>1. /\ pqAp' = u
      /\ PqStart(ap.track) \/ (pqState' = "stopped" /\ pqB' = PqClosed)
  BY DEF PqRestartStream
<1>2. ap.track \in PqRecords
  BY PqApIs DEF PqApFields, PqTracks
<1>3. u \in PqAps /\ u.track = ap.track /\ ~u.eof /\ ~u.restart
      /\ (PqCodecRight(ap) => PqCodecRight(u))
  BY PqMarkedIs
<1> HIDE DEF u
<1>4. PqStream' /\ (pqState' = "error" => pqB'.fell)
  <2>1. CASE PqStart(ap.track)
    BY <1>1, <1>2, <1>3, <2>1, PqStarted
  <2>2. CASE pqState' = "stopped" /\ pqB' = PqClosed
    <3>1. pqState' \in PqStates /\ pqState' # "error" /\ ~PqRunning' /\ ~PqOnB'
      BY <2>2, PqClosedIs DEF PqStates, PqRunning, PqOnB
    <3>2. PqFollows' /\ PqNoted' /\ PqDeferral'
      BY <1>1, <1>3, <3>1 DEF PqFollows, PqNoted, PqDeferral
    <3> QED BY <1>1, <1>3, <2>2, <3>1, <3>2, PqClosedIs DEF PqStream
  <2> QED BY <1>1, <2>1, <2>2
<1> QED BY <1>1, <1>3, <1>4 DEF PqLeaves

(* The parts of a stream.                                                  *)
LEMMA PqStreamParts ==
    ASSUME PqStream
    PROVE  /\ pqAp \in PqAps /\ pqB \in PqBs /\ pqState \in PqStates
           /\ pqAp.track \in PqTracks /\ pqB.track \in PqTracks
           /\ pqAp.eof \in BOOLEAN /\ pqAp.restart \in BOOLEAN
           /\ PqRunning => pqAp.track \in PqRecords
           /\ PqFollows /\ PqNoted /\ PqDeferral
BY DEF PqStream, PqAps, PqApFields, PqBs, PqFollows, PqTracks

(* A stream that is left as it is stays right.                             *)
LEMMA PqStreamStays ==
    ASSUME PqStream, pqAp' \in PqAps, pqAp'.track = pqAp.track,
           pqAp'.restart = pqAp.restart, pqAp'.eof => pqAp.eof,
           pqAp.pending = PqNone => pqAp'.pending = PqNone /\ pqAp'.eof = pqAp.eof,
           UNCHANGED <<pqState, pqB, pqMixed>>
    PROVE  PqStream'
<1>1. PqFollows' /\ PqNoted' /\ PqDeferral'
  BY DEF PqStream, PqFollows, PqNoted, PqDeferral, PqRunning, PqOnB
<1> QED BY <1>1 DEF PqStream

LEMMA PqIsStopped ==
    ASSUME PqStream, PqStop
    PROVE  PqLeaves(pqAp)
<1>1. pqAp \in PqAps
  BY PqStreamParts
<1>2. CASE pqState = "stopped"
  <2>1. UNCHANGED <<pqState, pqAp, pqB, pqMixed>>
    BY <1>2 DEF PqStop
  <2>2. PqStream'
    BY <1>1, <2>1, PqStreamStays
  <2> QED BY <2>1, <2>2 DEF PqLeaves
<1>3. CASE pqState # "stopped"
  <2>1. PICK ap \in PqRestored : pqAp' = [ap EXCEPT !.eof = FALSE]
    BY <1>3 DEF PqStop
  <2>2. pqState' = "stopped" /\ pqB' = PqClosed /\ pqMixed' = (pqMixed \/ pqAp.restart)
    BY <1>3 DEF PqStop
  <2>3. /\ ap \in PqAps /\ ap.track = pqAp.track /\ ap.restart = pqAp.restart
        /\ PqCodecRight(pqAp) => PqCodecRight(ap)
    BY <1>1, PqRestoredIs
  <2>4. /\ pqAp' \in PqAps /\ pqAp'.track = pqAp.track /\ ~pqAp'.eof
        /\ pqAp'.restart = pqAp.restart /\ (PqCodecRight(pqAp) => PqCodecRight(pqAp'))
    BY <2>1, <2>3, PqEndMarkedIs
  <2>5. /\ pqState' \in PqStates /\ ~PqRunning' /\ pqB' \in PqBs /\ pqB'.track = PqNone
    BY <2>2, PqClosedIs DEF PqStates, PqRunning
  <2>6. PqFollows' /\ PqNoted' /\ PqDeferral'
    BY <2>2, <2>4, <2>5 DEF PqFollows, PqOnB, PqNoted, PqDeferral
  <2>7. PqStream'
    BY <2>4, <2>5, <2>6 DEF PqStream
  <2> QED BY <2>4, <2>7 DEF PqLeaves
<1> QED BY <1>2, <1>3

(* An error closes the stream.                                             *)
LEMMA PqErred ==
    ASSUME pqState' = "error", pqB' = PqClosed, pqAp' \in PqAps
    PROVE  PqStream'
<1>1. pqState' \in PqStates /\ ~PqRunning' /\ pqB' \in PqBs /\ pqB'.track = PqNone
  BY PqClosedIs DEF PqStates, PqRunning
<1>2. PqFollows' /\ PqNoted' /\ PqDeferral'
  BY <1>1 DEF PqFollows, PqOnB, PqNoted, PqDeferral
<1> QED BY <1>1, <1>2 DEF PqStream

(* advance_to, once the file is open: by hand, or at the end of the track  *)
(* that plays.                                                             *)
LEMMA PqTurned ==
    ASSUME PqStream, NEW r \in PqRecords, NEW hard \in BOOLEAN, PqTurn(r, hard),
           ~hard => IF PqOnB THEN pqAp.eof /\ (pqMixed \/ ~pqAp.restart)
                    ELSE pqB.fell /\ ~pqAp.restart
    PROVE  /\ PqStream' /\ pqAp'.track = r /\ PqCodecRight(pqAp')
           /\ pqState' = "error" => pqB'.fell /\ ~pqAp'.restart
<1> DEFINE t == PqTaken(r)
<1>1. /\ t \in PqAps /\ t.track = r /\ ~t.eof /\ t.restart = pqAp.restart
      /\ t.pending = PqNone /\ PqCodecRight(t)
  BY PqStreamParts, PqOpenedIs DEF PqTaken
<1>2. /\ pqAp \in PqAps /\ pqB \in PqBs /\ PqFollows /\ PqNoted /\ PqDeferral
      /\ pqState \in PqStates /\ r \in PqTracks /\ r # PqNone
  BY PqStreamParts, PqRecordIs
<1> HIDE DEF t
<1>3. CASE PqRestartStream(t)
  BY <1>1, <1>2, <1>3, PqRestarted DEF PqLeaves
<1>4. CASE ~hard /\ PqOnB /\ PqSame(r)
  <2>1. PqHandOver(r)
    BY <1>4 DEF PqTurn, PqOnB
  <2>2. CASE /\ pqB.pre = r
             /\ pqAp' = t /\ pqState' = "playing" /\ UNCHANGED pqMixed
             /\ pqB' = [pqB EXCEPT !.track = r, !.eof = FALSE, !.pre = PqNone]
    <3>1. pqB' \in PqBs /\ pqB'.track = r
      BY <1>2, <2>2, PqRecordIs DEF PqBs
    <3>2. pqState' \in PqStates /\ pqState' = "playing" /\ PqRunning'
      BY <2>2 DEF PqStates, PqRunning
    <3>3. PqFollows' /\ PqNoted'
      BY <1>1, <1>2, <2>2, <3>1, <3>2 DEF PqFollows, PqOnB, PqNoted
    <3>4. PqDeferral'
      BY <1>1, <1>4, <2>2, <3>2 DEF PqDeferral
    <3> QED BY <1>1, <2>2, <3>1, <3>2, <3>3, <3>4 DEF PqStream
  <2> QED BY <1>3, <2>1, <2>2 DEF PqHandOver, t
<1>5. CASE ~hard /\ PqOnB /\ ~PqSame(r)
  <2>1. pqAp' = PqDeferred(r) /\ UNCHANGED <<pqState, pqB, pqMixed>>
    BY <1>5 DEF PqTurn, PqOnB
  <2> DEFINE u == [t EXCEPT !.eof = TRUE, !.restart = TRUE]
  <2>2. u = PqDeferred(r)
    <3>1. PqDeferred(r) = [t EXCEPT !.restart = TRUE, !.eof = TRUE]
      BY DEF PqDeferred, t
    <3>2. t \in PqApFields
      BY <1>1, PqApIs
    <3> QED BY <3>1, <3>2 DEF PqApFields
  <2>3. /\ u \in PqAps /\ u.track = r /\ u.eof /\ u.restart /\ u.pending = PqNone
        /\ PqCodecRight(u)
    BY <1>1, PqMarkedIs
  <2> HIDE DEF u
  <2>4. r # pqAp.track
    BY <1>5 DEF PqSame
  <2>5. PqRunning /\ PqRunning' /\ PqOnB' /\ pqState # "error" /\ pqState # "stopped"
    BY <1>2, <1>5, <2>1 DEF PqFollows, PqRunning, PqOnB
  <2>6. pqB.eof /\ (~pqMixed => pqB.track # r)
    BY <1>2, <1>5, <2>4, <2>5 DEF PqNoted, PqFollows
  <2>7. PqFollows' /\ PqNoted'
    BY <1>2, <2>1, <2>2, <2>3, <2>5, <2>6 DEF PqFollows, PqNoted
  <2>8. PqDeferral'
    BY <2>1, <2>2, <2>3, <2>5, <2>6 DEF PqDeferral
  <2> QED BY <1>2, <2>1, <2>2, <2>3, <2>5, <2>7, <2>8 DEF PqStream
<1>6. CASE ~hard /\ ~PqOnB /\ PqSame(r)
  <2>1. pqAp' = t /\ pqState' = "playing" /\ UNCHANGED <<pqB, pqMixed>>
    BY <1>6 DEF PqTurn, PqJoin, PqOnB, t
  <2>2. pqState' \in PqStates /\ PqRunning' /\ ~PqOnB'
    BY <1>6, <2>1 DEF PqStates, PqRunning, PqOnB
  <2>3. PqFollows' /\ PqNoted' /\ PqDeferral'
    BY <1>1, <1>2, <1>6, <2>1, <2>2 DEF PqFollows, PqNoted, PqDeferral
  <2> QED BY <1>1, <1>2, <2>1, <2>2, <2>3 DEF PqStream
<1>7. CASE hard \/ (~PqOnB /\ ~PqSame(r))
  <2>1. PqRestartStream(t)
    BY <1>7 DEF PqTurn, PqOnB, t
  <2> QED BY <1>3, <2>1
<1> QED BY <1>4, <1>5, <1>6, <1>7

-----------------------------------------------------------------------------
(* The steps.                                                              *)

(* What the invariant says before a step.                                  *)
LEMMA PqBefore ==
    ASSUME PqInv
    PROVE  /\ PqWhole(pqList) /\ PqStream /\ PqCount \in Nat
           /\ pqList.pos \in 0 .. PqCount /\ (pqList.pos = 0 <=> PqCount = 0)
           /\ \A p \in 1 .. PqCount : pqList.order[p] \in PqRecords
           /\ ~pqLost => PqCodecRight(pqAp)
           /\ ~pqLost /\ PqCount > 0 => PqPlays(pqList) = pqAp.track
           /\ pqWalk \in PqWalkOf /\ PqOnward
<1>1. PqWhole(pqList) /\ PqStream /\ PqDisplay /\ pqWalk \in PqWalkOf /\ PqOnward
  BY DEF PqInv
<1>2. /\ PqCount \in Nat /\ pqList.pos \in 0 .. PqCount /\ (pqList.pos = 0 <=> PqCount = 0)
      /\ \A p \in 1 .. PqCount : pqList.order[p] \in PqRecords
  BY <1>1, PqParts DEF PqCount
<1> QED BY <1>1, <1>2 DEF PqDisplay

(* No advance is under way, or it starts, or it ends.                      *)
LEMMA PqNoWalkIs == PqNoWalk \in PqWalkOf /\ ~PqNoWalk.on
<1>1. 0 \in 0 .. PqSkips
  BY PqConstants
<1> QED BY <1>1 DEF PqNoWalk, PqWalkOf

LEMMA PqAdvanceIs ==
    ASSUME NEW hard \in BOOLEAN, PqAdvance(hard)
    PROVE  /\ pqWalk' \in PqWalkOf /\ pqWalk'.on /\ pqWalk'.hard = hard
           /\ pqWalk'.left = PqSkips
<1>1. PqSkips \in 0 .. PqSkips
  BY PqConstants
<1> QED BY <1>1 DEF PqAdvance, PqWalkOf

(* A list that stays, and a track and a codec that stay right.             *)
LEMMA PqSameDisplay ==
    ASSUME PqInv, UNCHANGED pqList,
           ~pqLost' => ~pqLost /\ PqCodecRight(pqAp') /\ pqAp'.track = pqAp.track
    PROVE  PqWhole(pqList') /\ PqDisplay'
<1>1. PqWhole(pqList') /\ PqCount' = PqCount /\ PqPlays(pqList') = PqPlays(pqList)
  BY PqBefore DEF PqCount
<1>2. PqDisplay'
  BY <1>1, PqBefore DEF PqDisplay
<1> QED BY <1>1, <1>2

LEMMA PqSameList ==
    ASSUME PqInv, UNCHANGED <<pqList, pqWalk>>, ~pqWalk.on, PqStream',
           ~pqLost' => ~pqLost /\ PqCodecRight(pqAp') /\ pqAp'.track = pqAp.track
    PROVE  PqInv'
<1>1. PqOnward' /\ pqWalk' \in PqWalkOf
  BY PqBefore DEF PqOnward
<1>2. PqWhole(pqList') /\ PqDisplay'
  BY PqSameDisplay
<1> QED BY <1>1, <1>2 DEF PqInv

(* A new place in the list, and its track.                                 *)
LEMMA PqNewTrack ==
    ASSUME PqInv, PqWhole(pqList'), PqStream', pqWalk' \in PqWalkOf, PqOnward',
           ~pqLost' => /\ PqCodecRight(pqAp')
                       /\ PqCount' > 0 => PqPlays(pqList') = pqAp'.track
    PROVE  PqInv'
BY DEF PqInv, PqDisplay

(* advance_to: the track takes over, or the file does not open and the     *)
(* stream goes on.                                                         *)
LEMMA PqAdvanced ==
    ASSUME PqStream, NEW r \in PqRecords, NEW hard \in BOOLEAN, PqAdvanceTo(r, hard),
           ~hard => IF PqOnB THEN pqAp.eof /\ (pqMixed \/ ~pqAp.restart)
                    ELSE pqB.fell /\ ~pqAp.restart
    PROVE  /\ PqStream' /\ pqLost' \in BOOLEAN
           /\ ~pqLost' => /\ pqAp'.track = r /\ PqCodecRight(pqAp')
                          /\ pqState' = "error" => pqB'.fell /\ ~pqAp'.restart
           /\ pqLost' => /\ UNCHANGED <<pqState, pqB, pqMixed>>
                         /\ pqAp'.eof = pqAp.eof /\ pqAp'.restart = pqAp.restart
<1>1. pqAp \in PqAps
  BY PqStreamParts
<1>2. CASE PqTurn(r, hard) /\ pqLost' = FALSE
  BY <1>2, PqTurned
<1>3. CASE pqAp' = PqNotOpened(pqAp) /\ pqLost' = TRUE /\ UNCHANGED <<pqState, pqB, pqMixed>>
  <2>1. /\ pqAp' \in PqAps /\ pqAp'.track = pqAp.track /\ pqAp'.eof = pqAp.eof
        /\ pqAp'.restart = pqAp.restart /\ pqAp'.pending = PqNone
    BY <1>1, <1>3, PqNotOpenedIs
  <2>2. PqStream'
    BY <1>3, <2>1, PqStreamStays
  <2> QED BY <1>3, <2>1, <2>2
<1> QED BY <1>2, <1>3 DEF PqAdvanceTo

(* advance_playlist: one entry.                                            *)
LEMMA PqTryKeeps ==
    ASSUME PqInv, pqWalk.on, PqTry
    PROVE  PqInv'
<1> DEFINE p == PqNextPos(pqList.pos, pqWalk.hard)
           r == pqList.order[p]
<1>1. /\ pqWalk.left > 0 /\ p # 0 /\ pqList' = [pqList EXCEPT !.pos = p]
      /\ \/ pqLost' = TRUE /\ UNCHANGED <<pqState, pqAp, pqB, pqMixed>>
         \/ PqAdvanceTo(r, pqWalk.hard)
      /\ pqWalk' = IF pqLost' \/ pqState' = "error"
                   THEN [pqWalk EXCEPT !.left = pqWalk.left - 1] ELSE PqNoWalk
  BY DEF PqTry
<1>2. /\ PqWhole(pqList) /\ PqStream /\ PqOnward /\ pqWalk \in PqWalkOf
      /\ pqWalk.hard \in BOOLEAN /\ pqWalk.left \in 0 .. PqSkips
      /\ pqAp.eof \in BOOLEAN
  BY PqBefore, PqStreamParts DEF PqWalkOf
<1>3. p \in 1 .. PqCount
  <2>1. p \in 0 .. PqCount
    BY <1>2, PqBefore, PqNextIs
  <2> HIDE DEF p
  <2> QED BY <1>1, <2>1, PqBefore
<1> HIDE DEF p
<1>4. PqWhole(pqList') /\ PqPlays(pqList') = r
  <2>1. PqWhole([pqList EXCEPT !.pos = p]) /\ PqPlays([pqList EXCEPT !.pos = p]) = r
    <3>1. PqCount # 0 /\ PqCount = Len(pqList.order) /\ PqCount \in Nat
      BY <1>2, <1>3, PqParts DEF PqCount
    <3>2. \A q \in 1 .. Len(pqList.order) :
             /\ PqWhole([pqList EXCEPT !.pos = q])
             /\ PqPlays([pqList EXCEPT !.pos = q]) = pqList.order[q]
      BY <1>2, PqMoved
    <3> QED BY <1>3, <3>1, <3>2
  <2> QED BY <1>1, <2>1
<1>5. r \in PqRecords
  BY <1>3, PqBefore
<1> HIDE DEF r
<1>6. ~pqWalk.hard => IF PqOnB THEN pqAp.eof /\ (pqMixed \/ ~pqAp.restart)
                      ELSE pqB.fell /\ ~pqAp.restart
  BY <1>2 DEF PqOnward
<1>7. /\ PqStream' /\ pqLost' \in BOOLEAN
      /\ ~pqLost' => /\ pqAp'.track = r /\ PqCodecRight(pqAp')
                     /\ pqState' = "error" => pqB'.fell /\ ~pqAp'.restart
      /\ pqLost' => /\ UNCHANGED <<pqState, pqB, pqMixed>>
                    /\ pqAp'.eof = pqAp.eof /\ pqAp'.restart = pqAp.restart
  <2>1. CASE pqLost' = TRUE /\ UNCHANGED <<pqState, pqAp, pqB, pqMixed>>
    <3>1. PqStream'
      BY <1>2, <2>1, PqStreamParts, PqStreamStays
    <3> QED BY <2>1, <3>1
  <2>2. CASE PqAdvanceTo(r, pqWalk.hard)
    BY <1>2, <1>5, <1>6, <2>2, PqAdvanced
  <2> QED BY <1>1, <2>1, <2>2
<1>8. pqWalk' \in PqWalkOf /\ PqOnward'
  <2> DEFINE w == [pqWalk EXCEPT !.left = pqWalk.left - 1]
  <2>1. w \in PqWalkOf /\ w.hard = pqWalk.hard /\ w.left # PqSkips
    <3>1. PqSkips \in Nat /\ pqWalk.left - 1 \in 0 .. PqSkips /\ pqWalk.left - 1 # PqSkips
      BY <1>1, <1>2, PqConstants
    <3> QED BY <1>2, <3>1 DEF PqWalkOf
  <2> HIDE DEF w
  <2>2. CASE pqWalk' = PqNoWalk
    BY <2>2, PqNoWalkIs DEF PqOnward
  <2>3. CASE pqWalk' = w /\ pqLost'
    BY <1>2, <1>7, <2>1, <2>3 DEF PqOnward, PqOnB
  <2>4. CASE pqWalk' = w /\ ~pqLost' /\ pqState' = "error"
    <3>1. ~PqOnB' /\ pqB'.fell /\ ~pqAp'.restart
      BY <1>7, <2>4, PqStreamParts DEF PqStream, PqFollows, PqRunning
    <3> QED BY <2>1, <2>4, <3>1 DEF PqOnward
  <2> QED BY <1>1, <1>7, <2>2, <2>3, <2>4 DEF w
<1> QED BY <1>4, <1>7, <1>8, PqNewTrack

(* The list ends, or the tries.                                            *)
LEMMA PqGiveUpKeeps ==
    ASSUME PqInv, PqGiveUp
    PROVE  PqInv'
<1>1. PqStop /\ pqWalk' = PqNoWalk /\ UNCHANGED <<pqList, pqLost>>
  BY DEF PqGiveUp
<1>2. PqStream'  /\ pqAp'.track = pqAp.track /\ (PqCodecRight(pqAp) => PqCodecRight(pqAp'))
  BY <1>1, PqBefore, PqIsStopped DEF PqLeaves
<1>3. PqWhole(pqList') /\ PqDisplay'
  BY <1>1, <1>2, PqBefore, PqSameDisplay
<1>4. pqWalk' \in PqWalkOf /\ PqOnward'
  BY <1>1, PqNoWalkIs DEF PqOnward
<1> QED BY <1>2, <1>3, <1>4 DEF PqInv

(* At the end of the track that plays, no restart is deferred.             *)
LEMMA PqAtEnd ==
    ASSUME PqInv, PqPlaying, PqEnds
    PROVE  /\ pqMixed \/ ~pqAp.restart
           /\ PqOnB => pqB.eof
           /\ ~PqOnB => pqB.fell /\ ~pqAp.restart
<1>1. PqRunning /\ PqDeferral /\ PqFollows
  BY PqBefore, PqStreamParts DEF PqPlaying, PqRunning
<1> QED BY <1>1 DEF PqEnds, PqDeferral, PqFollows, PqOnB

(* The end is noted.                                                       *)
LEMMA PqEofNotedIs ==
    ASSUME PqInv, PqPlaying, PqEofNoted, PqOnB => pqB.eof, UNCHANGED <<pqState, pqB, pqMixed>>
    PROVE  /\ PqStream' /\ pqAp'.track = pqAp.track /\ pqAp'.eof
           /\ pqAp'.restart = pqAp.restart /\ (PqCodecRight(pqAp) => PqCodecRight(pqAp'))
<1>1. PqStream /\ pqAp \in PqAps
  BY PqBefore, PqStreamParts
<1>2. /\ pqAp' \in PqAps /\ pqAp'.track = pqAp.track /\ pqAp'.eof
      /\ pqAp'.restart = pqAp.restart /\ pqAp'.pending = pqAp.pending
      /\ PqCodecRight(pqAp) => PqCodecRight(pqAp')
  BY <1>1, PqEndMarkedIs DEF PqEofNoted
<1>3. PqFollows' /\ PqNoted' /\ PqDeferral'
  BY <1>1, <1>2 DEF PqStream, PqFollows, PqNoted, PqDeferral, PqRunning, PqOnB, PqPlaying
<1> QED BY <1>1, <1>2, <1>3 DEF PqStream

(* An advance begins at that end.                                          *)
LEMMA PqAdvanceKeeps ==
    ASSUME PqInv, PqPlaying, PqEofNoted, PqAdvance(FALSE), pqMixed \/ ~pqAp.restart,
           PqOnB => pqB.eof, UNCHANGED <<pqList, pqState, pqB, pqLost, pqMixed>>
    PROVE  PqInv'
<1>1. /\ PqStream' /\ pqAp'.track = pqAp.track /\ pqAp'.eof
      /\ pqAp'.restart = pqAp.restart /\ (PqCodecRight(pqAp) => PqCodecRight(pqAp'))
  BY PqEofNotedIs
<1>2. PqWhole(pqList') /\ PqDisplay'
  BY <1>1, PqBefore, PqSameDisplay
<1>3. /\ pqWalk' \in PqWalkOf /\ pqWalk'.on /\ pqWalk'.hard = FALSE
  BY PqAdvanceIs
<1>4. PqFollows /\ PqRunning
  BY PqBefore, PqStreamParts DEF PqPlaying, PqRunning
<1>5. PqOnward'
  BY <1>1, <1>4 DEF PqOnward, PqFollows, PqOnB
<1> QED BY <1>1, <1>2, <1>3, <1>5 DEF PqInv

(* player_process at a boundary, and with the ring drained.                *)
LEMMA PqBoundaryKeeps ==
    ASSUME PqInv, PqBoundary
    PROVE  PqInv'
<1>1. /\ PqPlaying /\ PqEnds /\ PqEofNoted /\ PqAdvance(FALSE)
      /\ UNCHANGED <<pqList, pqState, pqB, pqLost, pqMixed>>
  BY DEF PqBoundary
<1> QED BY <1>1, PqAtEnd, PqAdvanceKeeps

LEMMA PqDrainedKeeps ==
    ASSUME PqInv, ~pqWalk.on, PqDrained
    PROVE  PqInv'
<1>1. /\ PqPlaying /\ (pqAp.eof \/ pqAp.restart \/ PqEnds) /\ UNCHANGED pqList
      /\ IF pqAp.restart THEN PqRestartStream(pqAp) /\ UNCHANGED <<pqWalk, pqLost>>
         ELSE IF PqCount > 0
         THEN PqEofNoted /\ PqAdvance(FALSE) /\ UNCHANGED <<pqState, pqB, pqLost, pqMixed>>
         ELSE PqStop /\ UNCHANGED <<pqWalk, pqLost>>
  BY DEF PqDrained
<1>2. /\ pqAp \in PqAps /\ PqStream /\ (~pqLost => PqCodecRight(pqAp))
      /\ PqRunning /\ pqAp.track \in PqRecords /\ PqNoted
  BY <1>1, PqBefore, PqStreamParts DEF PqPlaying, PqRunning
<1>3. CASE pqAp.restart
  <2>1. PqLeaves(pqAp)
    BY <1>1, <1>2, <1>3, PqRecordIs, PqRestarted
  <2> QED BY <1>1, <1>2, <1>3, <2>1, PqSameList DEF PqLeaves
<1>4. CASE ~pqAp.restart /\ PqCount > 0
  <2>1. PqOnB => pqB.eof
    BY <1>1, <1>2, <1>4 DEF PqNoted, PqEnds, PqOnB
  <2> QED BY <1>1, <1>4, <2>1, PqAdvanceKeeps
<1>5. CASE ~pqAp.restart /\ ~(PqCount > 0)
  <2>1. PqLeaves(pqAp)
    BY <1>1, <1>2, <1>5, PqIsStopped
  <2> QED BY <1>1, <1>2, <1>5, <2>1, PqSameList DEF PqLeaves
<1> QED BY <1>3, <1>4, <1>5

(* The next codec opened, or not: the track on display stays.              *)
LEMMA PqPreopenedIs ==
    ASSUME pqAp \in PqAps, pqAp.track # PqNone, NEW r \in PqRecords, NEW ap \in PqPreopened(r)
    PROVE  /\ ap \in PqAps /\ ap.track = pqAp.track /\ ap.eof = pqAp.eof
           /\ ap.restart = pqAp.restart /\ PqCodecRight(ap)
<1>1. pqAp \in PqApFields /\ r \in PqTracks /\ r # PqNone /\ PqNone \in PqTracks
      /\ pqAp.track \in PqTracks
  BY PqApIs, PqRecordIs DEF PqApFields
<1>2. PICK c \in {r, PqNone, pqAp.track}, d \in {r, PqNone} :
         /\ ap = [pqAp EXCEPT !.codec = c, !.pending = d]
         /\ \/ c = r /\ d = r
            \/ c \in {PqNone, pqAp.track} /\ d = PqNone
  <2>1. CASE ap = [pqAp EXCEPT !.codec = r, !.pending = r]
    BY <2>1
  <2>2. ASSUME NEW back \in BOOLEAN,
               ap = [pqAp EXCEPT !.codec = IF back THEN pqAp.track ELSE PqNone,
                                 !.pending = PqNone]
        PROVE  \E c \in {PqNone, pqAp.track} : ap = [pqAp EXCEPT !.codec = c, !.pending = PqNone]
    BY <2>2
  <2>3. PqOpens(pqAp.track) \subseteq BOOLEAN
    BY DEF PqOpens
  <2>4. \/ ap = [pqAp EXCEPT !.codec = r, !.pending = r]
        \/ \E back \in PqOpens(pqAp.track) :
              ap = [pqAp EXCEPT !.codec = IF back THEN pqAp.track ELSE PqNone,
                                !.pending = PqNone]
    BY Zenon DEF PqPreopened
  <2>5. CASE \E back \in PqOpens(pqAp.track) :
                ap = [pqAp EXCEPT !.codec = IF back THEN pqAp.track ELSE PqNone,
                                  !.pending = PqNone]
    <3>1. \E c \in {PqNone, pqAp.track} : ap = [pqAp EXCEPT !.codec = c, !.pending = PqNone]
      BY <2>2, <2>3, <2>5
    <3> QED BY <3>1
  <2> QED BY <2>1, <2>4, <2>5
<1>3. ap \in PqApFields
  BY <1>1, <1>2 DEF PqApFields
<1>4. /\ ap.track = pqAp.track /\ ap.codec = c /\ ap.pending = d /\ ap.eof = pqAp.eof
      /\ ap.restart = pqAp.restart
  BY <1>1, <1>2 DEF PqApFields
<1> QED BY <1>1, <1>2, <1>3, <1>4, PqApIs DEF PqCodecRight

LEMMA PqDoneIs ==
    ASSUME NEW ap \in PqAps
    PROVE  LET u == [ap EXCEPT !.done = TRUE]
           IN  /\ u \in PqAps /\ u.track = ap.track /\ u.eof = ap.eof
               /\ u.restart = ap.restart /\ u.pending = ap.pending
               /\ PqCodecRight(ap) => PqCodecRight(u)
<1> DEFINE u == [ap EXCEPT !.done = TRUE]
<1>1. ap \in PqApFields /\ (ap.track = PqNone => ap.codec = PqNone /\ ap.pending = PqNone)
  BY PqApIs
<1>2. u \in PqApFields
  BY <1>1 DEF PqApFields
<1>3. /\ u.track = ap.track /\ u.codec = ap.codec /\ u.pending = ap.pending
      /\ u.eof = ap.eof /\ u.restart = ap.restart
  BY <1>1 DEF PqApFields
<1> HIDE DEF u
<1>4. u \in PqAps
  BY <1>1, <1>2, <1>3, PqApIs
<1> QED BY <1>3, <1>4 DEF PqCodecRight, u

LEMMA PqPreopenKeeps ==
    ASSUME PqInv, ~pqWalk.on, PqPreopen
    PROVE  PqInv'
<1> DEFINE p == PqNextPos(pqList.pos, FALSE)
           r == pqList.order[p]
<1>1. /\ pqAp \in PqAps /\ pqB \in PqBs /\ PqStream /\ PqWhole(pqList) /\ PqRunning
      /\ pqAp.track # PqNone /\ (~pqLost => PqCodecRight(pqAp)) /\ ~pqAp.eof
      /\ UNCHANGED <<pqList, pqState, pqWalk, pqLost, pqMixed>>
  BY PqBefore, PqStreamParts DEF PqPreopen, PqFollows, PqPlaying, PqRunning
<1>2. \/ pqAp' = [pqAp EXCEPT !.done = TRUE] /\ UNCHANGED pqB
      \/ /\ p # 0 /\ \E ap \in PqPreopened(r) : pqAp' = [ap EXCEPT !.done = TRUE]
         /\ pqB' = [pqB EXCEPT !.pre = r] \/ pqB' = [pqB EXCEPT !.pre = PqNone]
  BY DEF PqPreopen
<1>3. ASSUME p # 0 PROVE r \in PqRecords
  <2>1. p \in 0 .. PqCount
    BY <1>1, PqBefore, PqNextIs
  <2> HIDE DEF p
  <2>2. p \in 1 .. PqCount
    BY <1>3, <2>1, PqBefore
  <2> QED BY <2>2, PqBefore
<1> HIDE DEF p, r
<1>4. /\ pqAp' \in PqAps /\ pqAp'.track = pqAp.track /\ ~pqAp'.eof
      /\ pqAp'.restart = pqAp.restart /\ (~pqLost => PqCodecRight(pqAp'))
  <2>1. CASE pqAp' = [pqAp EXCEPT !.done = TRUE]
    BY <1>1, <2>1, PqDoneIs
  <2>2. ASSUME p # 0, NEW ap \in PqPreopened(r), pqAp' = [ap EXCEPT !.done = TRUE]
        PROVE  /\ pqAp' \in PqAps /\ pqAp'.track = pqAp.track /\ ~pqAp'.eof
               /\ pqAp'.restart = pqAp.restart /\ PqCodecRight(pqAp')
    <3>1. /\ ap \in PqAps /\ ap.track = pqAp.track /\ ap.eof = pqAp.eof
          /\ ap.restart = pqAp.restart /\ PqCodecRight(ap)
      BY <1>1, <1>3, <2>2, PqPreopenedIs
    <3> QED BY <1>1, <2>2, <3>1, PqDoneIs
  <2> QED BY <1>2, <2>1, <2>2
<1>5. pqB' \in PqBs /\ pqB'.track = pqB.track /\ pqB'.eof = pqB.eof /\ pqB'.fell = pqB.fell
  <2>1. CASE UNCHANGED pqB
    BY <1>1, <2>1
  <2>2. CASE p # 0 /\ pqB' = [pqB EXCEPT !.pre = r]
    BY <1>1, <1>3, <2>2, PqRecordIs DEF PqBs
  <2>3. CASE pqB' = [pqB EXCEPT !.pre = PqNone]
    <3>1. PqNone \in PqTracks
      BY DEF PqTracks
    <3> QED BY <1>1, <2>3, <3>1 DEF PqBs
  <2> QED BY <1>2, <2>1, <2>2, <2>3
<1>6. PqStream'
  <2>1. PqFollows' /\ PqNoted' /\ PqDeferral'
    BY <1>1, <1>4, <1>5 DEF PqStream, PqFollows, PqNoted, PqDeferral, PqRunning, PqOnB
  <2> QED BY <1>1, <1>4, <1>5, <2>1 DEF PqStream
<1> QED BY <1>1, <1>4, <1>6, PqSameList

(* The last end, and an error of the decoder.                              *)
LEMMA PqLastEndsKeeps ==
    ASSUME PqInv, ~pqWalk.on, PqLastEnds
    PROVE  PqInv'
<1>1. /\ PqPlaying /\ PqEnds /\ PqEofNoted
      /\ UNCHANGED <<pqList, pqState, pqB, pqWalk, pqLost, pqMixed>>
  BY DEF PqLastEnds
<1>2. /\ PqStream' /\ pqAp'.track = pqAp.track
      /\ PqCodecRight(pqAp) => PqCodecRight(pqAp')
  BY <1>1, PqAtEnd, PqEofNotedIs
<1> QED BY <1>1, <1>2, PqBefore, PqSameList

LEMMA PqFailsKeeps ==
    ASSUME PqInv, ~pqWalk.on, PqFails
    PROVE  PqInv'
<1>1. /\ pqState' = "error" /\ pqB' = PqClosed
      /\ UNCHANGED <<pqList, pqAp, pqWalk, pqLost, pqMixed>>
      /\ pqAp \in PqAps /\ (~pqLost => PqCodecRight(pqAp))
  BY PqBefore, PqStreamParts DEF PqFails
<1>2. PqStream'
  BY <1>1, PqErred
<1> QED BY <1>1, <1>2, PqSameList

(* The user's calls on the stream.                                         *)
LEMMA PqShowsTrack ==
    ASSUME PqInv, pqAp.codec # PqNone
    PROVE  pqAp.track \in PqRecords
<1>1. pqAp \in PqAps
  BY PqBefore, PqStreamParts
<1> QED BY <1>1, PqApIs DEF PqApFields, PqTracks

LEMMA PqPlayKeeps ==
    ASSUME PqInv, ~pqWalk.on, PqPlay
    PROVE  PqInv'
<1>1. /\ UNCHANGED <<pqList, pqAp, pqWalk, pqLost, pqMixed>> /\ pqAp.codec # PqNone
      /\ \/ pqState = "paused" /\ pqState' = "playing" /\ UNCHANGED pqB
         \/ pqState = "stopped" /\ PqStart(pqAp.track)
  BY DEF PqPlay
<1>2. /\ PqStream /\ pqAp \in PqAps /\ pqAp.track \in PqRecords
      /\ PqFollows /\ PqNoted /\ PqDeferral /\ (~pqLost => PqCodecRight(pqAp))
  BY <1>1, PqBefore, PqStreamParts, PqShowsTrack
<1>3. CASE pqState = "paused" /\ pqState' = "playing" /\ UNCHANGED pqB
  <2>1. PqFollows' /\ PqNoted' /\ PqDeferral'
    BY <1>1, <1>2, <1>3 DEF PqFollows, PqNoted, PqDeferral, PqRunning, PqOnB
  <2>2. PqStream'
    BY <1>1, <1>2, <1>3, <2>1 DEF PqStream, PqStates
  <2> QED BY <1>1, <1>2, <2>2, PqSameList
<1>4. CASE pqState = "stopped" /\ PqStart(pqAp.track)
  <2>1. ~pqAp.eof /\ (~pqMixed => ~pqAp.restart)
    BY <1>2, <1>4 DEF PqNoted, PqDeferral
  <2>2. PqStream'
    BY <1>1, <1>2, <1>4, <2>1, PqStarted
  <2> QED BY <1>1, <1>2, <2>2, PqSameList
<1> QED BY <1>1, <1>3, <1>4

LEMMA PqRebuildKeeps ==
    ASSUME PqInv, ~pqWalk.on, PqRebuild
    PROVE  PqInv'
<1>1. /\ pqAp.codec # PqNone /\ pqAp' = [pqAp EXCEPT !.eof = FALSE] /\ PqStart(pqAp.track)
      /\ pqMixed' = (pqMixed \/ pqAp.restart) /\ UNCHANGED <<pqList, pqWalk, pqLost>>
  BY DEF PqRebuild
<1>2. /\ pqAp \in PqAps /\ pqAp.track \in PqRecords /\ (~pqLost => PqCodecRight(pqAp))
  BY <1>1, PqBefore, PqStreamParts, PqShowsTrack
<1>3. /\ pqAp' \in PqAps /\ pqAp'.track = pqAp.track /\ ~pqAp'.eof
      /\ pqAp'.restart = pqAp.restart /\ (PqCodecRight(pqAp) => PqCodecRight(pqAp'))
  BY <1>1, <1>2, PqEndMarkedIs
<1>4. PqStream'
  BY <1>1, <1>2, <1>3, PqStarted
<1> QED BY <1>1, <1>2, <1>3, <1>4, PqSameList

LEMMA PqPauseKeeps ==
    ASSUME PqInv, ~pqWalk.on, PqPause
    PROVE  PqInv'
<1>1. /\ pqState = "playing" /\ pqState' = "paused"
      /\ UNCHANGED <<pqList, pqAp, pqB, pqWalk, pqLost, pqMixed>>
      /\ PqStream /\ (~pqLost => PqCodecRight(pqAp))
  BY PqBefore DEF PqPause, PqPlaying
<1>2. PqFollows' /\ PqNoted' /\ PqDeferral'
  BY <1>1 DEF PqStream, PqFollows, PqNoted, PqDeferral, PqRunning, PqOnB
<1>3. PqStream'
  BY <1>1, <1>2 DEF PqStream, PqStates
<1> QED BY <1>1, <1>3, PqSameList

LEMMA PqUserStopKeeps ==
    ASSUME PqInv, ~pqWalk.on, PqUserStop
    PROVE  PqInv'
<1>1. PqStop /\ UNCHANGED <<pqList, pqWalk, pqLost>>
  BY DEF PqUserStop
<1>2. PqStream /\ (~pqLost => PqCodecRight(pqAp))
  BY PqBefore
<1>3. PqLeaves(pqAp)
  BY <1>1, <1>2, PqIsStopped
<1> QED BY <1>1, <1>2, <1>3, PqSameList DEF PqLeaves

LEMMA PqSeekKeeps ==
    ASSUME PqInv, ~pqWalk.on, PqSeek
    PROVE  PqInv'
<1>1. UNCHANGED <<pqList, pqState, pqWalk, pqLost>>
  BY DEF PqSeek
<1>2. PICK ap \in PqRestored :
         \/ /\ pqAp' = [ap EXCEPT !.eof = FALSE]
            /\ pqB' = [pqB EXCEPT !.eof = FALSE, !.empty = TRUE]
            /\ pqMixed' = (pqMixed \/ pqAp.restart)
         \/ pqAp' = ap /\ UNCHANGED <<pqB, pqMixed>>
  BY DEF PqSeek
<1>3. /\ PqStream /\ pqAp \in PqAps /\ pqB \in PqBs /\ pqState \in PqStates
      /\ PqFollows /\ (~pqLost => PqCodecRight(pqAp))
  BY PqBefore, PqStreamParts
<1>4. /\ ap \in PqAps /\ ap.track = pqAp.track /\ ap.restart = pqAp.restart
      /\ ap.eof => pqAp.eof
      /\ pqAp.pending = PqNone => ap = pqAp
      /\ PqCodecRight(pqAp) => PqCodecRight(ap)
  BY <1>3, PqRestoredIs
<1>5. CASE /\ pqAp' = [ap EXCEPT !.eof = FALSE]
           /\ pqB' = [pqB EXCEPT !.eof = FALSE, !.empty = TRUE]
           /\ pqMixed' = (pqMixed \/ pqAp.restart)
  <2>1. /\ pqAp' \in PqAps /\ pqAp'.track = pqAp.track /\ ~pqAp'.eof
        /\ pqAp'.restart = pqAp.restart /\ (PqCodecRight(pqAp) => PqCodecRight(pqAp'))
    BY <1>4, <1>5, PqEndMarkedIs
  <2>2. pqB' \in PqBs /\ pqB'.track = pqB.track /\ pqB'.fell = pqB.fell
    BY <1>3, <1>5 DEF PqBs
  <2>3. PqFollows' /\ PqNoted' /\ PqDeferral'
    BY <1>1, <1>3, <1>5, <2>1, <2>2 DEF PqFollows, PqNoted, PqDeferral, PqRunning, PqOnB
  <2>4. PqStream'
    BY <1>1, <1>3, <2>1, <2>2, <2>3 DEF PqStream
  <2> QED BY <1>1, <1>3, <2>1, <2>4, PqSameList
<1>6. CASE pqAp' = ap /\ UNCHANGED <<pqB, pqMixed>>
  <2>1. PqStream'
    BY <1>1, <1>3, <1>4, <1>6, PqStreamStays
  <2> QED BY <1>1, <1>3, <1>4, <1>6, <2>1, PqSameList
<1> QED BY <1>2, <1>5, <1>6

LEMMA PqNext1Keeps ==
    ASSUME PqInv, PqNext1
    PROVE  PqInv'
<1>1. PqAdvance(TRUE) /\ UNCHANGED <<pqList, pqState, pqAp, pqB, pqLost, pqMixed>>
  BY DEF PqNext1
<1>2. PqStream'
  BY <1>1, PqBefore, PqStreamParts, PqStreamStays
<1>3. PqWhole(pqList') /\ PqDisplay'
  BY <1>1, PqBefore, PqSameDisplay
<1>4. pqWalk' \in PqWalkOf /\ PqOnward'
  BY <1>1, PqAdvanceIs DEF PqOnward
<1> QED BY <1>2, <1>3, <1>4 DEF PqInv

LEMMA PqPrevKeeps ==
    ASSUME PqInv, ~pqWalk.on, PqPrev
    PROVE  PqInv'
<1> DEFINE p == PqPrevPos
           r == pqList.order[p]
<1>1. /\ p # 0 /\ pqList' = [pqList EXCEPT !.pos = p] /\ UNCHANGED pqWalk
      /\ \/ pqLost' = TRUE /\ UNCHANGED <<pqState, pqAp, pqB, pqMixed>>
         \/ PqAdvanceTo(r, TRUE)
  BY DEF PqPrev
<1>2. PqWhole(pqList) /\ PqStream /\ pqAp \in PqAps
  BY PqBefore, PqStreamParts
<1>3. p \in 1 .. PqCount
  <2>1. p \in 0 .. PqCount
    BY <1>2, PqPrevIs
  <2> HIDE DEF p
  <2> QED BY <1>1, <2>1, PqBefore
<1> HIDE DEF p
<1>4. PqWhole(pqList') /\ PqPlays(pqList') = r
  <2>1. PqWhole([pqList EXCEPT !.pos = p]) /\ PqPlays([pqList EXCEPT !.pos = p]) = r
    BY <1>2, <1>3, PqMoved DEF PqCount
  <2> QED BY <1>1, <2>1
<1>5. r \in PqRecords
  BY <1>3, PqBefore
<1> HIDE DEF r
<1>6. PqStream' /\ (~pqLost' => pqAp'.track = r /\ PqCodecRight(pqAp'))
  <2>1. CASE pqLost' = TRUE /\ UNCHANGED <<pqState, pqAp, pqB, pqMixed>>
    <3>1. PqStream'
      BY <1>2, <2>1, PqStreamStays
    <3> QED BY <2>1, <3>1
  <2>2. CASE PqAdvanceTo(r, TRUE)
    BY <1>2, <1>5, <2>2, PqAdvanced
  <2> QED BY <1>1, <2>1, <2>2
<1>7. pqWalk' \in PqWalkOf /\ PqOnward'
  BY <1>1, PqBefore DEF PqOnward
<1> QED BY <1>4, <1>6, <1>7, PqNewTrack

(* A track the user asks for: it opens and plays, or it does not open.     *)
LEMMA PqAskedFor ==
    ASSUME PqInv, ~pqWalk.on, UNCHANGED pqWalk, PqWhole(pqList'), NEW r \in PqRecords,
           \/ PqOpenAndPlay(r) /\ (PqCount' > 0 => PqPlays(pqList') = r)
           \/ PqOpenFails(r)
    PROVE  PqInv'
<1>1. pqAp \in PqAps
  BY PqBefore, PqStreamParts
<1>2. pqWalk' \in PqWalkOf /\ PqOnward'
  BY PqBefore DEF PqOnward
<1>3. CASE PqOpenAndPlay(r) /\ (PqCount' > 0 => PqPlays(pqList') = r)
  <2>1. pqAp' = PqOpened(pqAp, r) /\ PqStart(r) /\ pqMixed' = (pqMixed \/ pqAp.restart)
    BY <1>3 DEF PqOpenAndPlay, PqTaken
  <2>2. /\ pqAp' \in PqAps /\ pqAp'.track = r /\ ~pqAp'.eof
        /\ pqAp'.restart = pqAp.restart /\ PqCodecRight(pqAp')
    BY <1>1, <2>1, PqOpenedIs
  <2>3. PqStream'
    BY <2>1, <2>2, PqStarted
  <2> QED BY <1>2, <1>3, <2>2, <2>3, PqNewTrack
<1>4. CASE PqOpenFails(r)
  <2>1. pqAp' = PqNotOpened(pqAp) /\ pqState' = "error" /\ pqB' = PqClosed /\ pqLost' = TRUE
    BY <1>4 DEF PqOpenFails
  <2>2. PqStream'
    BY <1>1, <2>1, PqNotOpenedIs, PqErred
  <2> QED BY <1>2, <2>1, <2>2, PqNewTrack
<1> QED BY <1>3, <1>4

(* A list, a place in it, or a file.                                       *)
LEMMA PqPlayListKeeps ==
    ASSUME PqInv, ~pqWalk.on, NEW s \in PqLists, NEW start \in DOMAIN s, PqPlayList(s, start)
    PROVE  PqInv'
<1>1. PqWhole(pqList) /\ UNCHANGED pqWalk
  BY PqBefore DEF PqPlayList
<1>2. s[start] \in PqRecords
  BY PqConstants, PqListIs
<1>3. CASE pqList' \in PqLoad(s, start) /\ PqOpenAndPlay(s[start])
  <2>1. PqWhole(pqList') /\ PqPlays(pqList') = s[start]
    BY <1>1, <1>3, PqLoadKeeps
  <2> QED BY <1>1, <1>2, <1>3, <2>1, PqAskedFor
<1>4. CASE UNCHANGED pqList /\ PqOpenFails(s[start])
  BY <1>1, <1>2, <1>4, PqAskedFor
<1> QED BY <1>3, <1>4 DEF PqPlayList

LEMMA PqPlayAtKeeps ==
    ASSUME PqInv, ~pqWalk.on, NEW i \in 1 .. PqCount, PqPlayAt(i)
    PROVE  PqInv'
<1> DEFINE r == pqList.order[i]
<1>1. PqWhole(pqList) /\ r \in PqRecords /\ UNCHANGED pqWalk
  BY PqBefore DEF PqPlayAt
<1>2. CASE pqList' = [pqList EXCEPT !.pos = i] /\ PqOpenAndPlay(r)
  <2>1. PqWhole([pqList EXCEPT !.pos = i]) /\ PqPlays([pqList EXCEPT !.pos = i]) = r
    BY <1>1, PqMoved DEF PqCount
  <2>2. PqWhole(pqList') /\ PqPlays(pqList') = r
    BY <1>2, <2>1
  <2> HIDE DEF r
  <2> QED BY <1>1, <1>2, <2>2, PqAskedFor
<1>3. CASE UNCHANGED pqList /\ PqOpenFails(r)
  <2> HIDE DEF r
  <2> QED BY <1>1, <1>3, PqAskedFor
<1> QED BY <1>2, <1>3 DEF PqPlayAt

LEMMA PqPlayFileKeeps ==
    ASSUME PqInv, ~pqWalk.on, NEW r \in PqRecords, PqPlayFile(r)
    PROVE  PqInv'
<1> DEFINE none == [pqList EXCEPT !.orig = << >>, !.order = << >>, !.pos = 0]
<1>1. pqList' = none /\ (PqOpenAndPlay(r) \/ PqOpenFails(r)) /\ UNCHANGED pqWalk
  BY DEF PqPlayFile
<1>2. PqWhole(none) /\ none.order = << >>
  <2>1. pqList \in PqTables
    BY PqBefore, PqParts
  <2>2. << >> \in Seq(PqRecords) /\ Len(<< >>) = 0 /\ 0 \in Nat
    BY EmptySeq
  <2>3. none \in PqTables /\ none.orig = << >> /\ none.order = << >> /\ none.pos = 0
    BY <2>1, <2>2 DEF PqTables
  <2>4. PqReordered(<< >>, << >>)
    BY <2>2, PqReorderedItself
  <2> HIDE DEF none
  <2> QED BY <2>2, <2>3, <2>4 DEF PqWhole
<1> HIDE DEF none
<1>3. PqWhole(pqList') /\ ~(PqCount' > 0)
  <2>1. Len(<< >>) = 0
    BY EmptySeq
  <2> QED BY <1>1, <1>2, <2>1 DEF PqCount
<1> QED BY <1>1, <1>3, PqAskedFor

(* The order and the mode change under a stream that goes on.              *)
LEMMA PqListKeeps ==
    ASSUME PqInv, UNCHANGED <<pqState, pqAp, pqB, pqWalk, pqLost, pqMixed>>, PqWhole(pqList'),
           PqCount' = PqCount, PqCount > 0 => PqPlays(pqList') = PqPlays(pqList)
    PROVE  PqInv'
<1>1. PqStream'
  BY PqBefore, PqStreamParts, PqStreamStays
<1>2. PqDisplay'
  BY PqBefore DEF PqDisplay
<1>3. pqWalk' \in PqWalkOf /\ PqOnward'
  BY PqBefore DEF PqOnward, PqOnB
<1> QED BY <1>1, <1>2, <1>3 DEF PqInv

LEMMA PqSetShuffleKeeps ==
    ASSUME PqInv, PqSetShuffle
    PROVE  PqInv'
<1>1. pqList' \in PqToggled /\ UNCHANGED <<pqState, pqAp, pqB, pqWalk, pqLost, pqMixed>>
  BY DEF PqSetShuffle
<1>2. /\ PqWhole(pqList') /\ Len(pqList'.order) = PqCount
      /\ PqCount > 0 => PqPlays(pqList') = PqPlays(pqList)
  BY <1>1, PqBefore, PqToggleKeeps
<1>3. PqCount' = PqCount
  BY <1>2 DEF PqCount
<1> QED BY <1>1, <1>2, <1>3, PqListKeeps

LEMMA PqSetRepeatKeeps ==
    ASSUME PqInv, NEW mode \in {"off", "all", "one"}, PqSetRepeat(mode)
    PROVE  PqInv'
<1> DEFINE l == [pqList EXCEPT !.repeat = mode]
<1>1. pqList' = l /\ UNCHANGED <<pqState, pqAp, pqB, pqWalk, pqLost, pqMixed>>
  BY DEF PqSetRepeat
<1>2. PqWhole(l) /\ PqPlays(l) = PqPlays(pqList)
  BY PqBefore, PqMoved
<1>3. l.order = pqList.order
  BY PqBefore, PqParts DEF PqTables
<1> HIDE DEF l
<1>4. PqCount' = PqCount
  BY <1>1, <1>3 DEF PqCount
<1> QED BY <1>1, <1>2, <1>4, PqListKeeps

(* Core B and the ring: the end comes, and nothing else that counts.       *)
LEMMA PqRunsKeeps ==
    ASSUME PqInv, PqBEnds \/ PqRingFills \/ PqRingEmpties
    PROVE  PqInv'
<1>1. /\ UNCHANGED <<pqList, pqState, pqAp, pqWalk, pqLost, pqMixed>>
      /\ \/ pqB' = [pqB EXCEPT !.eof = TRUE]
         \/ pqB' = [pqB EXCEPT !.empty = FALSE]
         \/ pqB' = [pqB EXCEPT !.empty = TRUE]
  BY DEF PqBEnds, PqRingFills, PqRingEmpties, PqRuns
<1>2. pqB \in PqBs /\ PqStream /\ (~pqLost => PqCodecRight(pqAp))
  BY PqBefore, PqStreamParts
<1>3. /\ pqB' \in PqBs /\ pqB'.track = pqB.track /\ (pqB.eof => pqB'.eof)
      /\ pqB'.fell = pqB.fell
  BY <1>1, <1>2 DEF PqBs
<1>4. PqFollows' /\ PqNoted' /\ PqDeferral'
  BY <1>1, <1>2, <1>3 DEF PqStream, PqFollows, PqNoted, PqDeferral, PqRunning, PqOnB
<1>5. PqStream'
  BY <1>1, <1>2, <1>3, <1>4 DEF PqStream
<1>6. PqWhole(pqList') /\ PqDisplay'
  BY <1>1, <1>2, PqSameDisplay
<1>7. pqWalk' \in PqWalkOf /\ PqOnward'
  BY <1>1, <1>3, PqBefore DEF PqOnward, PqOnB
<1> QED BY <1>5, <1>6, <1>7 DEF PqInv

-----------------------------------------------------------------------------
(* The invariant holds at start, is kept by every step, and so always.     *)
LEMMA PqInitInv == PqInit => PqInv
<1> SUFFICES ASSUME PqInit PROVE PqInv
  OBVIOUS
<1>1. << >> \in Seq(PqRecords) /\ Len(<< >>) = 0 /\ 0 \in Nat /\ PqNone \in PqTracks
  BY EmptySeq DEF PqTracks
<1>2. PqReordered(<< >>, << >>)
  BY <1>1, PqReorderedItself
<1>3. /\ pqList \in PqTables /\ pqList.orig = << >> /\ pqList.order = << >>
      /\ pqList.pos = 0
  BY <1>1 DEF PqInit, PqTables
<1>4. PqWhole(pqList) /\ PqCount = 0
  BY <1>1, <1>2, <1>3 DEF PqWhole, PqCount
<1>5. /\ pqState = "stopped" /\ pqB = PqClosed /\ pqAp \in PqApFields
      /\ pqAp.codec = PqNone /\ pqAp.pending = PqNone /\ ~pqAp.eof /\ ~pqAp.restart
  BY <1>1 DEF PqInit, PqApFields
<1>6. pqAp \in PqAps /\ pqB \in PqBs /\ ~PqOnB /\ PqCodecRight(pqAp)
  BY <1>5, PqApIs, PqClosedIs DEF PqOnB, PqCodecRight
<1>7. PqStream
  BY <1>5, <1>6 DEF PqStream, PqStates, PqRunning, PqFollows, PqNoted, PqDeferral
<1>8. PqDisplay
  BY <1>4, <1>6 DEF PqDisplay
<1>9. pqWalk \in PqWalkOf /\ PqOnward
  BY PqNoWalkIs DEF PqInit, PqOnward
<1> QED BY <1>4, <1>7, <1>8, <1>9 DEF PqInv

(* Every step of the player, of the user and of Core B keeps it.           *)
LEMMA PqInvKept == PqInv /\ [PqNext]_pqVars => PqInv'
<1> SUFFICES ASSUME PqInv, [PqNext]_pqVars PROVE PqInv'
  OBVIOUS
<1>1. CASE PqProcess
  BY <1>1, PqBoundaryKeeps, PqPreopenKeeps, PqLastEndsKeeps, PqDrainedKeeps, PqFailsKeeps
     DEF PqProcess
<1>2. CASE PqWalks
  BY <1>2, PqTryKeeps, PqGiveUpKeeps DEF PqWalks
<1>3. CASE PqUser
  <2>1. ~pqWalk.on
    BY <1>3 DEF PqUser
  <2>2. CASE PqPlay \/ PqRebuild \/ PqPause \/ PqUserStop \/ PqSeek \/ PqNext1 \/ PqPrev
             \/ PqSetShuffle
    BY <2>1, <2>2, PqPlayKeeps, PqRebuildKeeps, PqPauseKeeps, PqUserStopKeeps, PqSeekKeeps,
       PqNext1Keeps, PqPrevKeeps, PqSetShuffleKeeps
  <2>3. ASSUME NEW s \in PqLists, NEW start \in DOMAIN s, PqPlayList(s, start)
        PROVE  PqInv'
    BY <2>1, <2>3, PqPlayListKeeps
  <2>4. ASSUME NEW i \in 1 .. PqCount, PqPlayAt(i) PROVE PqInv'
    BY <2>1, <2>4, PqPlayAtKeeps
  <2>5. ASSUME NEW r \in PqRecords, PqPlayFile(r) PROVE PqInv'
    BY <2>1, <2>5, PqPlayFileKeeps
  <2>6. ASSUME NEW mode \in {"off", "all", "one"}, PqSetRepeat(mode) PROVE PqInv'
    BY <2>6, PqSetRepeatKeeps
  <2> QED BY <1>3, <2>2, <2>3, <2>4, <2>5, <2>6 DEF PqUser
<1>4. CASE PqBEnds \/ PqRingFills \/ PqRingEmpties
  BY <1>4, PqRunsKeeps
<1>5. CASE UNCHANGED pqVars
  <2>1. UNCHANGED <<pqList, pqState, pqAp, pqB, pqWalk, pqLost, pqMixed>>
    BY <1>5 DEF pqVars
  <2>2. PqWhole(pqList') /\ PqCount' = PqCount
    BY <2>1, PqBefore DEF PqCount
  <2> QED BY <2>1, <2>2, PqListKeeps
<1> QED BY <1>1, <1>2, <1>3, <1>4, <1>5 DEF PqNext

(* The inductive invariant holds in every state.                           *)
LEMMA PqInvariance == PqSpec => []PqInv
BY PqInitInv, PqInvKept, PTL DEF PqSpec

(* The types: the list stands on one of its entries, whatever file of it   *)
(* does not open and whatever was shuffled.                                *)
THEOREM PqTypes == PqSpec => []PqTypeOK
<1>1. PqInv => PqTypeOK
  <2> SUFFICES ASSUME PqInv PROVE PqTypeOK
    OBVIOUS
  <2>1. pqState \in PqStates /\ pqAp \in PqApFields /\ pqB \in PqBs
    BY PqBefore, PqStreamParts, PqApIs
  <2>2. {pqAp.track, pqAp.codec, pqAp.pending, pqB.track, pqB.pre} \subseteq PqTracks
    BY <2>1 DEF PqApFields, PqBs
  <2>3. /\ pqList.pos \in 0 .. PqCount /\ (pqList.pos = 0 <=> PqCount = 0)
        /\ PqCount \in Nat /\ DOMAIN pqList.order = 1 .. PqCount
    BY PqBefore, PqParts, PqListIs DEF PqCount
  <2>4. pqWalk \in PqWalkOf
    BY PqBefore
  <2> QED BY <2>1, <2>2, <2>3, <2>4 DEF PqTypeOK, PqStates, PqTracks, PqWalkOf
<1> QED BY <1>1, PqInvariance, PTL

(* The play order has every record as often as the user's order, whatever  *)
(* playlist_load and playlist_set_shuffle did in between.                  *)
THEOREM PqStaysWhole == PqSpec => []PqOrderWhole
<1>1. PqInv => PqOrderWhole
  <2> SUFFICES ASSUME PqInv, NEW r \in PqRecords
               PROVE  PqTimes(r, pqList.order) = PqTimes(r, pqList.orig)
    BY DEF PqOrderWhole
  <2> QED BY PqBefore, PqParts, PqTimesSame
<1> QED BY <1>1, PqInvariance, PTL

(* List position, display, the AP's codec and Core B's track agree,        *)
(* whichever open, start or seek fails, but for the pending codec or one   *)
(* that did not come back, a deferred restart, a Core B whose start failed *)
(* in the middle of an advance, and an entry that did not open.            *)
THEOREM PqAgrees == PqSpec => []PqAgree
<1>1. PqInv => PqAgree
  <2> SUFFICES ASSUME PqInv PROVE PqAgree
    OBVIOUS
  <2>1. PqFollows /\ PqDisplay
    BY PqBefore, PqStreamParts DEF PqInv
  <2> QED BY <2>1 DEF PqFollows, PqOnB, PqRunning, PqDisplay, PqCodecRight, PqAgree
<1> QED BY <1>1, PqInvariance, PTL

(* While a restart is deferred Core B stands at the end of the track       *)
(* before, unless stop, seek, open or a stream built again after a pause   *)
(* came in between.                                                        *)
THEOREM PqDrainsAtFirst == PqSpec => []PqRestartDrainsAtFirst
<1>1. PqInv => PqRestartDrainsAtFirst
  <2> SUFFICES ASSUME PqInv PROVE PqRestartDrainsAtFirst
    OBVIOUS
  <2>1. PqDeferral
    BY PqBefore, PqStreamParts
  <2> QED BY <2>1 DEF PqDeferral, PqRestartDrainsAtFirst, PqRestartDrains, PqRunning, PqPlaying
<1> QED BY <1>1, PqInvariance, PTL

(* The list starts to move by itself only at the end of the track it       *)
(* stands at, and once for that end, be it Core B's or the AP's own.       *)
THEOREM PqMovesOncePerEnd == PqSpec => PqOncePerEnd
<1> DEFINE moves == /\ pqList'.pos # pqList.pos /\ pqWalk.on /\ pqWalk.left = PqSkips
                    /\ ~(pqWalk.hard \/ pqMixed \/ pqLost)
<1>1. PqInv /\ PqWalks /\ moves => PqEndNoted
  <2> SUFFICES ASSUME PqInv, PqWalks, moves PROVE PqEndNoted
    OBVIOUS
  <2>1. PqTry
    BY DEF PqWalks, PqGiveUp
  <2>2. PqCount > 0
    BY <2>1, PqBefore DEF PqTry, PqNextPos
  <2>3. /\ PqFollows /\ PqNoted /\ PqOnward /\ PqPlays(pqList) = pqAp.track
    BY <2>2, PqBefore, PqStreamParts
  <2>4. pqAp.eof /\ (PqOnB => ~pqAp.restart)
    BY <2>3 DEF PqOnward
  <2>5. PqOnB => pqB.eof /\ pqB.track = pqAp.track
    BY <2>3, <2>4 DEF PqFollows, PqNoted
  <2> QED BY <2>3, <2>4, <2>5 DEF PqEndNoted, PqOnB
<1>2. ASSUME PqInv, PqNext, moves PROVE PqWalks
  <2>1. UNCHANGED pqList \/ ~pqWalk.on \/ PqWalks
    BY <1>2 DEF PqNext, PqProcess, PqUser, PqBEnds, PqRingFills, PqRingEmpties, PqRuns
  <2> QED BY <1>2, <2>1
<1>3. PqInv /\ [PqNext]_pqVars => [moves => PqEndNoted]_pqVars
  BY <1>1, <1>2
<1> QED BY <1>3, PqInvariance, PTL DEF PqSpec, PqOncePerEnd

-----------------------------------------------------------------------------
(* The components of playback that share nothing, side by side.            *)

(* Each one behaves as it does on its own, whatever the focus is.          *)
THEOREM PlaybackIsEach == PlaybackSpec => Spec /\ TrimSpec /\ PqSpec /\ BtSpec
<1>1. PlaybackInit => Init /\ TrimInit /\ PqInit /\ BtInit
  BY DEF PlaybackInit
<1>2. [PlaybackNext]_<<focus, vars, trimVars, pqVars, btVars>> =>
         [Next]_vars /\ [TrimNext]_trimVars /\ [PqNext]_pqVars /\ [BtNext]_btVars
  <2> SUFFICES ASSUME [PlaybackNext]_<<focus, vars, trimVars, pqVars, btVars>>
               PROVE  [Next]_vars /\ [TrimNext]_trimVars /\ [PqNext]_pqVars /\ [BtNext]_btVars
    OBVIOUS
  <2>1. CASE UNCHANGED <<focus, vars, trimVars, pqVars, btVars>>
    BY <2>1
  <2>2. CASE PlaybackNext
    BY <2>2 DEF PlaybackNext
  <2> QED BY <2>1, <2>2
<1> QED BY <1>1, <1>2, PTL DEF PlaybackSpec, Spec, TrimSpec, PqSpec, BtSpec

(* Every variable of the byte ring, the trim, the player over its list and *)
(* the Bluetooth link keeps its type.                                      *)
THEOREM PlaybackTypes == ASSUME Delay < Chunk PROVE PlaybackSpec => []PlaybackTypeOK
<1>1. TypeOK /\ TrimTypeOK /\ PqTypeOK /\ BtTypeOK => PlaybackTypeOK
  BY DEF PlaybackTypeOK
<1> QED BY <1>1, PlaybackIsEach, TypeCorrect, TrimTypes, PqTypes, BtTypes, PTL

(* What is proved of each component holds of them side by side: the ring   *)
(* is a queue whose ends never meet in a slot, the trim keeps what is      *)
(* audible, the list stays whole and moves once for each end of a track,   *)
(* and the link tells the module what the player thinks.                   *)
THEOREM PlaybackSafe ==
    ASSUME Delay < Chunk
    PROVE  PlaybackSpec => /\ []Occupancy /\ []NoSlotRace /\ FifoSpec /\ []TrimExact
                           /\ []PqOrderWhole /\ []PqAgree /\ []PqRestartDrainsAtFirst
                           /\ PqOncePerEnd /\ []BtIndicesRight /\ []BtToldRight
                           /\ BtSavedFollows /\ BtOffFirst
BY PlaybackIsEach, OccupancyHolds, SlotsDisjoint, RefinesFifo, TrimIsExact, PqStaysWhole,
   PqAgrees, PqDrainsAtFirst, PqMovesOncePerEnd, BtIndicesStay, BtToldWhatIs, BtSavedStays,
   BtAnsweredFirst, PTL
=============================================================================
