------------------------------ MODULE EqSeqlock ------------------------------
(***************************************************************************)
(* The equalizer curve's way from the application processor (AP) to Core B *)
(* (firmware/player/eq_ipc.h): a sequence lock over words of the shared    *)
(* control block, each word stored and loaded on its own.  The AP          *)
(* publishes a curve when the user changes it and again, from its cache,   *)
(* at every start and hand-off (ipc_b_target.c); Core B looks for a new    *)
(* one in each decode round (bb_main.c).  Core B is stopped while the      *)
(* player idles, and the block is zeroed before it runs again.             *)
(***************************************************************************)
EXTENDS Integers, Sequences

CONSTANTS
    Bands,          \* EQ_BANDS_MAX
    Word,           \* the values of a packed band word and of the EXT word
    Curves,         \* the valid curves the user may choose
    MaxPublish      \* bound on the publications of a behaviour

(* A curve as eq_ipc_publish lays it out: the words past its count are 0.  *)
Layouts == [en : {0, 1}, n : 0 .. Bands, band : [1 .. Bands -> Word], ext : Word]

ASSUME CurveAssumption ==
    /\ Bands \in Nat \ {0} /\ MaxPublish \in Nat /\ 0 \in Word
    /\ Curves \subseteq Layouts
    /\ \A c \in Curves : c.n > 0 /\ \A i \in c.n + 1 .. Bands : c.band[i] = 0

Blank == [en |-> 0, n |-> 0, band |-> [i \in 1 .. Bands |-> 0], ext |-> 0]

VARIABLES
    gen,            \* IPC_C_EQ_GEN
    blk,            \* the words EN, N, BASE.., EXT
    \* the AP
    cached,         \* g_eq, or Blank before the first ipc_b_set_eq
    wpc, wi,        \* the word eq_ipc_publish stores next, the band
    \* Core B
    rpc, ri,        \* the word eq_ipc_read loads next, the band
    rgen, copy,     \* gen and c of eq_ipc_read
    last,           \* s_eq_gen
    eq,             \* the curve applied to s_eq
    \* history
    published       \* the curves published since the block was zeroed

wVars == <<cached, wpc, wi>>
rVars == <<rpc, ri, rgen, copy, last, eq>>
vars == <<gen, blk, wVars, rVars, published>>

Init ==
    /\ gen = 0 /\ blk = Blank
    /\ cached = Blank /\ wpc = "idle" /\ wi = 0
    /\ rpc = "idle" /\ ri = 0 /\ rgen = 0 /\ copy = Blank
    /\ last = 0 /\ eq = Blank
    /\ published = <<>>

-----------------------------------------------------------------------------
(* eq_ipc_publish, one store at a time.                                    *)

Mark ==
    /\ Len(published) < MaxPublish
    /\ gen' = gen + 1
    /\ wpc' = "en"
    /\ UNCHANGED <<blk, wi, rVars, published>>

(* ipc_b_set_eq *)
SetEq(c) == wpc = "idle" /\ cached' = c /\ Mark

(* eq_publish_cached, at a start or a hand-off *)
Republish == wpc = "idle" /\ cached # Blank /\ UNCHANGED cached /\ Mark

StoreEn ==
    /\ wpc = "en"
    /\ blk' = [blk EXCEPT !.en = cached.en]
    /\ wpc' = "n"
    /\ UNCHANGED <<gen, cached, wi, rVars, published>>

StoreN ==
    /\ wpc = "n"
    /\ blk' = [blk EXCEPT !.n = cached.n]
    /\ wpc' = "band" /\ wi' = 1
    /\ UNCHANGED <<gen, cached, rVars, published>>

StoreBand ==
    /\ wpc = "band"
    /\ blk' = [blk EXCEPT !.band[wi] = cached.band[wi]]
    /\ IF wi < Bands THEN wi' = wi + 1 /\ UNCHANGED wpc
                     ELSE wpc' = "ext" /\ UNCHANGED wi
    /\ UNCHANGED <<gen, cached, rVars, published>>

StoreExt ==
    /\ wpc = "ext"
    /\ blk' = [blk EXCEPT !.ext = cached.ext]
    /\ wpc' = "gen"
    /\ UNCHANGED <<gen, cached, wi, rVars, published>>

Settle ==
    /\ wpc = "gen"
    /\ gen' = gen + 1
    /\ wpc' = "idle" /\ wi' = 0
    /\ published' = Append(published, cached)
    /\ UNCHANGED <<blk, cached, rVars>>

-----------------------------------------------------------------------------
(* eq_ipc_read, one load at a time.  The count it loads is never above     *)
(* Bands, so its malformed-count return is never taken.                    *)

(* Mutant: the generation is tested with a wrong mask.                     *)
LookMasked ==
    /\ rpc = "idle"
    /\ gen % 4 = 0 /\ gen # last
    /\ rgen' = gen
    /\ rpc' = "en"
    /\ UNCHANGED <<gen, blk, wVars, ri, copy, last, eq, published>>

Look ==
    /\ rpc = "idle"
    /\ gen % 2 = 0 /\ gen # last
    /\ rgen' = gen
    /\ rpc' = "en"
    /\ UNCHANGED <<gen, blk, wVars, ri, copy, last, eq, published>>

LoadEn ==
    /\ rpc = "en"
    /\ copy' = [Blank EXCEPT !.en = blk.en]
    /\ rpc' = "n"
    /\ UNCHANGED <<gen, blk, wVars, ri, rgen, last, eq, published>>

LoadN ==
    /\ rpc = "n"
    /\ copy' = [copy EXCEPT !.n = blk.n]
    /\ rpc' = "ext"
    /\ UNCHANGED <<gen, blk, wVars, ri, rgen, last, eq, published>>

LoadExt ==
    /\ rpc = "ext"
    /\ copy' = [copy EXCEPT !.ext = blk.ext]
    /\ rpc' = "band" /\ ri' = 1
    /\ UNCHANGED <<gen, blk, wVars, rgen, last, eq, published>>

LoadBand ==
    /\ rpc = "band" /\ ri <= copy.n
    /\ copy' = [copy EXCEPT !.band[ri] = blk.band[ri]]
    /\ ri' = ri + 1
    /\ UNCHANGED <<gen, blk, wVars, rpc, rgen, last, eq, published>>

Loaded == rpc = "band" /\ ri > copy.n

(* Mutant: the generation is not compared again after the copy.            *)
InstallUnchecked ==
    /\ Loaded
    /\ last' = rgen /\ eq' = copy
    /\ rpc' = "idle" /\ ri' = 0
    /\ UNCHANGED <<gen, blk, wVars, rgen, copy, published>>

(* Mutant: the generation installed is not remembered.                     *)
InstallForgotten ==
    /\ Loaded /\ gen = rgen
    /\ eq' = copy
    /\ rpc' = "idle" /\ ri' = 0
    /\ UNCHANGED <<gen, blk, wVars, rgen, copy, last, published>>

Install ==
    /\ Loaded /\ gen = rgen
    /\ last' = rgen /\ eq' = copy
    /\ rpc' = "idle" /\ ri' = 0
    /\ UNCHANGED <<gen, blk, wVars, rgen, copy, published>>

Torn ==
    /\ Loaded /\ gen # rgen
    /\ rpc' = "idle" /\ ri' = 0
    /\ UNCHANGED <<gen, blk, wVars, rgen, copy, last, eq, published>>

-----------------------------------------------------------------------------
(* b_after_core_start: Core B is in reset, the block is zeroed, and Core B *)
(* starts anew.  The AP's cache survives.                                  *)
CoreStart ==
    /\ wpc = "idle"
    /\ gen' = 0 /\ blk' = Blank /\ published' = <<>>
    /\ rpc' = "idle" /\ ri' = 0 /\ rgen' = 0 /\ copy' = Blank
    /\ last' = 0 /\ eq' = Blank
    /\ UNCHANGED wVars

Store == StoreEn \/ StoreN \/ StoreBand \/ StoreExt \/ Settle

Load == Look \/ LoadEn \/ LoadN \/ LoadExt \/ LoadBand \/ Install \/ Torn

Next ==
    \/ \E c \in Curves : SetEq(c)
    \/ Republish \/ Store \/ Load \/ CoreStart

Spec == Init /\ [][Next]_vars

(* A publication runs to its end and B keeps decoding; the user and the    *)
(* power saver owe nothing.                                                *)
FairSpec == Spec /\ WF_vars(Store) /\ WF_vars(Load)

-----------------------------------------------------------------------------
(* Every variable keeps its type.                                          *)
TypeOK ==
    /\ gen \in Nat /\ blk \in Layouts
    /\ cached \in Curves \cup {Blank}
    /\ wpc \in {"idle", "en", "n", "band", "ext", "gen"} /\ wi \in 0 .. Bands
    /\ rpc \in {"idle", "en", "n", "ext", "band"} /\ ri \in 0 .. Bands + 1
    /\ rgen \in Nat /\ copy \in Layouts
    /\ last \in Nat /\ eq \in Layouts
    /\ published \in Seq(Curves) /\ (wpc # "idle" => cached \in Curves)

(* B never installs a half-written curve: what it applies is, word for     *)
(* word, the curve the AP published with the generation B took             *)
(* (eq_ipc_publish, eq_ipc_read).                                          *)
InstalledWhole ==
    last # 0 => \E k \in 1 .. Len(published) : last = 2 * k /\ eq = published[k]

(* A curve is not installed twice, and an older one never replaces a newer *)
(* one, unless Core B was restarted (eq_ipc_read's last_gen).              *)
NeverOlder == [][eq' # eq => last' > last \/ eq' = Blank]_vars

(* A published curve is eventually installed, if no other one is published *)
(* and Core B is not restarted meanwhile (bb_main.c).                      *)
Installs ==
    \A k \in 1 .. MaxPublish :
        (gen = 2 * k) ~> (last = 2 * k \/ gen # 2 * k)
=============================================================================
