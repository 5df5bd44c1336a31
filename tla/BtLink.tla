------------------------------- MODULE BtLink -------------------------------
(***************************************************************************)
(* Bluetooth: the policy (firmware/services/bt_link.c) over the protocol   *)
(* state machine (bt_proto.c), which share the device table by index.      *)
(* bt_link_service is a sequence of steps here, one per part of it; the    *)
(* user's calls come from the same thread and find it at rest.  The module *)
(* is external: it may say anything at any time, so a late frame is only   *)
(* one more frame.  Time is abstract: a delay may or may not have passed.  *)
(* Queries, names, the words of a frame and the headphone's buttons, which *)
(* act like the user on the player, are left out.                          *)
(***************************************************************************)
EXTENDS Integers, Sequences, SequencesExt

CONSTANTS
    BtAddrs,        \* devices, by address
    BtDevMax,       \* BT_DEV_MAX
    BtStored,       \* device lists /.rechord/BT may hold at start
    BtNone          \* no address

ASSUME BtAssumption ==
    /\ BtDevMax \in Nat \ {0} /\ BtNone \notin BtAddrs
    /\ \A s \in BtStored : s \in Seq(BtAddrs) /\ Len(s) <= BtDevMax /\ IsInjective(s)

VARIABLES
    btTab,          \* the device table: devices, saved, connected, target
    btLink,         \* state, streaming, stream_pending, play_state, resend_stream
    btPaired,       \* pairing = BT_PAIR_OK
    btSent,         \* target_addr
    btPc,           \* the part of bt_link_service that is next
    btOn,           \* s_on
    btPowered,      \* bt_hw_powered
    btIdleOff,      \* s_idle_off
    btUserOff,      \* s_user_disconnected
    btPend,         \* s_pending_target, 0 for none
    btWasUp,        \* s_last_state = BT_STATE_CONNECTED
    btWant,         \* s_stream_wanted
    btPlaying,      \* the player is playing
    btTold,         \* history: the last stream command of this link
    btSaid,         \* history: whom the last report of a link was about
    btPick          \* history: the device of the pending switch, as long as no
                    \* entry was evicted or promoted since

btPolicy == <<btOn, btPowered, btIdleOff, btUserOff, btPend, btWasUp, btWant>>
btHistory == <<btTold, btSaid, btPick>>
btVars == <<btTab, btLink, btPaired, btSent, btPc, btPolicy, btPlaying, btHistory>>

BtStates == {"off", "starting", "no_reply", "ready", "scanning", "connecting", "connected"}
BtPcs == {"rest", "receive", "poll", "follow", "stream", "switch", "idle"}

BtSavedAddrs(t) == {t.devices[i] : i \in t.saved}

BtNewLink(state) ==
    [state |-> state, streaming |-> FALSE, late |-> FALSE, play |-> "started", resend |-> FALSE]

BtInit ==
    /\ \E s \in BtStored :
          btTab = [devices |-> s, saved |-> DOMAIN s, connected |-> 0, target |-> 0]
    /\ btLink = BtNewLink("off") /\ btPaired = FALSE /\ btSent = BtNone
    /\ btPc = "rest"
    /\ btOn = FALSE /\ btPowered = FALSE /\ btIdleOff = FALSE /\ btUserOff = FALSE
    /\ btPend = 0 /\ btWasUp = FALSE /\ btWant = FALSE
    /\ btPlaying = FALSE
    /\ btTold = "none" /\ btSaid = BtNone
    /\ btPick = BtNone

-----------------------------------------------------------------------------
(* The device table.                                                       *)

BtIndexOf(t, a) == SelectInSeq(t.devices, LAMBDA d : d = a)

(* Mutant: target still counts the entry that went.                        *)
BtEvictForgetsTarget(t) ==
    [devices |-> Tail(t.devices),
     saved |-> {i - 1 : i \in t.saved \ {1}},
     connected |-> IF t.connected > 0 THEN t.connected - 1 ELSE 0,
     target |-> t.target]

(* remember_device, the table full: the first entry goes.                  *)
BtEvict(t) ==
    [devices |-> Tail(t.devices),
     saved |-> {i - 1 : i \in t.saved \ {1}},
     connected |-> IF t.connected > 0 THEN t.connected - 1 ELSE 0,
     target |-> IF t.target > 0 THEN t.target - 1 ELSE 0]

BtFull(t) == Len(t.devices) = BtDevMax

BtRemember(t, a) ==
    IF BtIndexOf(t, a) # 0 THEN t
    ELSE LET room == IF BtFull(t) THEN BtEvict(t) ELSE t
         IN  [room EXCEPT !.devices = Append(@, a)]

BtEvicts(t, a) == BtIndexOf(t, a) = 0 /\ BtFull(t)

(* An index once entry i is gone.                                          *)
BtWithout(i, j) == IF j = i THEN 0 ELSE IF j > i THEN j - 1 ELSE j

(* bt_proto_remove_device *)
BtRemove(t, i) ==
    [devices |-> RemoveAt(t.devices, i),
     saved |-> {BtWithout(i, j) : j \in t.saved \ {i}},
     connected |-> BtWithout(i, t.connected), target |-> BtWithout(i, t.target)]

(* An index once entry i is first.                                         *)
BtFirst(i, j) == IF j = i THEN 1 ELSE IF j # 0 /\ j < i THEN j + 1 ELSE j

(* Mutant: only the chosen entry's saved bit is moved.                     *)
BtPromoteSwaps(t, i) ==
    IF i <= 1 THEN t
    ELSE [devices |-> <<t.devices[i]>> \o RemoveAt(t.devices, i),
          saved |-> (t.saved \ {i}) \cup (IF i \in t.saved THEN {1} ELSE {}),
          connected |-> BtFirst(i, t.connected), target |-> BtFirst(i, t.target)]

(* bt_proto_promote_device *)
BtPromote(t, i) ==
    IF i <= 1 THEN t
    ELSE [devices |-> <<t.devices[i]>> \o RemoveAt(t.devices, i),
          saved |-> {BtFirst(i, j) : j \in t.saved},
          connected |-> BtFirst(i, t.connected), target |-> BtFirst(i, t.target)]

(* bt_proto_mark_saved *)
BtMark(t, i) == IF i \in DOMAIN t.devices THEN [t EXCEPT !.saved = @ \cup {i}] ELSE t

(* Mutant: a new link is not answered.                                     *)
BtEntersUnanswered(l, state) ==
    IF state = "connected" THEN [l EXCEPT !.state = state]
    ELSE BtNewLink(state)

(* set_state *)
BtEnters(l, state) ==
    IF state # "connected" THEN BtNewLink(state)
    ELSE [l EXCEPT !.state = state, !.resend = @ \/ l.state # state]

-----------------------------------------------------------------------------
(* The module, as bt_link.c switches it.                                   *)

(* module_on and bt_proto_power_on *)
BtModuleOn ==
    /\ btTab' = [btTab EXCEPT !.connected = 0, !.target = 0]
    /\ btLink' = BtNewLink("starting") /\ btPaired' = FALSE /\ btSent' = BtNone
    /\ btPowered' = TRUE /\ btWasUp' = FALSE
    /\ btTold' = "none" /\ btSaid' = BtNone

(* module_off and bt_proto_power_off; play_state is left as it is.         *)
BtModuleOff ==
    /\ btTab' = [btTab EXCEPT !.connected = 0, !.target = 0]
    /\ btLink' = [BtNewLink("off") EXCEPT !.play = btLink.play] /\ btPaired' = FALSE
    /\ btPowered' = FALSE /\ btWasUp' = FALSE /\ btWant' = FALSE /\ btPend' = 0
    /\ btTold' = "none" /\ btSaid' = BtNone /\ btPick' = BtNone

(* attempt_connect: bt_proto_connect, and CL06 is sent.                    *)
BtAttempt(i) ==
    IF btLink.state \in {"ready", "scanning"} /\ i \in DOMAIN btTab.devices
    THEN /\ btTab' = [btTab EXCEPT !.target = i] /\ btSent' = btTab.devices[i]
         /\ btPaired' = FALSE /\ btLink' = BtEnters(btLink, "connecting")
    ELSE UNCHANGED <<btTab, btSent, btPaired, btLink>>

(* bt_proto_disconnect *)
BtDisconnect ==
    IF btLink.state \in {"connecting", "connected"}
          \/ (btLink.state = "ready" /\ btPaired)
    THEN /\ btPaired' = FALSE /\ btTab' = [btTab EXCEPT !.connected = 0]
         /\ btLink' = IF btLink.state = "connecting" THEN BtEnters(btLink, "ready") ELSE btLink
    ELSE UNCHANGED <<btPaired, btTab, btLink>>

-----------------------------------------------------------------------------
(* bt_link_service: the frames that came, then bt_proto_poll.              *)

(* The first entry goes: a pending index no longer means what it did.      *)
BtReorders(yes) == btPick' = IF yes THEN BtNone ELSE btPick

(* Entering a link: no stream command of it was sent yet.                  *)
BtLinkIs(state, said) ==
    /\ btLink' = BtEnters(btLink, state) /\ btSaid' = said
    /\ btTold' = IF btLink.state = state THEN btTold ELSE "none"

BtWhenRunning ==
    /\ btPc = "receive"
    /\ UNCHANGED <<btSent, btPc, btPolicy, btPlaying>>

(* handle_ready *)
BtReadyFrame ==
    /\ BtWhenRunning /\ btLink.state = "starting"
    /\ btLink' = BtEnters(btLink, "ready")
    /\ UNCHANGED <<btTab, btPaired, btTold, btSaid, btPick>>

(* handle_scan: a device was found.                                        *)
BtFoundFrame(a) ==
    /\ BtWhenRunning
    /\ btTab' = BtRemember(btTab, a) /\ BtReorders(BtEvicts(btTab, a))
    /\ UNCHANGED <<btLink, btPaired, btTold, btSaid>>

(* handle_scan: the scan ended.                                            *)
BtScanEndFrame ==
    /\ BtWhenRunning /\ btLink.state = "scanning"
    /\ btLink' = BtEnters(btLink, "ready")
    /\ UNCHANGED <<btTab, btPaired, btTold, btSaid, btPick>>

(* handle_status: linked to a.                                             *)
BtStatusFrame(a) ==
    /\ BtWhenRunning
    /\ LET t == BtRemember(btTab, a)
       IN  btTab' = [t EXCEPT !.connected = BtIndexOf(t, a)]
    /\ BtReorders(BtEvicts(btTab, a))
    /\ btPaired' = TRUE /\ BtLinkIs("connected", a)

(* handle_status: not linked; handle_disconnected.                         *)
BtUnlinkedFrame(dropped) ==
    /\ BtWhenRunning /\ (dropped \/ btLink.state = "connected")
    /\ btPaired' = FALSE /\ btTab' = [btTab EXCEPT !.connected = 0]
    /\ IF btLink.state = "connected" \/ (dropped /\ btLink.state = "connecting")
          THEN BtLinkIs("ready", BtNone)
          ELSE UNCHANGED <<btLink, btTold>> /\ btSaid' = BtNone
    /\ UNCHANGED btPick

(* mark_connected *)
BtMarkConnected ==
    /\ btPaired' = TRUE /\ btTab' = [btTab EXCEPT !.connected = btTab.target]
    /\ BtLinkIs("connected", IF btTab.target = 0 THEN BtNone ELSE btSent)

(* handle_link: the device asked for is linked.                            *)
BtLinkedFrame == BtWhenRunning /\ BtMarkConnected /\ UNCHANGED btPick

(* handle_link: pairing succeeded or failed; finish_connect.               *)
BtPairedFrame(ok) ==
    /\ BtWhenRunning
    /\ btPaired' = ok
    /\ btLink' = IF btLink.state = "connecting" THEN BtEnters(btLink, "ready") ELSE btLink
    /\ UNCHANGED <<btTab, btTold, btSaid, btPick>>

(* handle_play_report; after CLOK it also means that the link is up.       *)
BtPlayFrame(play) ==
    /\ BtWhenRunning
    /\ IF btLink.state # "connected" /\ btPaired
          THEN /\ btPaired' = TRUE /\ btTab' = [btTab EXCEPT !.connected = btTab.target]
               /\ btLink' = [BtEnters(btLink, "connected") EXCEPT !.play = play]
               /\ btTold' = "none"
               /\ btSaid' = IF btTab.target = 0 THEN BtNone ELSE btSent
          ELSE btLink' = [btLink EXCEPT !.play = play] /\ UNCHANGED <<btPaired, btTab, btTold, btSaid>>
    /\ UNCHANGED btPick

BtFrame ==
    \/ BtReadyFrame \/ BtScanEndFrame \/ BtLinkedFrame
    \/ \E a \in BtAddrs : BtFoundFrame(a) \/ BtStatusFrame(a)
    \/ \E dropped \in BOOLEAN : BtUnlinkedFrame(dropped)
    \/ \E ok \in BOOLEAN : BtPairedFrame(ok)
    \/ \E play \in {"paused", "playing"} : BtPlayFrame(play)

BtGoes(from, to) == btPc = from /\ btPc' = to

(* The pass begins; the module is powered again after a park.              *)
BtService ==
    /\ btPc = "rest" /\ btOn
    /\ IF btPowered
          THEN btPc' = "receive" /\ UNCHANGED <<btTab, btLink, btPaired, btSent, btPowered, btWasUp, btTold, btSaid>>
          ELSE ~btIdleOff /\ BtModuleOn /\ UNCHANGED btPc
    /\ UNCHANGED <<btOn, btIdleOff, btUserOff, btPend, btWant, btPlaying, btPick>>

BtReceived ==
    /\ BtGoes("receive", "poll")
    /\ UNCHANGED <<btTab, btLink, btPaired, btSent, btPolicy, btPlaying, btHistory>>

(* answer_new_link, or send_pending_stream once its delay has passed.      *)
BtPollStream ==
    /\ btPc = "poll" /\ btLink.state = "connected"
    /\ IF btLink.resend
          THEN btLink' = [btLink EXCEPT !.resend = FALSE] /\ btTold' = "off"
          ELSE /\ btLink.late /\ btLink' = [btLink EXCEPT !.late = FALSE]
               /\ btTold' = IF btLink.streaming THEN "on" ELSE "off"
    /\ UNCHANGED <<btTab, btPaired, btSent, btPc, btPolicy, btPlaying, btSaid, btPick>>

(* bt_proto_poll, a limit has passed: of the start, the scan, the connect. *)
BtPollTimeout ==
    /\ btPc = "poll" /\ btLink.state \in {"starting", "scanning", "connecting"}
    /\ btLink' = BtEnters(btLink, IF btLink.state = "starting" THEN "no_reply" ELSE "ready")
    /\ btPaired' = (btPaired /\ btLink.state # "connecting")
    /\ UNCHANGED <<btTab, btSent, btPc, btPolicy, btPlaying, btHistory>>

BtPolled ==
    /\ BtGoes("poll", "follow") /\ ~btLink.resend
    /\ UNCHANGED <<btTab, btLink, btPaired, btSent, btPolicy, btPlaying, btHistory>>

(* follow_state: on_connected and on_link_lost.                            *)
BtFollow ==
    /\ BtGoes("follow", "stream")
    /\ btWasUp' = (btLink.state = "connected")
    /\ IF btLink.state = "connected" /\ ~btWasUp
          THEN /\ btTab' = BtPromote(BtMark(btTab, btTab.connected), btTab.connected)
               /\ BtReorders(btTab.connected > 1)
               /\ btUserOff' = FALSE /\ UNCHANGED <<btWant, btPlaying>>
          ELSE IF btLink.state # "connected" /\ btWasUp
          THEN /\ btPlaying' = (btPlaying /\ ~btWant) /\ btWant' = FALSE
               /\ UNCHANGED <<btTab, btPick, btUserOff>>
          ELSE UNCHANGED <<btTab, btPick, btUserOff, btWant, btPlaying>>
    /\ UNCHANGED <<btLink, btPaired, btSent, btOn, btPowered, btIdleOff, btPend, btTold, btSaid>>

(* Mutant: the notice goes out, the command does not follow.               *)
BtSetStreamForgets(on) ==
    LET notice == IF on THEN btLink.play = "paused" ELSE btLink.play = "playing"
    IN  /\ btLink' = [btLink EXCEPT !.streaming = on, !.late = FALSE,
                          !.play = IF ~notice THEN @ ELSE IF on THEN "playing" ELSE "paused"]
        /\ btTold' = IF notice THEN btTold ELSE IF on THEN "on" ELSE "off"

(* bt_proto_set_stream: a notice first when the headphone knows otherwise. *)
BtSetStream(on) ==
    LET notice == IF on THEN btLink.play = "paused" ELSE btLink.play = "playing"
    IN  /\ btLink' = [btLink EXCEPT !.streaming = on, !.late = notice,
                          !.play = IF ~notice THEN @ ELSE IF on THEN "playing" ELSE "paused"]
        /\ btTold' = IF notice THEN btTold ELSE IF on THEN "on" ELSE "off"

(* "Stream follows the player while a link is up."                         *)
BtStream ==
    /\ BtGoes("stream", "switch")
    /\ btWant' = (btLink.state = "connected" /\ btPlaying)
    /\ IF btWant' # btWant /\ btLink.state = "connected" THEN BtSetStream(btWant')
       ELSE UNCHANGED <<btLink, btTold>>
    /\ UNCHANGED <<btTab, btPaired, btSent, btOn, btPowered, btIdleOff, btUserOff, btPend, btWasUp,
                   btPlaying, btSaid, btPick>>

(* The switch to the pending device, after the gap, or its end; and then   *)
(* the auto-connect to the first saved device.                             *)
BtSwitch ==
    /\ BtGoes("switch", "idle")
    /\ \/ btPend # 0 /\ btLink.state = "ready" /\ BtAttempt(btPend) /\ btPend' = 0
       \/ UNCHANGED <<btPend, btTab, btSent, btPaired, btLink>>
       \/ btPend # 0 /\ btLink.state # "ready" /\ btPend' = 0
          /\ UNCHANGED <<btTab, btSent, btPaired, btLink>>
       \/ btPend = 0 /\ btPend' = 0 /\ btLink.state = "ready" /\ ~btUserOff /\ btTab.saved # {}
          /\ BtAttempt(Min(btTab.saved))
    /\ btPick' = IF btPend' = 0 THEN BtNone ELSE btPick
    /\ UNCHANGED <<btOn, btPowered, btIdleOff, btUserOff, btWasUp, btWant, btPlaying,
                   btTold, btSaid>>

(* Idle off: nobody is connected, and the screen is closed or dark.        *)
BtIdle ==
    /\ BtGoes("idle", "rest")
    /\ \/ /\ btLink.state # "connected"
          /\ BtModuleOff /\ btIdleOff' = TRUE
          /\ UNCHANGED <<btSent, btOn, btUserOff, btPlaying>>
       \/ UNCHANGED <<btTab, btLink, btPaired, btSent, btPolicy, btPlaying, btHistory>>

-----------------------------------------------------------------------------
(* The user's calls, and the player.                                       *)

BtAtRest == btPc = "rest" /\ UNCHANGED btPc

(* bt_link_set_enabled *)
BtSetEnabled(on) ==
    /\ BtAtRest
    /\ btOn' = on /\ btIdleOff' = FALSE /\ btUserOff' = FALSE
    /\ IF ~on THEN BtModuleOff /\ UNCHANGED btSent
       ELSE IF ~btPowered THEN BtModuleOn /\ UNCHANGED <<btPend, btWant, btPick>>
       ELSE UNCHANGED <<btTab, btLink, btPaired, btSent, btPowered, btWasUp, btPend, btWant, btTold, btSaid, btPick>>
    /\ UNCHANGED <<btPlaying>>

(* bt_link_screen_opened *)
BtScreenOpened ==
    /\ BtAtRest
    /\ btIdleOff' = FALSE
    /\ IF btOn /\ ~btPowered THEN BtModuleOn
       ELSE UNCHANGED <<btTab, btLink, btPaired, btSent, btPowered, btWasUp, btTold, btSaid>>
    /\ UNCHANGED <<btOn, btUserOff, btPend, btWant, btPlaying, btPick>>

(* bt_link_scan; a module that is only being powered does not scan yet.    *)
BtScan ==
    /\ BtAtRest /\ btOn
    /\ btIdleOff' = FALSE
    /\ IF ~btPowered THEN BtModuleOn
       ELSE /\ btLink' = IF btLink.state = "ready" THEN BtEnters(btLink, "scanning") ELSE btLink
            /\ UNCHANGED <<btTab, btPaired, btSent, btPowered, btWasUp, btTold, btSaid>>
    /\ UNCHANGED <<btOn, btUserOff, btPend, btWant, btPlaying, btPick>>

(* bt_link_connect: at once, or once the module dropped the other device.  *)
BtConnect(i) ==
    /\ BtAtRest /\ btOn /\ i \in DOMAIN btTab.devices
    /\ btUserOff' = FALSE
    /\ IF btLink.state = "connected"
          THEN /\ btTab' = [BtMark(btTab, i) EXCEPT !.connected = 0] /\ btPaired' = FALSE
               /\ btPend' = i /\ btPick' = btTab.devices[i]
               /\ UNCHANGED <<btLink, btSent>>
          ELSE /\ IF btLink.state \in {"ready", "scanning"}
                     THEN /\ btTab' = [BtMark(btTab, i) EXCEPT !.target = i]
                          /\ btSent' = btTab.devices[i] /\ btPaired' = FALSE
                          /\ btLink' = BtEnters(btLink, "connecting")
                     ELSE btTab' = BtMark(btTab, i) /\ UNCHANGED <<btSent, btPaired, btLink>>
               /\ UNCHANGED <<btPend, btPick>>
    /\ UNCHANGED <<btOn, btPowered, btIdleOff, btWasUp, btWant, btPlaying, btTold, btSaid>>

(* bt_link_disconnect *)
BtUserDisconnect ==
    /\ BtAtRest
    /\ btUserOff' = TRUE /\ btPend' = 0 /\ btPick' = BtNone /\ BtDisconnect
    /\ UNCHANGED <<btSent, btOn, btPowered, btIdleOff, btWasUp, btWant, btPlaying,
                   btTold, btSaid>>

(* Mutant: the pending index is not moved.                                 *)
BtPendStays(i) == IF btPend = i THEN 0 ELSE btPend

(* bt_link_forget: what becomes of the pending index.                      *)
BtPendWithout(i) == BtWithout(i, btPend)

(* bt_link_forget: the link or the attempt first, then the entry.          *)
BtForget(i) ==
    /\ BtAtRest /\ i \in DOMAIN btTab.devices
    /\ LET used == i \in {btTab.connected, btTab.target}
           drops == used /\ (btLink.state \in {"connecting", "connected"}
                                \/ (btLink.state = "ready" /\ btPaired))
       IN  /\ btLink' = IF drops /\ btLink.state = "connecting" THEN BtEnters(btLink, "ready") ELSE btLink
           /\ btPaired' = (btPaired /\ ~drops)
           /\ btTab' = BtRemove(IF drops THEN [btTab EXCEPT !.connected = 0] ELSE btTab, i)
           /\ btPend' = IF used THEN 0 ELSE BtPendWithout(i)
    /\ btPick' = IF btPend' = 0 THEN BtNone ELSE btPick
    /\ btUserOff' = FALSE
    /\ UNCHANGED <<btSent, btOn, btPowered, btIdleOff, btWasUp, btWant, btPlaying, btTold, btSaid>>

(* bt_link_power_off: a USB park.                                          *)
BtPowerOff ==
    /\ BtAtRest
    /\ BtModuleOff /\ btIdleOff' = FALSE
    /\ UNCHANGED <<btSent, btOn, btUserOff, btPlaying>>

(* The player starts or stops, by the user, a headphone button or itself.  *)
BtPlayer ==
    /\ BtAtRest /\ btPlaying' = ~btPlaying
    /\ UNCHANGED <<btTab, btLink, btPaired, btSent, btPolicy, btHistory>>

BtUser ==
    \/ \E on \in BOOLEAN : BtSetEnabled(on)
    \/ BtScreenOpened \/ BtScan \/ BtUserDisconnect \/ BtPowerOff
    \/ \E i \in 1 .. BtDevMax : BtConnect(i) \/ BtForget(i)

BtNext ==
    \/ BtService \/ BtFrame \/ BtReceived \/ BtPollStream \/ BtPollTimeout \/ BtPolled
    \/ BtFollow \/ BtStream \/ BtSwitch \/ BtIdle
    \/ BtUser \/ BtPlayer

BtSpec == BtInit /\ [][BtNext]_btVars

-----------------------------------------------------------------------------
(* Every variable has its type, and the table no device twice.             *)
BtTypeOK ==
    /\ btTab.devices \in Seq(BtAddrs) /\ Len(btTab.devices) <= BtDevMax
    /\ IsInjective(btTab.devices) /\ btTab.saved \subseteq DOMAIN btTab.devices
    /\ {btTab.connected, btTab.target, btPend} \subseteq DOMAIN btTab.devices \cup {0}
    /\ btLink.state \in BtStates /\ btWasUp \in BOOLEAN /\ btPc \in BtPcs
    /\ btPaired \in BOOLEAN /\ btSent \in BtAddrs \cup {BtNone}

(* While the table is searched, extended, shifted when it is full, cut and *)
(* reordered, the indices into it stay with the device whose address was   *)
(* sent to the module, with the device the module said it is linked to,    *)
(* and, if no entry was evicted or promoted since (nothing moves it then), *)
(* with the device the user picked for the pending switch.                 *)
BtIndicesRight ==
    /\ btTab.target # 0 => btTab.devices[btTab.target] = btSent
    /\ btTab.connected # 0 => btTab.devices[btTab.connected] = btSaid
    /\ btPick # BtNone => btPend \in DOMAIN btTab.devices /\ btTab.devices[btPend] = btPick

(* "Only user-chosen devices are saved and auto-connected", and they stay  *)
(* saved: a saved bit follows its entry through every reordering of the    *)
(* table, goes only with it, and comes only by the user's choice or to the *)
(* device that is connected, which is then the first.                      *)
BtSavedFollows ==
    [][/\ \A a \in BtSavedAddrs(btTab) \ BtSavedAddrs(btTab)' :
             a \notin ToSet(btTab'.devices) /\ (btPc = "rest" \/ a = btTab.devices[1])
       /\ \A a \in BtSavedAddrs(btTab)' \ BtSavedAddrs(btTab) :
             \/ btPc = "rest" /\ btTab'.devices = btTab.devices
             \/ btPc = "follow" /\ btTab'.devices[1] = a /\ btTab'.connected = 1]_btVars

(* "Answer every new link with CY0 00 before CY0 1E", however often and    *)
(* through whichever frame the link came up.                               *)
BtOffFirst == [][btTold' = "on" => btTold # "none"]_btVars

(* Between passes the module was told what streaming says, unless the      *)
(* command waits behind its notice.                                        *)
BtToldRight ==
    btPc = "rest" /\ btLink.state = "connected" /\ ~btLink.late
        => (btLink.streaming <=> btTold = "on")

(* bt_link_service: "Stream follows the player while a link is up."        *)
BtStreamFollows ==
    btPc = "switch" /\ btLink.state = "connected" => (btLink.streaming <=> btPlaying)
=============================================================================
