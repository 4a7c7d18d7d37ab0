------------------------------- MODULE Intersys -------------------------------
(***************************************************************************)
(* The link between this core and the Bluetooth controller's core          *)
(* (platform/hal/hal_intersys.c, CHIP_INTERSYS_VER 2, CORE_SLEEP_POWER_    *)
(* DOWN).                                                                  *)
(*                                                                         *)
(* A sender puts its message in a free record, shows the peer a list of    *)
(* records and raises the indication; later messages wait in a second      *)
(* list.  The receiver masks the indication, walks the list and clears the *)
(* indication, which raises the sender's "done": the sender frees the      *)
(* records and shows the waiting list.  A receive handler may take only a  *)
(* part; the rest is kept and the indication stays masked until the user   *)
(* starts receiving again.  With flow control the user clears the          *)
(* indication.                                                             *)
(*                                                                         *)
(* Actors: the interrupts of this core (both of the same priority, so one  *)
(* runs to its end before the other and before any thread), an owner       *)
(* thread that opens, closes, starts and stops channels, a sending thread  *)
(* for each channel, and the peer core, which runs at any time.  The peer  *)
(* follows the same protocol (external).  A channel carries one message    *)
(* type: opening it for a second one is refused.  What the peer sends is a *)
(* sequence of bytes, LEN to a message.                                    *)
(***************************************************************************)
EXTENDS Naturals, Sequences, FiniteSets, SequencesExt

CONSTANTS
    Ids,                    \* HAL_INTERSYS_ID_T
    MAX_SEND_RECORD_COUNT,
    LEN,                    \* bytes of a message of the peer
    TX_MSGS, RX_MSGS,       \* bounds: messages of a session, of the peer
    MAX_OPENS,              \* bound: times a channel is opened
    MAX_NAPS                \* bound: power-downs while a clearing is owed

ASSUME IntersysAssumption ==
    /\ IsFiniteSet(Ids) /\ Ids # {}
    /\ MAX_SEND_RECORD_COUNT \in Nat \ {0} /\ LEN \in Nat \ {0}
    /\ TX_MSGS \in Nat /\ RX_MSGS \in Nat /\ MAX_OPENS \in Nat
    /\ MAX_NAPS \in Nat

VARIABLES
    \* the driver
    opened, rx_irq_handler,             \* channels that are open, that have their handler
    need_flow_ctrl,                     \* channels opened with flow control
    send_msg_list, send_pending_list,   \* records shown to the peer, waiting
    in_use, data,                       \* records in use, message in each record
    recv_pending_head,                  \* what a handler has left over
    chan_busy, busy_now,                \* channels that are busy, the wake lock is held
    owner, sender,                      \* owner's operation; senders that found the channel open
    asleep, asserted,                   \* powered down; stopped by ASSERT
    \* the hardware: channels whose flag, mask or interrupt enable is set
    tx_ind, tx_done, tx_msk, tx_en, rx_ind, rx_msk, rx_en,
    \* the peer core
    reading, reads,                     \* channels it is reading, the records it reads
    p_list, p_pending, p_done, p_bytes, \* its lists, channels done, bytes sent so far
    \* history of each channel since it was opened
    sent, read, tainted, late, leaked,  \* sending
    due, got, owes, rewoken,            \* receiving
    opens, rash,                        \* times opened; one was closed while it received
    naps                                \* power-downs while a clearing was owed

sendVars == <<send_msg_list, send_pending_list, in_use, data, chan_busy, busy_now>>
openVars == <<opened, rx_irq_handler, need_flow_ctrl, owner, opens, rash>>
txFlags == <<tx_ind, tx_done, tx_msk, tx_en>>
rxFlags == <<rx_ind, rx_msk, rx_en>>
peerReads == <<reading, reads>>
peerSends == <<p_list, p_pending, p_done, p_bytes>>
sendHist == <<sent, read, tainted, late, leaked>>
recvHist == <<due, got, owes, rewoken, naps>>
vars == <<sendVars, openVars, recv_pending_head, sender, asleep, asserted, txFlags, rxFlags,
          peerReads, peerSends, sendHist, recvHist>>

Recs == 1..MAX_SEND_RECORD_COUNT
Each(v) == [id \in Ids |-> v]

Init ==
    /\ opened = {} /\ rx_irq_handler = {} /\ owner = [op |-> "idle"] /\ opens = Each(0)
    /\ need_flow_ctrl = {} /\ rash = FALSE
    /\ send_msg_list = Each(<<>>) /\ send_pending_list = Each(<<>>)
    /\ in_use = Each({}) /\ data = Each([r \in Recs |-> 0])
    /\ chan_busy = {} /\ busy_now = FALSE
    /\ recv_pending_head = Each(<<>>)
    /\ sender = {} /\ asleep = FALSE /\ asserted = FALSE
    /\ tx_ind = {} /\ tx_done = {} /\ tx_msk = {} /\ tx_en = {}
    /\ rx_ind = {} /\ rx_msk = {} /\ rx_en = {}
    /\ reading = {} /\ reads = Each(<<>>)
    /\ p_list = Each(<<>>) /\ p_pending = Each(<<>>) /\ p_done = {} /\ p_bytes = Each(0)
    /\ sent = Each(<<>>) /\ read = Each(<<>>) /\ tainted = {} /\ late = {}
    /\ leaked = {} /\ due = Each(<<>>) /\ got = Each(<<>>) /\ owes = {} /\ rewoken = {}
    /\ naps = 0

Up == ~asleep /\ ~asserted
OwnerIdle == Up /\ owner.op = "idle"

-----------------------------------------------------------------------------
(* The interrupts that are active, and whether one of them gets through.   *)
RxActive == rx_ind \cap rx_msk
TxActive == tx_done \cap tx_msk
RxIrqPending == RxActive \cap rx_en # {}
TxIrqPending == TxActive \cap tx_en # {}

(* The wake lock when the busy channels become those of new: taken with the *)
(* first, given back with the last one.                                     *)
hal_intersys_busy(new) ==
    IF new = chan_busy THEN busy_now ELSE new # {}

-----------------------------------------------------------------------------
(* Sending.                                                                *)

(* The check that the channel is open is made before interrupts are locked. *)
SendCheck(id) ==
    /\ Up /\ id \in opened \ sender
    /\ Len(sent[id]) < TX_MSGS
    /\ sender' = sender \cup {id}
    /\ UNCHANGED <<sendVars, openVars, recv_pending_head, asleep, asserted, txFlags, rxFlags,
                   peerReads, peerSends, sendHist, recvHist>>

(* Mutant: a record that is in use is taken. *)
FreeRecord_any(id) == {1}

FreeRecord(id) == {r \in Recs \ in_use[id] : \A s \in Recs \ in_use[id] : r <= s}

(* The owner is between the clearing of the indication and the freeing of   *)
(* the records in hal_intersys_open.                                        *)
HalfOpen(id) == owner.op \in {"lists", "records"} /\ owner.id = id

(* The list that is shown, once record r has been put at the end of the     *)
(* waiting list.  The records are linked by a pointer in each: taking a     *)
(* record of the shown list (it was freed there by an opening) ends that    *)
(* list with it, and a shown list that ends where the waiting one ended     *)
(* grows with it.                                                           *)
Linked(id, r) ==
    LET shown == send_msg_list[id]
        waits == send_pending_list[id]
        cut   == IF r \in ToSet(shown)
                 THEN SubSeq(shown, 1, CHOOSE i \in DOMAIN shown : shown[i] = r)
                 ELSE shown
    IN  IF waits # <<>> /\ cut[Len(cut)] = waits[Len(waits)] THEN Append(cut, r) ELSE cut

(* A full channel refuses the message.  Interrupts are locked; the owner    *)
(* may be anywhere in closing and opening the channel again.                *)
SendPut(id) ==
    /\ Up /\ id \in sender
    /\ sender' = sender \ {id}
    /\ IF FreeRecord(id) = {}
       THEN UNCHANGED <<sendVars, tx_ind, sent, late>>
       ELSE \E r \in FreeRecord(id) :
            LET msg   == Len(sent[id]) + 1
                first == send_msg_list[id] = <<>>
            IN  /\ in_use' = [in_use EXCEPT ![id] = @ \cup {r}]
                /\ data' = [data EXCEPT ![id][r] = msg]
                /\ send_msg_list' =
                     [send_msg_list EXCEPT ![id] = IF first THEN <<r>> ELSE Linked(id, r)]
                /\ send_pending_list' =
                     [send_pending_list EXCEPT ![id] = IF first THEN @ ELSE Append(@, r)]
                /\ tx_ind' = IF first THEN tx_ind \cup {id} ELSE tx_ind
                /\ chan_busy' = chan_busy \cup {id}
                /\ busy_now' = hal_intersys_busy(chan_busy')
                /\ sent' = [sent EXCEPT ![id] = Append(@, msg)]
                /\ late' = IF HalfOpen(id) THEN late \cup {id} ELSE late
    /\ UNCHANGED <<openVars, recv_pending_head, asleep, asserted, tx_done, tx_msk, tx_en, rxFlags,
                   peerReads, peerSends, read, tainted, leaked, recvHist>>

(* Mutant: the records stay in use. *)
Freed_kept(acts) == in_use

(* Mutant: sleep is allowed although the waiting list is shown. *)
StillBusy_idle(acts) == chan_busy \ acts

(* The peer has read the lists of acts: their records are free.            *)
Freed(acts) ==
    [id \in Ids |-> IF id \in acts THEN in_use[id] \ ToSet(send_msg_list[id]) ELSE in_use[id]]

(* The channels that still have something to send.                         *)
StillBusy(acts) == chan_busy \ {id \in acts : send_pending_list[id] = <<>>}

(* The waiting lists of all active channels are shown, whichever of them    *)
(* interrupted.                                                             *)
hal_intersys_tx_irq_handler ==
    LET acts == TxActive
    IN  /\ Up /\ TxIrqPending
        /\ tx_done' = tx_done \ acts
        /\ in_use' = Freed(acts)
        /\ send_msg_list' =
             [id \in Ids |-> IF id \in acts THEN send_pending_list[id] ELSE send_msg_list[id]]
        /\ send_pending_list' =
             [id \in Ids |-> IF id \in acts THEN <<>> ELSE send_pending_list[id]]
        /\ tx_ind' = tx_ind \cup {id \in acts : send_pending_list[id] # <<>>}
        /\ chan_busy' = StillBusy(acts)
        /\ busy_now' = hal_intersys_busy(chan_busy')
        /\ leaked' = leaked \cap chan_busy'
        /\ UNCHANGED <<data, openVars, recv_pending_head, sender, asleep, asserted, tx_msk, tx_en,
                       rxFlags, peerReads, peerSends, sent, read, tainted, late, recvHist>>

-----------------------------------------------------------------------------
(* Receiving.                                                              *)
RecvList(id) == IF recv_pending_head[id] # <<>> THEN recv_pending_head[id] ELSE p_list[id]

From(s, n) == SubSeq(s, n + 1, Len(s))

(* Mutant: the indication is unmasked and not cleared. *)
hal_intersys_rx_done_set(ids) == UNCHANGED rx_ind /\ p_done' = p_done \cup ids

(* Clearing the indication raises the peer's done.                         *)
hal_intersys_rx_done(ids) == rx_ind' = rx_ind \ ids /\ p_done' = p_done \cup ids

(* The handler of each channel id of acts takes the first n[id] bytes of    *)
(* what there is.                                                           *)
RxServe(acts, n) ==
    LET rest(id) == From(RecvList(id), n[id])
        empty == {id \in acts : rest(id) = <<>>}
        done  == empty \ need_flow_ctrl
    IN  /\ \A id \in acts : n[id] <= Len(RecvList(id))
        /\ recv_pending_head' =
             [id \in Ids |-> IF id \in acts THEN rest(id) ELSE recv_pending_head[id]]
        /\ hal_intersys_rx_done(done)
        /\ rx_msk' = (rx_msk \ acts) \cup done
        /\ got' = [id \in Ids |->
             IF id \in acts THEN got[id] \o SubSeq(RecvList(id), 1, n[id]) ELSE got[id]]
        /\ owes' = owes \cup (empty \cap need_flow_ctrl)
        /\ UNCHANGED <<asserted, p_list, p_pending, p_bytes, due, rewoken, naps>>

(* All active channels are served, whichever of them interrupted.          *)
hal_intersys_rx_irq_handler ==
    LET acts == RxActive
        missing == {id \in acts \ rx_irq_handler : RecvList(id) # <<>>}
    IN  /\ Up /\ RxIrqPending
        /\ \/ /\ missing # {}
              /\ asserted' = TRUE               \* "Handler missing"
              /\ UNCHANGED <<recv_pending_head, rx_ind, rx_msk, peerSends, recvHist>>
           \/ /\ missing = {}
              /\ \E n \in [acts -> 0..(RX_MSGS * LEN)] : RxServe(acts, n)
        /\ UNCHANGED <<sendVars, openVars, sender, asleep, txFlags, rx_en, peerReads, sendHist>>

(* With flow control, the user is done with what it was handed.            *)
RxDone(id) ==
    /\ OwnerIdle /\ id \in owes \cap opened
    /\ hal_intersys_rx_done({id})
    /\ rx_msk' = rx_msk \cup {id}
    /\ owes' = owes \ {id}
    /\ UNCHANGED <<sendVars, openVars, recv_pending_head, sender, asleep, asserted, txFlags,
                   rx_en, peerReads, p_list, p_pending, p_bytes, sendHist, due, got, rewoken,
                   naps>>

(* Mutant: what was left over is not asked for again. *)
Resumed_none(id) == {}

(* A channel whose handler left something over is unmasked.                *)
Resumed(id) == IF recv_pending_head[id] # <<>> THEN {id} ELSE {}

hal_intersys_start_recv(id) ==
    /\ OwnerIdle /\ id \in opened
    /\ rx_en' = rx_en \cup {id}
    /\ rx_msk' = rx_msk \cup Resumed(id)
    /\ UNCHANGED <<sendVars, openVars, recv_pending_head, sender, asleep, asserted, txFlags,
                   rx_ind, peerReads, peerSends, sendHist, recvHist>>

hal_intersys_stop_recv(id) ==
    /\ OwnerIdle /\ id \in opened
    /\ rx_en' = rx_en \ {id}
    /\ UNCHANGED <<sendVars, openVars, recv_pending_head, sender, asleep, asserted, txFlags,
                   rx_ind, rx_msk, peerReads, peerSends, sendHist, recvHist>>

-----------------------------------------------------------------------------
(* Opening and closing.  The handler is set last and taken away first.     *)
(* Nothing is locked: interrupts, the peer and a sender that found the      *)
(* channel open before it was closed come between the steps of an opening.  *)

(* Both interrupts are disabled, their masks set.                          *)
OpenBegin(id, rx_flowctrl) ==
    /\ OwnerIdle /\ id \notin opened
    /\ opens[id] < MAX_OPENS
    /\ owner' = [op |-> "clear", id |-> id, rx_flowctrl |-> rx_flowctrl]
    /\ rx_en' = rx_en \ {id} /\ tx_en' = tx_en \ {id}
    /\ rx_msk' = rx_msk \cup {id} /\ tx_msk' = tx_msk \cup {id}
    /\ UNCHANGED <<sendVars, opened, rx_irq_handler, need_flow_ctrl, opens, rash,
                   recv_pending_head, sender, asleep, asserted, tx_ind, tx_done, rx_ind,
                   peerReads, peerSends, sendHist, recvHist>>

(* One write of ISIRQ_CLR; the history of the session's sending begins.     *)
OpenClear ==
    LET id == owner.id
    IN  /\ Up /\ owner.op = "clear"
        /\ owner' = [owner EXCEPT !.op = "lists"]
        /\ tx_done' = tx_done \ {id} /\ tx_ind' = tx_ind \ {id}
        /\ tainted' = IF id \in reading THEN tainted \cup {id} ELSE tainted \ {id}
        /\ late' = late \ {id}
        /\ sent' = [sent EXCEPT ![id] = <<>>] /\ read' = [read EXCEPT ![id] = <<>>]
        /\ UNCHANGED <<sendVars, opened, rx_irq_handler, need_flow_ctrl, opens, rash,
                       recv_pending_head, sender, asleep, asserted, tx_msk, tx_en, rxFlags,
                       peerReads, peerSends, leaked, recvHist>>

OpenLists ==
    LET id == owner.id
    IN  /\ Up /\ owner.op = "lists"
        /\ owner' = [owner EXCEPT !.op = "records"]
        /\ send_msg_list' = [send_msg_list EXCEPT ![id] = <<>>]
        /\ send_pending_list' = [send_pending_list EXCEPT ![id] = <<>>]
        /\ recv_pending_head' = [recv_pending_head EXCEPT ![id] = <<>>]
        /\ leaked' = IF id \in chan_busy THEN leaked \cup {id} ELSE leaked
        /\ UNCHANGED <<in_use, data, chan_busy, busy_now, opened, rx_irq_handler, need_flow_ctrl,
                       opens, rash, sender, asleep, asserted, txFlags, rxFlags, peerReads,
                       peerSends, sent, read, tainted, late, recvHist>>

(* What the peer has sent and this core has not acknowledged.              *)
Outstanding(id) == (IF id \in rx_ind THEN p_list[id] ELSE <<>>) \o p_pending[id]

(* The records are free, the interrupt for sending is enabled; the history  *)
(* of the session's receiving begins.                                       *)
OpenRecords ==
    LET id == owner.id
    IN  /\ Up /\ owner.op = "records"
        /\ owner' = [owner EXCEPT !.op = "open"]
        /\ in_use' = [in_use EXCEPT ![id] = {}]
        /\ need_flow_ctrl' =
             IF owner.rx_flowctrl THEN need_flow_ctrl \cup {id} ELSE need_flow_ctrl \ {id}
        /\ tx_en' = tx_en \cup {id}
        /\ opens' = [opens EXCEPT ![id] = @ + 1]
        /\ due' = [due EXCEPT ![id] = Outstanding(id)] /\ got' = [got EXCEPT ![id] = <<>>]
        /\ owes' = owes \ {id} /\ rewoken' = rewoken \ {id}
        /\ UNCHANGED <<send_msg_list, send_pending_list, data, chan_busy, busy_now, opened,
                       rx_irq_handler, rash, recv_pending_head, sender, asleep, asserted, tx_ind,
                       tx_done, tx_msk, rxFlags, peerReads, peerSends, sendHist, naps>>

OpenEnd ==
    /\ Up /\ owner.op = "open"
    /\ opened' = opened \cup {owner.id} /\ rx_irq_handler' = rx_irq_handler \cup {owner.id}
    /\ owner' = [op |-> "idle"]
    /\ UNCHANGED <<sendVars, need_flow_ctrl, opens, rash, recv_pending_head, sender, asleep, asserted,
                   txFlags, rxFlags, peerReads, peerSends, sendHist, recvHist>>

CloseBegin(id) ==
    /\ OwnerIdle /\ id \in opened
    /\ rash' = (rash \/ id \in rx_en)
    /\ owner' = [op |-> "close", id |-> id]
    /\ opened' = opened \ {id} /\ rx_irq_handler' = rx_irq_handler \ {id}
    /\ UNCHANGED <<sendVars, need_flow_ctrl, opens, recv_pending_head, sender, asleep, asserted,
                   txFlags, rxFlags, peerReads, peerSends, sendHist, recvHist>>

(* The busy flag is left as it is.  One step: until the masks are cleared   *)
(* an interrupt or a sender acts as if it came before the step, from then   *)
(* on a sender acts as if it came after it.                                 *)
CloseEnd ==
    LET id == owner.id
    IN  /\ Up /\ owner.op = "close"
        /\ owner' = [op |-> "idle"]
        /\ rx_en' = rx_en \ {id} /\ tx_en' = tx_en \ {id}
        /\ rx_msk' = rx_msk \ {id} /\ tx_msk' = tx_msk \ {id}
        /\ send_msg_list' = [send_msg_list EXCEPT ![id] = <<>>]
        /\ send_pending_list' = [send_pending_list EXCEPT ![id] = <<>>]
        /\ recv_pending_head' = [recv_pending_head EXCEPT ![id] = <<>>]
        /\ need_flow_ctrl' = need_flow_ctrl \ {id}
        /\ leaked' = IF id \in chan_busy THEN leaked \cup {id} ELSE leaked
        /\ UNCHANGED <<in_use, data, chan_busy, busy_now, opened, rx_irq_handler, opens, rash,
                       sender, asleep, asserted, tx_ind, tx_done, rx_ind, peerReads, peerSends,
                       sent, read, tainted, late, recvHist>>

-----------------------------------------------------------------------------
(* Power.  The masks are lost while the core is powered down; it does not   *)
(* power down with the wake lock held or with an interrupt pending.         *)
PowerDown ==
    /\ OwnerIdle /\ sender = {}
    /\ ~busy_now /\ ~RxIrqPending /\ ~TxIrqPending
    /\ naps' = IF owes = {} THEN naps ELSE naps + 1
    /\ naps' <= MAX_NAPS
    /\ asleep' = TRUE
    /\ rx_msk' = {} /\ tx_msk' = {}
    /\ UNCHANGED <<sendVars, openVars, recv_pending_head, sender, asserted, tx_ind, tx_done, tx_en,
                   rx_ind, rx_en, peerReads, peerSends, sendHist, due, got, owes, rewoken>>

(* Mutant: the mask of the done interrupt is not set again. *)
TxMskRestored_none == {}

TxMskRestored == opened

hal_intersys_pm_notif_handler ==
    /\ asleep /\ ~asserted
    /\ asleep' = FALSE
    /\ rx_msk' = opened /\ tx_msk' = TxMskRestored
    /\ rewoken' = rewoken \cup (opened \cap owes)
    /\ UNCHANGED <<sendVars, openVars, recv_pending_head, sender, asserted, tx_ind, tx_done, tx_en,
                   rx_ind, rx_en, peerReads, peerSends, sendHist, due, got, owes, naps>>

-----------------------------------------------------------------------------
(* The peer core.                                                          *)
Contents(id, recs) == [i \in DOMAIN recs |-> data[id][recs[i]]]

PeerTake(id) ==
    /\ id \in tx_ind \ reading
    /\ reading' = reading \cup {id}
    /\ reads' = [reads EXCEPT ![id] = send_msg_list[id]]
    /\ UNCHANGED <<sendVars, openVars, recv_pending_head, sender, asleep, asserted, txFlags,
                   rxFlags, peerSends, sendHist, recvHist>>

(* It reads the records until here.                                        *)
PeerDone(id) ==
    /\ id \in reading
    /\ reading' = reading \ {id} /\ reads' = [reads EXCEPT ![id] = <<>>]
    /\ tx_ind' = tx_ind \ {id} /\ tx_done' = tx_done \cup {id}
    /\ read' = [read EXCEPT ![id] = @ \o Contents(id, reads[id])]
    /\ UNCHANGED <<sendVars, openVars, recv_pending_head, sender, asleep, asserted, tx_msk, tx_en,
                   rxFlags, peerSends, sent, tainted, late, leaked, recvHist>>

PeerSend(id) ==
    LET msg   == [i \in 1..LEN |-> p_bytes[id] + i]
        first == p_list[id] = <<>>
    IN  /\ p_bytes[id] < RX_MSGS * LEN
        /\ p_bytes' = [p_bytes EXCEPT ![id] = @ + LEN]
        /\ p_list' = [p_list EXCEPT ![id] = IF first THEN msg ELSE @]
        /\ p_pending' = [p_pending EXCEPT ![id] = IF first THEN @ ELSE @ \o msg]
        /\ rx_ind' = IF first THEN rx_ind \cup {id} ELSE rx_ind
        /\ due' = [due EXCEPT ![id] = @ \o msg]
        /\ UNCHANGED <<sendVars, openVars, recv_pending_head, sender, asleep, asserted, txFlags,
                       rx_msk, rx_en, peerReads, p_done, sendHist, got, owes, rewoken,
                       naps>>

PeerTxDone(id) ==
    /\ id \in p_done
    /\ p_done' = p_done \ {id}
    /\ p_list' = [p_list EXCEPT ![id] = p_pending[id]]
    /\ p_pending' = [p_pending EXCEPT ![id] = <<>>]
    /\ rx_ind' = IF p_pending[id] # <<>> THEN rx_ind \cup {id} ELSE rx_ind
    /\ UNCHANGED <<sendVars, openVars, recv_pending_head, sender, asleep, asserted, txFlags,
                   rx_msk, rx_en, peerReads, p_bytes, sendHist, recvHist>>

Next ==
    \/ \E id \in Ids :
         \/ SendCheck(id) \/ SendPut(id)
         \/ RxDone(id) \/ hal_intersys_start_recv(id) \/ hal_intersys_stop_recv(id)
         \/ (\E rx_flowctrl \in BOOLEAN : OpenBegin(id, rx_flowctrl))
         \/ CloseBegin(id)
         \/ PeerTake(id) \/ PeerDone(id) \/ PeerSend(id) \/ PeerTxDone(id)
    \/ hal_intersys_rx_irq_handler \/ hal_intersys_tx_irq_handler
    \/ OpenClear \/ OpenLists \/ OpenRecords \/ OpenEnd \/ CloseEnd
    \/ PowerDown \/ hal_intersys_pm_notif_handler

Spec == Init /\ [][Next]_vars

(* Interrupts are taken as soon as they are enabled, so they are not passed *)
(* over for ever however briefly a thread enables them (SF); the user       *)
(* starts receiving again, empties its buffer now and then and gives back   *)
(* what it owes; the threads and the peer go on.                            *)
RxServeAll ==
    /\ hal_intersys_rx_irq_handler
    /\ \A id \in RxActive : recv_pending_head'[id] = <<>>

Fairness ==
    /\ SF_vars(RxServeAll) /\ SF_vars(hal_intersys_tx_irq_handler)
    /\ WF_vars(OpenClear \/ OpenLists \/ OpenRecords \/ OpenEnd \/ CloseEnd)
    /\ WF_vars(hal_intersys_pm_notif_handler)
    /\ \A id \in Ids :
         /\ SF_vars(hal_intersys_start_recv(id)) /\ SF_vars(RxDone(id))
         /\ WF_vars(SendPut(id))
         /\ WF_vars(PeerTake(id)) /\ WF_vars(PeerDone(id)) /\ WF_vars(PeerTxDone(id))

FairSpec == Spec /\ Fairness

-----------------------------------------------------------------------------
(* Properties.                                                             *)

(* What the owner is doing, and on which channel.                          *)
Opening == [op : {"clear", "lists", "records", "open"}, id : Ids, rx_flowctrl : BOOLEAN]
Owners == [op : {"idle"}] \cup [op : {"close"}, id : Ids] \cup Opening

TypeOK ==
    /\ opened \subseteq Ids /\ rx_irq_handler \subseteq Ids /\ chan_busy \subseteq Ids
    /\ sender \subseteq Ids /\ reading \subseteq Ids /\ p_done \subseteq Ids
    /\ tx_ind \subseteq Ids /\ tx_done \subseteq Ids /\ tx_msk \subseteq Ids /\ tx_en \subseteq Ids
    /\ rx_ind \subseteq Ids /\ rx_msk \subseteq Ids /\ rx_en \subseteq Ids
    /\ tainted \subseteq Ids /\ late \subseteq Ids /\ leaked \subseteq Ids
    /\ owes \subseteq Ids /\ rewoken \subseteq Ids
    /\ need_flow_ctrl \subseteq Ids /\ rash \in BOOLEAN
    /\ send_msg_list \in [Ids -> Seq(Recs)] /\ send_pending_list \in [Ids -> Seq(Recs)]
    /\ reads \in [Ids -> Seq(Recs)]
    /\ in_use \in [Ids -> SUBSET Recs] /\ data \in [Ids -> [Recs -> Nat]]
    /\ recv_pending_head \in [Ids -> Seq(Nat)] /\ p_list \in [Ids -> Seq(Nat)]
    /\ p_pending \in [Ids -> Seq(Nat)] /\ due \in [Ids -> Seq(Nat)] /\ got \in [Ids -> Seq(Nat)]
    /\ sent \in [Ids -> Seq(Nat)] /\ read \in [Ids -> Seq(Nat)]
    /\ busy_now \in BOOLEAN /\ asleep \in BOOLEAN /\ asserted \in BOOLEAN
    /\ owner \in Owners
    /\ p_bytes \in [Ids -> Nat] /\ opens \in [Ids -> Nat] /\ naps \in Nat

(* What the peer has read of a channel, followed by what is in the records  *)
(* it has not read yet, is what hal_intersys_send accepted.                 *)
ReadInOrder(id) ==
    LET shown == IF id \in tx_done THEN <<>> ELSE send_msg_list[id]
    IN  read[id] \o Contents(id, shown \o send_pending_list[id]) = sent[id]

(* The records in use are those of the two lists, each in one place.       *)
RecordsExact(id) ==
    LET recs == send_msg_list[id] \o send_pending_list[id]
    IN  in_use[id] = ToSet(recs) /\ IsInjective(recs)

(* What the receive handler was given, followed by what is still to come,   *)
(* is what the peer sent.                                                   *)
TakenInOrder(id) ==
    LET rest == IF recv_pending_head[id] # <<>> THEN recv_pending_head[id]
                ELSE IF id \in rx_ind \ owes THEN p_list[id]
                ELSE <<>>
    IN  got[id] \o rest \o p_pending[id] = due[id]

(* Since a channel was opened nothing that hal_intersys_send accepted is    *)
(* lost, read twice, out of order or overwritten while the peer may read    *)
(* it.  Excused are the sessions that an opening without a lock spoils (see *)
(* Observations in the README): the peer was in the middle of reading, or a *)
(* sender of the previous session put its message in between.               *)
SendFifo == \A id \in opened \ (tainted \cup late) : ReadInOrder(id)

(* No record of an open channel is lost to the pool of three for good, or   *)
(* taken while a list holds it, unless a sender of the previous session put *)
(* its message while the channel was being opened.                          *)
InUseExact == \A id \in opened \ late : RecordsExact(id)

(* Handing over in parts, stopping, starting and powering down neither lose *)
(* nor repeat a byte of what the peer sent since the channel was opened     *)
(* (and had outstanding then), unless a wake-up unmasked the channel while  *)
(* its user owed the clearing of the indication.                            *)
RecvFifo == \A id \in opened \ rewoken : TakenInOrder(id)

(* The wake lock is held exactly while a channel has a message the peer has *)
(* not acknowledged, or was closed with one: hal_intersys_close leaves the  *)
(* busy flag set, and only the next acknowledged message resets it.         *)
BusyExact ==
    /\ busy_now = (chan_busy # {})
    /\ chan_busy = {id \in Ids : send_msg_list[id] # <<>>} \cup leaked

(* While the core is powered down none of its messages is shown to the peer *)
(* or waits to be, and (same excuses as in SendFifo) no indication waits in *)
(* the registers that lose power.                                           *)
AsleepSafe ==
    asleep => /\ \A id \in Ids : send_msg_list[id] = <<>> /\ send_pending_list[id] = <<>>
              /\ tx_ind \subseteq tainted \cup late

(* What a channel sends is acknowledged, the waiting messages too, unless   *)
(* the channel is closed or an assertion stopped the core.                  *)
Acknowledged ==
    \A id \in Ids :
        send_msg_list[id] # <<>> ~> (send_msg_list[id] = <<>> \/ id \notin opened \/ asserted)

(* What the peer sends is taken, unless the channel is closed.              *)
Received ==
    \A id \in Ids :
        p_list[id] # <<>> ~> (p_list[id] = <<>> \/ id \notin opened \/ asserted)

-----------------------------------------------------------------------------
(* What the code's comments and assertions say and the model refutes (see  *)
(* Observations in the README).                                            *)

(* The assertion "INTERSYS-RX: Handler missing" of the receive interrupt    *)
(* holds when receiving is stopped on each channel before it is closed.     *)
HandlerAlways == asserted => rash

(* The receive handler of a channel is not called while receiving is        *)
(* stopped on it.                                                           *)
NotWhileStopped ==
    [][\A id \in Ids : (opens'[id] = opens[id] /\ got'[id] # got[id]) => id \in rx_en]_vars

(* The list that the receive interrupt takes for a new message ("New        *)
(* message") was not handed over before.                                    *)
NewMessage ==
    [][\A id \in Ids : (opens'[id] = opens[id] /\ got'[id] # got[id]) => id \notin owes]_vars

(* A session is spared what a sender of the previous one does while the     *)
(* channel is being opened.                                                 *)
SendFifoLate == \A id \in opened \ tainted : ReadInOrder(id)
InUseLate == \A id \in opened : RecordsExact(id)

(* A session is spared what the peer still reads of the previous one.      *)
SendFifoReopened == \A id \in opened \ late : ReadInOrder(id)

(* No byte is lost or repeated whenever the core powers down.              *)
RecvFifoWoken == \A id \in opened : TakenInOrder(id)

-----------------------------------------------------------------------------
(* The interrupt hands a list over again only where a wake-up unmasked the  *)
(* channel while its user owed the clearing.                                *)
RepeatsOnlyWoken ==
    [][\A id \in Ids :
         (opens'[id] = opens[id] /\ got'[id] # got[id] /\ id \in owes) => id \in rewoken]_vars
================================================================================
