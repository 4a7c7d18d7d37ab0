---------------------------- MODULE IntersysProofs ----------------------------
(***************************************************************************)
(* Proofs about the link to the Bluetooth controller: for every set of     *)
(* channels, number of records, number and length of messages, the types   *)
(* are kept, the wake lock is held exactly when it should be (BusyExact),  *)
(* and the core never powers down with a message under way (AsleepSafe).   *)
(* In the sessions that no late send or early reading spoilt while they    *)
(* were opened, no send record is lost or used twice (InUseExact) and the  *)
(* peer reads what was sent, in order and once (SendFifo); in those where  *)
(* no wake-up unmasked a list still owed for, so does the user (RecvFifo). *)
(*                                                                         *)
(* Three layers: LinkInv for flags and wake lock, SendingInv for records   *)
(* and the text of the lists, ReceivingInv for the peer's lists.           *)
(***************************************************************************)
EXTENDS Intersys, SequenceTheorems, TLAPS

(* The channel is open or its owner is opening or closing it.              *)
Live(id) == id \in opened \/ (owner.op # "idle" /\ owner.id = id)

(* The owner is about to clear the channel's indication and done.          *)
Clearing(id) == owner.op = "clear" /\ owner.id = id

(* What is true of each channel.  In a session that was not spoilt while it *)
(* was opened, indication, done and reading all stand for a message whose   *)
(* channel is busy; while the channel is live they stand for the list that  *)
(* is shown, one after the other.  While the channel is half open there is  *)
(* none, and once its lists are cleared they stay empty.                    *)
ChannelInv(id) ==
    /\ send_pending_list[id] # <<>> => send_msg_list[id] # <<>>
    /\ id \in chan_busy <=> (send_msg_list[id] # <<>> \/ id \in leaked)
    /\ id \in tx_msk => Live(id)
    /\ id \notin tainted /\ id \notin late /\ ~Clearing(id) =>
         /\ id \in tx_ind \cup tx_done \cup reading => id \in chan_busy
         /\ Live(id) => /\ id \in reading => id \in tx_ind
                        /\ id \notin tx_ind \cap tx_done
                        /\ id \in tx_ind \cup tx_done => send_msg_list[id] # <<>>
    /\ HalfOpen(id) /\ id \notin tainted /\ id \notin late =>
         id \notin tx_ind \cup tx_done /\ sent[id] = <<>> /\ read[id] = <<>>
    /\ owner.op = "records" /\ owner.id = id /\ id \notin late => send_msg_list[id] = <<>>

LinkInv ==
    /\ \A id \in Ids : ChannelInv(id)
    /\ owner.op # "idle" => owner.id \notin opened
    /\ busy_now = (chan_busy # {})
    /\ asleep => ~busy_now /\ owner.op = "idle"

-----------------------------------------------------------------------------
(* Sequences.                                                              *)

(* What is left of a sequence is a sequence, and so is what was taken.      *)
LEMMA PartsAreSeqs ==
    ASSUME NEW s \in Seq(Nat), NEW n \in Nat, n <= Len(s)
    PROVE  From(s, n) \in Seq(Nat) /\ SubSeq(s, 1, n) \in Seq(Nat)
<1>1. \A i \in (n + 1)..Len(s) : s[i] \in Nat
  OBVIOUS
<1>2. \A i \in 1..n : s[i] \in Nat
  OBVIOUS
<1>3. n + 1 \in Int /\ Len(s) \in Int /\ 1 \in Int /\ n \in Int
  OBVIOUS
<1> QED  BY <1>1, <1>2, <1>3, SubSeqProperties DEF From

(* The contents of a list of records, as the peer reads them.              *)
LEMMA ReadIsSeq ==
    ASSUME NEW d \in [Recs -> Nat], NEW recs \in Seq(Recs)
    PROVE  [i \in DOMAIN recs |-> d[recs[i]]] \in Seq(Nat)
<1>1. DOMAIN recs = 1..Len(recs) /\ Len(recs) \in Nat
  OBVIOUS
<1>2. [i \in 1..Len(recs) |-> d[recs[i]]] \in [1..Len(recs) -> Nat]
  OBVIOUS
<1> QED  BY <1>1, <1>2

(* A shown list stays a list, and is not emptied, when a record is put at   *)
(* the end of the waiting one.                                              *)
LEMMA LinkedIsSeq ==
    ASSUME TypeOK, NEW id \in Ids, NEW r \in Recs, send_msg_list[id] # <<>>
    PROVE  Linked(id, r) \in Seq(Recs) /\ Linked(id, r) # <<>>
<1>1. PICK s \in Seq(Recs) : s = send_msg_list[id]
  BY DEF TypeOK
<1>2. PICK w \in Seq(Recs) : w = send_pending_list[id]
  BY DEF TypeOK
<1> DEFINE cut == IF r \in ToSet(s) THEN SubSeq(s, 1, CHOOSE i \in DOMAIN s : s[i] = r) ELSE s
<1>3. cut \in Seq(Recs) /\ cut # <<>>
  <2>1. CASE r \in ToSet(s)
    <3>1. \E i \in DOMAIN s : s[i] = r
      BY <2>1 DEF ToSet
    <3>2. PICK k \in DOMAIN s : k = CHOOSE i \in DOMAIN s : s[i] = r
      BY <3>1
    <3>3. k \in 1..Len(s) /\ k \in Int
      OBVIOUS
    <3>4. \A i \in 1..k : s[i] \in Recs
      BY <3>3
    <3>5. SubSeq(s, 1, k) \in Seq(Recs) /\ Len(SubSeq(s, 1, k)) = k
      BY <3>3, <3>4, SubSeqProperties
    <3>6. SubSeq(s, 1, k) # <<>>
      BY <3>3, <3>5
    <3> QED  BY <2>1, <3>2, <3>5, <3>6
  <2>2. CASE r \notin ToSet(s)
    BY <1>1, <2>2
  <2> QED  BY <2>1, <2>2
<1>4. Linked(id, r) = IF w # <<>> /\ cut[Len(cut)] = w[Len(w)] THEN Append(cut, r) ELSE cut
  BY <1>1, <1>2 DEF Linked
<1> HIDE DEF cut
<1>5. Append(cut, r) \in Seq(Recs) /\ Append(cut, r) # <<>>
  BY <1>3, AppendProperties
<1> QED  BY <1>3, <1>4, <1>5

-----------------------------------------------------------------------------
(* Types.                                                                  *)
LEMMA TypeInit == Init => TypeOK
<1> SUFFICES ASSUME Init PROVE TypeOK
  OBVIOUS
<1>1. Each(<<>>) \in [Ids -> Seq(Recs)] /\ Each(<<>>) \in [Ids -> Seq(Nat)]
  BY DEF Each
<1>2. Each(0) \in [Ids -> Nat] /\ Each({}) \in [Ids -> SUBSET Recs]
  BY DEF Each
<1>3. Each([r \in Recs |-> 0]) \in [Ids -> [Recs -> Nat]]
  BY DEF Each
<1>4. owner \in Owners
  BY DEF Init, Owners
<1> QED  BY <1>1, <1>2, <1>3, <1>4 DEF Init, TypeOK

(* The owner's next step of an opening.                                    *)
LEMMA OwnerStep ==
    ASSUME TypeOK, NEW op \in {"clear", "lists", "records", "open"},
           owner.op \in {"clear", "lists", "records", "open"},
           owner' = [owner EXCEPT !.op = op]
    PROVE  /\ owner.id \in Ids /\ owner'.op = op /\ owner'.id = owner.id
           /\ owner' \in Owners
<1>1. owner \in Opening
  BY DEF TypeOK, Owners, Opening
<1>2. owner.id \in Ids /\ owner'.op = op /\ owner'.id = owner.id /\ owner' \in Opening
  BY <1>1 DEF Opening
<1> QED  BY <1>2 DEF Owners

LEMMA TypeNext == TypeOK /\ [Next]_vars => TypeOK'
<1> SUFFICES ASSUME TypeOK, [Next]_vars PROVE TypeOK'
  OBVIOUS
<1>1. ASSUME NEW id \in Ids, SendCheck(id) PROVE TypeOK'
  BY <1>1 DEF SendCheck, TypeOK, sendVars, openVars, txFlags, rxFlags, peerReads, peerSends,
      sendHist, recvHist
<1>2. ASSUME NEW id \in Ids, SendPut(id) PROVE TypeOK'
  <2>1. CASE FreeRecord(id) = {}
    BY <1>2, <2>1 DEF SendPut, TypeOK, sendVars, openVars, txFlags, rxFlags, peerReads, peerSends,
        sendHist, recvHist
  <2>2. CASE FreeRecord(id) # {}
    <3>1. PICK r \in FreeRecord(id) :
            LET msg   == Len(sent[id]) + 1
                first == send_msg_list[id] = <<>>
            IN  /\ in_use' = [in_use EXCEPT ![id] = @ \cup {r}]
                /\ data' = [data EXCEPT ![id][r] = msg]
                /\ send_msg_list' =
                     [send_msg_list EXCEPT ![id] = IF first THEN <<r>> ELSE Linked(id, r)]
                /\ send_pending_list' =
                     [send_pending_list EXCEPT ![id] = IF first THEN @ ELSE Append(@, r)]
                /\ tx_ind' = IF first THEN tx_ind \cup {id} ELSE tx_ind
                /\ chan_busy' = chan_busy \cup {id}
                /\ busy_now' = hal_intersys_busy(chan_busy')
                /\ sent' = [sent EXCEPT ![id] = Append(@, msg)]
                /\ late' = IF HalfOpen(id) THEN late \cup {id} ELSE late
      BY <1>2, <2>2 DEF SendPut
    <3>2. r \in Recs
      BY DEF FreeRecord
    <3>3. Len(sent[id]) + 1 \in Nat
      BY DEF TypeOK
    <3>4. sent' \in [Ids -> Seq(Nat)] /\ data' \in [Ids -> [Recs -> Nat]]
      <4>1. PICK m \in Nat : m = Len(sent[id]) + 1
        BY <3>3
      <4>2. sent' = [sent EXCEPT ![id] = Append(@, m)] /\ sent \in [Ids -> Seq(Nat)]
        BY <3>1, <4>1 DEF TypeOK
      <4>3. data' = [data EXCEPT ![id][r] = m] /\ data \in [Ids -> [Recs -> Nat]]
        BY <3>1, <4>1 DEF TypeOK
      <4>4. sent' \in [Ids -> Seq(Nat)]
        BY <4>2
      <4>5. data' \in [Ids -> [Recs -> Nat]]
        BY <3>2, <4>3
      <4> QED  BY <4>4, <4>5
    <3>5. send_msg_list' \in [Ids -> Seq(Recs)] /\ send_pending_list' \in [Ids -> Seq(Recs)]
      <4>1. send_msg_list[id] # <<>> => Linked(id, r) \in Seq(Recs)
        BY <3>2, LinkedIsSeq
      <4> QED  BY <3>1, <3>2, <4>1 DEF TypeOK
    <3>6. /\ in_use' \in [Ids -> SUBSET Recs] /\ chan_busy' \subseteq Ids
          /\ tx_ind' \subseteq Ids /\ late' \subseteq Ids
      BY <3>1, <3>2 DEF TypeOK
    <3>7. busy_now' \in BOOLEAN
      BY <3>1 DEF TypeOK, hal_intersys_busy
    <3> QED
      BY <1>2, <3>4, <3>5, <3>6, <3>7 DEF SendPut, TypeOK, openVars, txFlags, rxFlags, peerReads,
         peerSends, sendHist, recvHist
  <2> QED  BY <2>1, <2>2
<1>3. ASSUME hal_intersys_tx_irq_handler PROVE TypeOK'
  <2>1. TxActive \subseteq Ids
    BY DEF TxActive, TypeOK
  <2>2. send_msg_list' \in [Ids -> Seq(Recs)] /\ send_pending_list' \in [Ids -> Seq(Recs)]
    BY <1>3 DEF hal_intersys_tx_irq_handler, TypeOK
  <2>3. in_use' \in [Ids -> SUBSET Recs]
    BY <1>3 DEF hal_intersys_tx_irq_handler, TypeOK, Freed
  <2>4. busy_now' \in BOOLEAN /\ chan_busy' \subseteq Ids
    BY <1>3 DEF hal_intersys_tx_irq_handler, TypeOK, hal_intersys_busy, StillBusy
  <2>5. tx_done' \subseteq Ids /\ tx_ind' \subseteq Ids /\ leaked' \subseteq Ids
    BY <1>3, <2>1 DEF hal_intersys_tx_irq_handler, TypeOK
  <2> QED
    BY <1>3, <2>2, <2>3, <2>4, <2>5 DEF hal_intersys_tx_irq_handler, TypeOK, openVars, rxFlags,
       peerReads, peerSends, recvHist
<1>4. ASSUME hal_intersys_rx_irq_handler PROVE TypeOK'
  <2>1. CASE UNCHANGED <<recv_pending_head, rx_ind, rx_msk, peerSends, recvHist>> /\ asserted' = TRUE
    BY <1>4, <2>1 DEF hal_intersys_rx_irq_handler, TypeOK, sendVars, openVars, txFlags, peerReads,
       peerSends, sendHist, recvHist
  <2>2. ASSUME NEW n \in [RxActive -> 0..(RX_MSGS * LEN)], RxServe(RxActive, n) PROVE TypeOK'
    <3>1. RxActive \subseteq Ids
      BY DEF RxActive, TypeOK
    <3>2. ASSUME NEW id \in RxActive
          PROVE  From(RecvList(id), n[id]) \in Seq(Nat) /\ SubSeq(RecvList(id), 1, n[id]) \in Seq(Nat)
      <4>1. RecvList(id) \in Seq(Nat)
        BY <3>1 DEF RecvList, TypeOK
      <4>2. n[id] \in Nat
        <5>1. RX_MSGS * LEN \in Nat
          BY IntersysAssumption DEF IntersysAssumption
        <5> QED  BY <5>1
      <4>3. n[id] <= Len(RecvList(id))
        BY <2>2 DEF RxServe
      <4> QED  BY <4>1, <4>2, <4>3, PartsAreSeqs
    <3>3. recv_pending_head' \in [Ids -> Seq(Nat)]
      BY <2>2, <3>2 DEF RxServe, TypeOK
    <3>4. got' \in [Ids -> Seq(Nat)]
      BY <2>2, <3>2 DEF RxServe, TypeOK
    <3>5. rx_ind' \subseteq Ids /\ p_done' \subseteq Ids /\ rx_msk' \subseteq Ids /\ owes' \subseteq Ids
      BY <2>2, <3>1 DEF RxServe, TypeOK, hal_intersys_rx_done
    <3> QED
      BY <1>4, <2>2, <3>3, <3>4, <3>5 DEF hal_intersys_rx_irq_handler, RxServe, TypeOK, sendVars,
         openVars, txFlags, peerReads, sendHist
  <2> QED  BY <1>4, <2>1, <2>2 DEF hal_intersys_rx_irq_handler
<1>5. ASSUME NEW id \in Ids, RxDone(id) PROVE TypeOK'
  BY <1>5 DEF RxDone, hal_intersys_rx_done, TypeOK, sendVars, openVars, txFlags, peerReads,
     sendHist
<1>6. ASSUME NEW id \in Ids, hal_intersys_start_recv(id) PROVE TypeOK'
  BY <1>6 DEF hal_intersys_start_recv, Resumed, TypeOK, sendVars, openVars, txFlags, peerReads,
     peerSends, sendHist, recvHist
<1>7. ASSUME NEW id \in Ids, hal_intersys_stop_recv(id) PROVE TypeOK'
  BY <1>7 DEF hal_intersys_stop_recv, TypeOK, sendVars, openVars, txFlags, peerReads, peerSends,
     sendHist, recvHist
<1>8. ASSUME NEW id \in Ids, NEW fc \in BOOLEAN, OpenBegin(id, fc) PROVE TypeOK'
  <2>1. owner' \in Owners
    BY <1>8 DEF OpenBegin, Owners, Opening
  <2>2. /\ rx_en' \subseteq Ids /\ tx_en' \subseteq Ids /\ rx_msk' \subseteq Ids
        /\ tx_msk' \subseteq Ids
    BY <1>8 DEF OpenBegin, TypeOK
  <2> QED
    BY <1>8, <2>1, <2>2 DEF OpenBegin, TypeOK, sendVars, peerReads, peerSends, sendHist, recvHist
<1>8a. ASSUME OpenClear PROVE TypeOK'
  <2>1. owner.id \in Ids /\ owner' \in Owners
    BY <1>8a, OwnerStep DEF OpenClear
  <2>2. /\ tx_done' \subseteq Ids /\ tx_ind' \subseteq Ids /\ tainted' \subseteq Ids
        /\ late' \subseteq Ids
    BY <1>8a, <2>1 DEF OpenClear, TypeOK
  <2>3. sent' \in [Ids -> Seq(Nat)] /\ read' \in [Ids -> Seq(Nat)]
    BY <1>8a, <2>1 DEF OpenClear, TypeOK
  <2> QED
    BY <1>8a, <2>1, <2>2, <2>3 DEF OpenClear, TypeOK, sendVars, rxFlags, peerReads, peerSends,
       recvHist
<1>8b. ASSUME OpenLists PROVE TypeOK'
  <2>1. owner.id \in Ids /\ owner' \in Owners
    BY <1>8b, OwnerStep DEF OpenLists
  <2>2. send_msg_list' \in [Ids -> Seq(Recs)] /\ send_pending_list' \in [Ids -> Seq(Recs)]
    BY <1>8b, <2>1 DEF OpenLists, TypeOK
  <2>3. recv_pending_head' \in [Ids -> Seq(Nat)] /\ leaked' \subseteq Ids
    BY <1>8b, <2>1 DEF OpenLists, TypeOK
  <2> QED
    BY <1>8b, <2>1, <2>2, <2>3 DEF OpenLists, TypeOK, txFlags, rxFlags, peerReads, peerSends,
       recvHist
<1>8c. ASSUME OpenRecords PROVE TypeOK'
  <2>1. owner.id \in Ids /\ owner' \in Owners
    BY <1>8c, OwnerStep DEF OpenRecords
  <2>2. Outstanding(owner.id) \in Seq(Nat)
    BY <2>1 DEF Outstanding, TypeOK
  <2>3. due' \in [Ids -> Seq(Nat)] /\ got' \in [Ids -> Seq(Nat)]
    BY <1>8c, <2>1, <2>2 DEF OpenRecords, TypeOK
  <2>4. in_use' \in [Ids -> SUBSET Recs]
    BY <1>8c, <2>1 DEF OpenRecords, TypeOK
  <2>5. opens' \in [Ids -> Nat]
    <3>1. PICK id \in Ids : id = owner.id
      BY <2>1
    <3>2. opens \in [Ids -> Nat] /\ opens' = [opens EXCEPT ![id] = @ + 1]
      BY <1>8c, <3>1 DEF OpenRecords, TypeOK
    <3>3. opens[id] + 1 \in Nat
      BY <3>2
    <3> QED  BY <3>2, <3>3
  <2>6. /\ need_flow_ctrl' \subseteq Ids /\ tx_en' \subseteq Ids /\ owes' \subseteq Ids
        /\ rewoken' \subseteq Ids
    BY <1>8c, <2>1 DEF OpenRecords, TypeOK
  <2> QED
    BY <1>8c, <2>1, <2>3, <2>4, <2>5, <2>6 DEF OpenRecords, TypeOK, rxFlags, peerReads, peerSends,
       sendHist
<1>9. ASSUME OpenEnd PROVE TypeOK'
  <2>1. owner.id \in Ids /\ owner' \in Owners
    BY <1>9 DEF OpenEnd, TypeOK, Owners, Opening
  <2> QED
    BY <1>9, <2>1 DEF OpenEnd, TypeOK, sendVars, txFlags, rxFlags, peerReads, peerSends, sendHist, recvHist
<1>10. ASSUME NEW id \in Ids, CloseBegin(id) PROVE TypeOK'
  <2>1. owner' \in Owners
    BY <1>10 DEF CloseBegin, Owners
  <2>2. rash' \in BOOLEAN
    BY <1>10 DEF CloseBegin
  <2> QED
    BY <1>10, <2>1, <2>2 DEF CloseBegin, TypeOK, sendVars, txFlags, rxFlags, peerReads, peerSends, sendHist,
     recvHist
<1>11. ASSUME CloseEnd PROVE TypeOK'
  <2>1. owner.id \in Ids
    BY <1>11 DEF CloseEnd, TypeOK, Owners, Opening
  <2>2. owner' \in Owners
    BY <1>11 DEF CloseEnd, Owners
  <2>3. send_msg_list' \in [Ids -> Seq(Recs)] /\ send_pending_list' \in [Ids -> Seq(Recs)]
    BY <1>11, <2>1 DEF CloseEnd, TypeOK
  <2>4. recv_pending_head' \in [Ids -> Seq(Nat)]
    BY <1>11, <2>1 DEF CloseEnd, TypeOK
  <2>5. /\ rx_en' \subseteq Ids /\ tx_en' \subseteq Ids /\ rx_msk' \subseteq Ids
        /\ tx_msk' \subseteq Ids /\ leaked' \subseteq Ids /\ need_flow_ctrl' \subseteq Ids
    BY <1>11, <2>1 DEF CloseEnd, TypeOK
  <2> QED
    BY <1>11, <2>2, <2>3, <2>4, <2>5 DEF CloseEnd, TypeOK, peerReads, peerSends, recvHist
<1>12. ASSUME PowerDown PROVE TypeOK'
  <2>1. naps' \in Nat
    BY <1>12 DEF PowerDown, TypeOK
  <2> QED
    BY <1>12, <2>1 DEF PowerDown, TypeOK, sendVars, openVars, peerReads, peerSends, sendHist
<1>13. ASSUME hal_intersys_pm_notif_handler PROVE TypeOK'
  BY <1>13 DEF hal_intersys_pm_notif_handler, TxMskRestored, TypeOK, sendVars, openVars, peerReads,
     peerSends, sendHist, recvHist
<1>14. ASSUME NEW id \in Ids, PeerTake(id) PROVE TypeOK'
  BY <1>14 DEF PeerTake, TypeOK, sendVars, openVars, txFlags, rxFlags, peerSends, sendHist, recvHist
<1>15. ASSUME NEW id \in Ids, PeerDone(id) PROVE TypeOK'
  <2>1. Contents(id, reads[id]) \in Seq(Nat)
    <3>1. data[id] \in [Recs -> Nat] /\ reads[id] \in Seq(Recs)
      BY DEF TypeOK
    <3> QED  BY <3>1, ReadIsSeq DEF Contents
  <2>2. read' \in [Ids -> Seq(Nat)] /\ reads' \in [Ids -> Seq(Recs)]
    BY <1>15, <2>1 DEF PeerDone, TypeOK
  <2> QED
    BY <1>15, <2>2 DEF PeerDone, TypeOK, sendVars, openVars, rxFlags, peerSends, recvHist
<1>16. ASSUME NEW id \in Ids, PeerSend(id) PROVE TypeOK'
  <2> DEFINE msg == [i \in 1..LEN |-> p_bytes[id] + i]
  <2>1. LEN \in Nat /\ p_bytes[id] \in Nat
    BY IntersysAssumption DEF IntersysAssumption, TypeOK
  <2>2. msg \in Seq(Nat)
    <3>1. msg \in [1..LEN -> Nat]
      BY <2>1
    <3> QED  BY <2>1, <3>1
  <2>3. /\ p_bytes' = [p_bytes EXCEPT ![id] = @ + LEN]
        /\ p_list' = [p_list EXCEPT ![id] = IF p_list[id] = <<>> THEN msg ELSE @]
        /\ p_pending' = [p_pending EXCEPT ![id] = IF p_list[id] = <<>> THEN @ ELSE @ \o msg]
        /\ due' = [due EXCEPT ![id] = @ \o msg]
        /\ rx_ind' = IF p_list[id] = <<>> THEN rx_ind \cup {id} ELSE rx_ind
    BY <1>16 DEF PeerSend
  <2> HIDE DEF msg
  <2>4. p_bytes' \in [Ids -> Nat]
    <3>1. p_bytes \in [Ids -> Nat] /\ p_bytes[id] + LEN \in Nat
      BY <2>1 DEF TypeOK
    <3> QED  BY <2>3, <3>1
  <2>5. p_list' \in [Ids -> Seq(Nat)]
    BY <2>2, <2>3 DEF TypeOK
  <2>6. p_pending' \in [Ids -> Seq(Nat)]
    BY <2>2, <2>3 DEF TypeOK
  <2>7. due' \in [Ids -> Seq(Nat)]
    BY <2>2, <2>3 DEF TypeOK
  <2>8. rx_ind' \subseteq Ids
    BY <2>3 DEF TypeOK
  <2> QED
    BY <1>16, <2>4, <2>5, <2>6, <2>7, <2>8 DEF PeerSend, TypeOK, sendVars, openVars, txFlags,
       peerReads, sendHist
<1>17. ASSUME NEW id \in Ids, PeerTxDone(id) PROVE TypeOK'
  <2>1. /\ p_list' \in [Ids -> Seq(Nat)] /\ p_pending' \in [Ids -> Seq(Nat)]
        /\ rx_ind' \subseteq Ids /\ p_done' \subseteq Ids
    BY <1>17 DEF PeerTxDone, TypeOK
  <2> QED
    BY <1>17, <2>1 DEF PeerTxDone, TypeOK, sendVars, openVars, txFlags, peerReads, sendHist, recvHist
<1>18. CASE UNCHANGED vars
  BY <1>18 DEF vars, TypeOK, sendVars, openVars, txFlags, rxFlags, peerReads, peerSends, sendHist,
     recvHist
<1> QED
  BY <1>1, <1>2, <1>3, <1>4, <1>5, <1>6, <1>7, <1>8, <1>8a, <1>8b, <1>8c, <1>9, <1>10, <1>11,
     <1>12, <1>13,
     <1>14, <1>15, <1>16, <1>17, <1>18 DEF Next

(* The types are kept, for every set of channels and number of records.    *)
THEOREM TypeCorrect == Spec => []TypeOK
BY TypeInit, TypeNext, PTL DEF Spec

-----------------------------------------------------------------------------
(* The link.                                                               *)
LEMMA LinkInit == Init => LinkInv
BY DEF Init, LinkInv, ChannelInv, Clearing, HalfOpen, Each

(* A step that leaves the sending side of the channels, the owner and power *)
(* alone leaves the invariant alone.                                        *)
LEMMA LinkFrame ==
    ASSUME LinkInv,
           UNCHANGED <<send_msg_list, send_pending_list, chan_busy, busy_now, opened, owner,
                       asleep, txFlags, reading, sendHist>>
    PROVE  LinkInv'
BY DEF LinkInv, ChannelInv, Live, Clearing, HalfOpen, txFlags, sendHist

LEMMA LinkNext == TypeOK /\ LinkInv /\ [Next]_vars => LinkInv'
<1> SUFFICES ASSUME TypeOK, LinkInv, [Next]_vars PROVE LinkInv'
  OBVIOUS
<1>1. ASSUME NEW id \in Ids, SendCheck(id) PROVE LinkInv'
  BY <1>1, LinkFrame DEF SendCheck, sendVars, openVars, peerReads, sendHist
<1>2. ASSUME NEW id \in Ids, SendPut(id) PROVE LinkInv'
  <2>1. CASE FreeRecord(id) = {}
    BY <1>2, <2>1, LinkFrame DEF SendPut, sendVars, openVars, peerReads, txFlags, sendHist
  <2>2. CASE FreeRecord(id) # {}
    <3>1. PICK r \in FreeRecord(id) :
            /\ send_msg_list' =
                 [send_msg_list EXCEPT ![id] = IF send_msg_list[id] = <<>> THEN <<r>> ELSE Linked(id, r)]
            /\ send_pending_list' =
                 [send_pending_list EXCEPT ![id] =
                    IF send_msg_list[id] = <<>> THEN @ ELSE Append(@, r)]
            /\ tx_ind' = IF send_msg_list[id] = <<>> THEN tx_ind \cup {id} ELSE tx_ind
            /\ chan_busy' = chan_busy \cup {id}
            /\ busy_now' = hal_intersys_busy(chan_busy')
            /\ late' = IF HalfOpen(id) THEN late \cup {id} ELSE late
            /\ sent' = [sent EXCEPT ![id] = Append(@, Len(sent[id]) + 1)]
      BY <1>2, <2>2 DEF SendPut
    <3>2. busy_now' = (chan_busy' # {})
      BY <3>1 DEF hal_intersys_busy, LinkInv
    <3>3. /\ UNCHANGED <<opened, owner, asleep, tx_done, tx_msk, tx_en, reading, read, tainted,
                         leaked>>
          /\ ~asleep
      BY <1>2 DEF SendPut, openVars, peerReads, Up
    <3>4. send_msg_list'[id] # <<>>
      <4>1. send_msg_list[id] # <<>> => Linked(id, r) # <<>>
        BY LinkedIsSeq DEF FreeRecord
      <4> QED  BY <3>1, <4>1 DEF TypeOK
    <3>5. \A j \in Ids : j # id => /\ send_msg_list'[j] = send_msg_list[j]
                                  /\ send_pending_list'[j] = send_pending_list[j]
                                  /\ sent'[j] = sent[j] /\ (j \in late' <=> j \in late)
      BY <3>1 DEF TypeOK
    <3>6. ASSUME NEW j \in Ids PROVE ChannelInv(j)'
      <4>1. CASE j = id
        <5>1. HalfOpen(id)' <=> HalfOpen(id)
          BY <3>3 DEF HalfOpen
        <5>2. HalfOpen(id) => id \in late'
          BY <3>1
        <5>3. id \notin late' => id \notin late
          BY <3>1
        <5>4. owner.op = "records" /\ owner.id = id => HalfOpen(id)
          BY DEF HalfOpen
        <5> QED
          BY <3>1, <3>3, <3>4, <4>1, <5>1, <5>2, <5>3, <5>4 DEF LinkInv, ChannelInv, Live, Clearing
      <4>2. CASE j # id
        BY <3>1, <3>3, <3>5, <4>2 DEF LinkInv, ChannelInv, Live, Clearing, HalfOpen
      <4> QED  BY <4>1, <4>2
    <3> QED  BY <3>2, <3>3, <3>6 DEF LinkInv
  <2> QED  BY <2>1, <2>2
<1>3. ASSUME hal_intersys_tx_irq_handler PROVE LinkInv'
  <2>1. TxActive \subseteq Ids
    BY DEF TxActive, TypeOK
  <2>2. /\ \A j \in Ids :
             /\ j \in TxActive => /\ send_msg_list'[j] = send_pending_list[j]
                                 /\ send_pending_list'[j] = <<>>
             /\ j \notin TxActive => /\ send_msg_list'[j] = send_msg_list[j]
                                    /\ send_pending_list'[j] = send_pending_list[j]
    BY <1>3 DEF hal_intersys_tx_irq_handler
  <2>3. /\ tx_done' = tx_done \ TxActive
        /\ tx_ind' = tx_ind \cup {j \in TxActive : send_pending_list[j] # <<>>}
        /\ chan_busy' = chan_busy \ {j \in TxActive : send_pending_list[j] = <<>>}
        /\ busy_now' = hal_intersys_busy(chan_busy')
        /\ leaked' = leaked \cap chan_busy'
    BY <1>3 DEF hal_intersys_tx_irq_handler, StillBusy
  <2>4. /\ UNCHANGED <<opened, owner, asleep, tx_msk, tx_en, reading, sent, read, tainted, late>>
        /\ ~asleep
    BY <1>3 DEF hal_intersys_tx_irq_handler, openVars, peerReads, Up
  <2>5. busy_now' = (chan_busy' # {})
    BY <2>3 DEF hal_intersys_busy, LinkInv
  <2>6. ASSUME NEW j \in Ids PROVE ChannelInv(j)'
    <3>1. CASE j \in TxActive
      <4>1. j \in tx_done /\ Live(j)
        BY <3>1 DEF TxActive, LinkInv, ChannelInv
      <4> QED  BY <2>2, <2>3, <2>4, <3>1, <4>1 DEF LinkInv, ChannelInv, Live, Clearing, HalfOpen
    <3>2. CASE j \notin TxActive
      BY <2>2, <2>3, <2>4, <3>2 DEF LinkInv, ChannelInv, Live, Clearing, HalfOpen
    <3> QED  BY <3>1, <3>2
  <2> QED  BY <2>4, <2>5, <2>6 DEF LinkInv
<1>4. ASSUME hal_intersys_rx_irq_handler PROVE LinkInv'
  BY <1>4, LinkFrame DEF hal_intersys_rx_irq_handler, sendVars, openVars, peerReads, sendHist
<1>5. ASSUME NEW id \in Ids, RxDone(id) PROVE LinkInv'
  BY <1>5, LinkFrame DEF RxDone, sendVars, openVars, peerReads, sendHist
<1>6. ASSUME NEW id \in Ids, hal_intersys_start_recv(id) PROVE LinkInv'
  BY <1>6, LinkFrame DEF hal_intersys_start_recv, sendVars, openVars, peerReads, sendHist
<1>7. ASSUME NEW id \in Ids, hal_intersys_stop_recv(id) PROVE LinkInv'
  BY <1>7, LinkFrame DEF hal_intersys_stop_recv, sendVars, openVars, peerReads, sendHist
<1>8. ASSUME NEW id \in Ids, NEW fc \in BOOLEAN, OpenBegin(id, fc) PROVE LinkInv'
  <2>1. /\ owner'.op = "clear" /\ owner'.id = id /\ owner.op = "idle" /\ id \notin opened
        /\ tx_msk' = tx_msk \cup {id} /\ ~asleep
        /\ UNCHANGED <<send_msg_list, send_pending_list, opened, chan_busy, busy_now, asleep,
                       tx_ind, tx_done, reading, sent, read, tainted, late, leaked>>
    BY <1>8 DEF OpenBegin, OwnerIdle, Up, sendVars, peerReads, sendHist
  <2>2. ASSUME NEW j \in Ids PROVE ChannelInv(j)'
    <3>1. CASE j = id
      BY <2>1, <3>1 DEF LinkInv, ChannelInv, Live, Clearing, HalfOpen
    <3>2. CASE j # id
      BY <2>1, <3>2 DEF LinkInv, ChannelInv, Live, Clearing, HalfOpen
    <3> QED  BY <3>1, <3>2
  <2> QED  BY <2>1, <2>2 DEF LinkInv
<1>8a. ASSUME OpenClear PROVE LinkInv'
  <2>0. PICK id \in Ids : id = owner.id /\ owner.op = "clear" /\ owner'.op = "lists" /\ owner'.id = id
    BY <1>8a, OwnerStep DEF OpenClear
  <2>1. /\ tx_done' = tx_done \ {id} /\ tx_ind' = tx_ind \ {id} /\ ~asleep
        /\ tainted' = IF id \in reading THEN tainted \cup {id} ELSE tainted \ {id}
        /\ late' = late \ {id}
        /\ UNCHANGED <<send_msg_list, send_pending_list, opened, chan_busy, busy_now, asleep,
                       tx_msk, reading, leaked>>
    BY <1>8a, <2>0 DEF OpenClear, Up, sendVars, peerReads
  <2>2. /\ sent'[id] = <<>> /\ read'[id] = <<>>
        /\ \A j \in Ids : j # id => sent'[j] = sent[j] /\ read'[j] = read[j]
    BY <1>8a, <2>0 DEF OpenClear, TypeOK
  <2>3. ASSUME NEW j \in Ids PROVE ChannelInv(j)'
    <3>1. CASE j = id
      BY <2>0, <2>1, <2>2, <3>1 DEF LinkInv, ChannelInv, Live, Clearing, HalfOpen
    <3>2. CASE j # id
      BY <2>0, <2>1, <2>2, <3>2 DEF LinkInv, ChannelInv, Live, Clearing, HalfOpen
    <3> QED  BY <3>1, <3>2
  <2> QED  BY <2>0, <2>1, <2>3 DEF LinkInv
<1>8b. ASSUME OpenLists PROVE LinkInv'
  <2>0. PICK id \in Ids :
          id = owner.id /\ owner.op = "lists" /\ owner'.op = "records" /\ owner'.id = id
    BY <1>8b, OwnerStep DEF OpenLists
  <2>1. /\ leaked' = IF id \in chan_busy THEN leaked \cup {id} ELSE leaked
        /\ ~asleep
        /\ UNCHANGED <<opened, chan_busy, busy_now, asleep, tx_ind, tx_done, tx_msk, reading, sent,
                       read, tainted, late>>
    BY <1>8b, <2>0 DEF OpenLists, Up, peerReads, txFlags
  <2>2. send_msg_list'[id] = <<>> /\ send_pending_list'[id] = <<>>
    BY <1>8b, <2>0 DEF OpenLists, TypeOK
  <2>3. \A j \in Ids : j # id => /\ send_msg_list'[j] = send_msg_list[j]
                                /\ send_pending_list'[j] = send_pending_list[j]
    BY <1>8b, <2>0 DEF OpenLists, TypeOK
  <2>4. ASSUME NEW j \in Ids PROVE ChannelInv(j)'
    <3>1. CASE j = id
      BY <2>0, <2>1, <2>2, <3>1 DEF LinkInv, ChannelInv, Live, Clearing, HalfOpen
    <3>2. CASE j # id
      BY <2>0, <2>1, <2>3, <3>2 DEF LinkInv, ChannelInv, Live, Clearing, HalfOpen
    <3> QED  BY <3>1, <3>2
  <2> QED  BY <2>0, <2>1, <2>4 DEF LinkInv
<1>8c. ASSUME OpenRecords PROVE LinkInv'
  <2>0. PICK id \in Ids :
          id = owner.id /\ owner.op = "records" /\ owner'.op = "open" /\ owner'.id = id
    BY <1>8c, OwnerStep DEF OpenRecords
  <2>1. /\ ~asleep
        /\ UNCHANGED <<send_msg_list, send_pending_list, opened, chan_busy, busy_now, asleep,
                       tx_ind, tx_done, tx_msk, reading, sent, read, tainted, late, leaked>>
    BY <1>8c, <2>0 DEF OpenRecords, Up, peerReads, sendHist
  <2> QED  BY <2>0, <2>1 DEF LinkInv, ChannelInv, Live, Clearing, HalfOpen
<1>9. ASSUME OpenEnd PROVE LinkInv'
  <2>1. /\ opened' = opened \cup {owner.id} /\ owner'.op = "idle" /\ owner.op = "open"
        /\ UNCHANGED <<send_msg_list, send_pending_list, chan_busy, busy_now, asleep, txFlags,
                       reading, sent, read, tainted, late, leaked>>
    BY <1>9 DEF OpenEnd, sendVars, peerReads, sendHist
  <2>2. \A j \in Ids : Live(j)' <=> Live(j)
    BY <2>1 DEF Live
  <2> QED  BY <2>1, <2>2 DEF LinkInv, ChannelInv, Clearing, HalfOpen, txFlags
<1>10. ASSUME NEW id \in Ids, CloseBegin(id) PROVE LinkInv'
  <2>1. /\ opened' = opened \ {id} /\ owner'.op = "close" /\ owner'.id = id
        /\ owner.op = "idle" /\ id \in opened /\ ~asleep
        /\ UNCHANGED <<send_msg_list, send_pending_list, chan_busy, busy_now, asleep, txFlags,
                       reading, sent, read, tainted, late, leaked>>
    BY <1>10 DEF CloseBegin, OwnerIdle, Up, sendVars, peerReads, sendHist
  <2>2. \A j \in Ids : Live(j)' <=> Live(j)
    BY <2>1 DEF Live
  <2> QED  BY <2>1, <2>2 DEF LinkInv, ChannelInv, Clearing, HalfOpen, txFlags
<1>11. ASSUME CloseEnd PROVE LinkInv'
  <2>1. owner.id \in Ids /\ owner.op = "close" /\ owner.id \notin opened
    BY <1>11 DEF CloseEnd, TypeOK, LinkInv, Owners, Opening
  <2>2. /\ owner' = [op |-> "idle"] /\ tx_msk' = tx_msk \ {owner.id}
        /\ leaked' = IF owner.id \in chan_busy THEN leaked \cup {owner.id} ELSE leaked
        /\ UNCHANGED <<opened, chan_busy, busy_now, asleep, tx_ind, tx_done, reading, sent, read,
                       tainted, late>>
    BY <1>11 DEF CloseEnd, peerReads
  <2>3. send_msg_list'[owner.id] = <<>> /\ send_pending_list'[owner.id] = <<>>
    BY <1>11, <2>1 DEF CloseEnd, TypeOK
  <2>4. \A j \in Ids : j # owner.id => /\ send_msg_list'[j] = send_msg_list[j]
                                      /\ send_pending_list'[j] = send_pending_list[j]
    BY <1>11 DEF CloseEnd, TypeOK
  <2>5. ASSUME NEW j \in Ids PROVE ChannelInv(j)'
    <3>1. CASE j = owner.id
      BY <2>1, <2>2, <2>3, <3>1 DEF LinkInv, ChannelInv, Live, Clearing, HalfOpen
    <3>2. CASE j # owner.id
      BY <2>1, <2>2, <2>4, <3>2 DEF LinkInv, ChannelInv, Live, Clearing, HalfOpen
    <3> QED  BY <3>1, <3>2
  <2> QED  BY <2>2, <2>5 DEF LinkInv
<1>12. ASSUME PowerDown PROVE LinkInv'
  <2>1. /\ tx_msk' = {} /\ ~busy_now /\ owner.op = "idle"
        /\ UNCHANGED <<send_msg_list, send_pending_list, chan_busy, busy_now, opened, owner, tx_ind,
                       tx_done, reading, sent, read, tainted, late, leaked>>
    BY <1>12 DEF PowerDown, OwnerIdle, sendVars, openVars, peerReads, sendHist
  <2> QED  BY <2>1 DEF LinkInv, ChannelInv, Live, Clearing, HalfOpen
<1>13. ASSUME hal_intersys_pm_notif_handler PROVE LinkInv'
  <2>1. /\ tx_msk' = opened /\ asleep' = FALSE
        /\ UNCHANGED <<send_msg_list, send_pending_list, chan_busy, busy_now, opened, owner, tx_ind,
                       tx_done, reading, sent, read, tainted, late, leaked>>
    BY <1>13 DEF hal_intersys_pm_notif_handler, TxMskRestored, sendVars, openVars, peerReads,
       sendHist
  <2> QED  BY <2>1 DEF LinkInv, ChannelInv, Live, Clearing, HalfOpen
<1>14. ASSUME NEW id \in Ids, PeerTake(id) PROVE LinkInv'
  <2>1. /\ id \in tx_ind /\ reading' = reading \cup {id}
        /\ UNCHANGED <<send_msg_list, send_pending_list, chan_busy, busy_now, opened, owner, asleep,
                       txFlags, sent, read, tainted, late, leaked>>
    BY <1>14 DEF PeerTake, sendVars, openVars, sendHist
  <2> QED  BY <2>1 DEF LinkInv, ChannelInv, Live, Clearing, HalfOpen, txFlags
<1>15. ASSUME NEW id \in Ids, PeerDone(id) PROVE LinkInv'
  <2>1. /\ id \in reading /\ reading' = reading \ {id}
        /\ tx_ind' = tx_ind \ {id} /\ tx_done' = tx_done \cup {id}
        /\ UNCHANGED <<send_msg_list, send_pending_list, chan_busy, busy_now, opened, owner, asleep,
                       tx_msk, sent, tainted, late, leaked>>
    BY <1>15 DEF PeerDone, sendVars, openVars
  <2>2. \A j \in Ids : j # id => read'[j] = read[j]
    BY <1>15 DEF PeerDone, TypeOK
  <2>3. ASSUME NEW j \in Ids PROVE ChannelInv(j)'
    <3>1. CASE j = id
      <4>1. HalfOpen(id) => Live(id) /\ ~Clearing(id)
        BY DEF HalfOpen, Live, Clearing
      <4>2. HalfOpen(id) => id \in tainted \/ id \in late
        BY <2>1, <4>1 DEF LinkInv, ChannelInv
      <4> QED
        BY <2>1, <3>1, <4>2 DEF LinkInv, ChannelInv, Live, Clearing, HalfOpen
    <3>2. CASE j # id
      BY <2>1, <2>2, <3>2 DEF LinkInv, ChannelInv, Live, Clearing, HalfOpen
    <3> QED  BY <3>1, <3>2
  <2> QED  BY <2>1, <2>3 DEF LinkInv
<1>16. ASSUME NEW id \in Ids, PeerSend(id) PROVE LinkInv'
  BY <1>16, LinkFrame DEF PeerSend, sendVars, openVars, peerReads, sendHist
<1>17. ASSUME NEW id \in Ids, PeerTxDone(id) PROVE LinkInv'
  BY <1>17, LinkFrame DEF PeerTxDone, sendVars, openVars, peerReads, sendHist
<1>18. CASE UNCHANGED vars
  BY <1>18, LinkFrame DEF vars, sendVars, openVars, peerReads, sendHist
<1> QED
  BY <1>1, <1>2, <1>3, <1>4, <1>5, <1>6, <1>7, <1>8, <1>8a, <1>8b, <1>8c, <1>9, <1>10, <1>11,
     <1>12, <1>13,
     <1>14, <1>15, <1>16, <1>17, <1>18 DEF Next

(* The wake lock is held exactly while a message is under way or a closed   *)
(* channel left its flag set, for every set of channels and any number of   *)
(* messages.                                                                *)
THEOREM BusyExactInv == Spec => []BusyExact
<1>1. TypeOK /\ LinkInv => BusyExact
  BY DEF TypeOK, LinkInv, ChannelInv, BusyExact
<1> QED  BY <1>1, TypeInit, TypeNext, LinkInit, LinkNext, PTL DEF Spec

(* The core never powers down with a message of its own under way.         *)
THEOREM AsleepSafeInv == Spec => []AsleepSafe
<1>1. TypeOK /\ LinkInv => AsleepSafe
  BY DEF TypeOK, LinkInv, ChannelInv, Clearing, AsleepSafe
<1> QED  BY <1>1, TypeInit, TypeNext, LinkInit, LinkNext, PTL DEF Spec

-----------------------------------------------------------------------------
(* The records of a channel.                                               *)

(* The records of u are those of the lists m and p, each in one place.     *)
Holds(u, m, p) ==
    /\ \A i \in 1..Len(m) : m[i] \in u
    /\ \A i \in 1..Len(p) : p[i] \in u
    /\ \A r \in u : (\E i \in 1..Len(m) : m[i] = r) \/ (\E i \in 1..Len(p) : p[i] = r)
    /\ \A i, j \in 1..Len(m) : m[i] = m[j] => i = j
    /\ \A i, j \in 1..Len(p) : p[i] = p[j] => i = j
    /\ \A i \in 1..Len(m), j \in 1..Len(p) : m[i] # p[j]

LEMMA HoldsFirst ==
    ASSUME NEW u, NEW r \in Recs, Holds(u, <<>>, <<>>)
    PROVE  Holds(u \cup {r}, <<r>>, <<>>)
BY DEF Holds

LEMMA HoldsMore ==
    ASSUME NEW u, NEW m \in Seq(Recs), NEW p \in Seq(Recs), NEW r \in Recs, r \notin u,
           Holds(u, m, p)
    PROVE  Holds(u \cup {r}, m, Append(p, r))
<1>1. PICK q \in Seq(Recs) : q = Append(p, r)
  BY AppendProperties
<1>2. Len(q) = Len(p) + 1 /\ q[Len(p) + 1] = r /\ \A i \in 1..Len(p) : q[i] = p[i]
  BY <1>1
<1>3. \A i \in 1..Len(q) : i \in 1..Len(p) \/ i = Len(p) + 1
  BY <1>2
<1>3a. Len(p) + 1 \in 1..Len(q) /\ \A i \in 1..Len(p) : i \in 1..Len(q)
  BY <1>2
<1>4. /\ \A i \in 1..Len(m) : m[i] \in u \cup {r}
      /\ \A i \in 1..Len(q) : q[i] \in u \cup {r}
  BY <1>2, <1>3 DEF Holds
<1>5. \A x \in u \cup {r} : (\E i \in 1..Len(m) : m[i] = x) \/ (\E i \in 1..Len(q) : q[i] = x)
  BY <1>2, <1>3a DEF Holds
<1>6. \A i, j \in 1..Len(q) : q[i] = q[j] => i = j
  BY <1>2, <1>3 DEF Holds
<1>7. \A i \in 1..Len(m), j \in 1..Len(q) : m[i] # q[j]
  BY <1>2, <1>3 DEF Holds
<1> QED
  BY <1>1, <1>4, <1>5, <1>6, <1>7 DEF Holds

LEMMA HoldsFreed ==
    ASSUME NEW u, NEW m \in Seq(Recs), NEW p \in Seq(Recs), Holds(u, m, p)
    PROVE  Holds(u \ ToSet(m), p, <<>>)
<1>1. PICK v : v = u \ ToSet(m)
  OBVIOUS
<1>2. \A r : r \in ToSet(m) <=> \E i \in 1..Len(m) : m[i] = r
  BY DEF ToSet
<1>3. \A i \in 1..Len(p) : p[i] \in v
  BY <1>1, <1>2 DEF Holds
<1>4. \A r \in v : \E i \in 1..Len(p) : p[i] = r
  BY <1>1, <1>2 DEF Holds
<1>5. \A i, j \in 1..Len(p) : p[i] = p[j] => i = j
  BY DEF Holds
<1> QED
  BY <1>1, <1>3, <1>4, <1>5 DEF Holds

LEMMA HoldsExact ==
    ASSUME NEW u, NEW m \in Seq(Recs), NEW p \in Seq(Recs), Holds(u, m, p)
    PROVE  u = ToSet(m \o p) /\ IsInjective(m \o p)
<1>1. PICK q \in Seq(Recs) : q = m \o p
  BY ConcatProperties
<1>2. Len(q) = Len(m) + Len(p) /\ DOMAIN q = 1..Len(q)
  BY <1>1
<1>3. /\ \A i \in 1..Len(m) : i \in 1..Len(q) /\ q[i] = m[i]
      /\ \A i \in 1..Len(p) : Len(m) + i \in 1..Len(q) /\ q[Len(m) + i] = p[i]
  BY <1>1, <1>2
<1>4. ASSUME NEW k \in 1..Len(q)
      PROVE  \/ k \in 1..Len(m) /\ q[k] = m[k]
             \/ k - Len(m) \in 1..Len(p) /\ q[k] = p[k - Len(m)]
  <2>1. CASE k <= Len(m)
    BY <1>3, <2>1
  <2>2. CASE k > Len(m)
    <3>1. k - Len(m) \in 1..Len(p) /\ Len(m) + (k - Len(m)) = k
      BY <1>2, <2>2
    <3> QED
      BY <1>3, <3>1
  <2> QED
    BY <2>1, <2>2
<1>5. u = ToSet(q)
  <2>1. ASSUME NEW r \in u PROVE \E k \in 1..Len(q) : q[k] = r
    <3>1. CASE \E i \in 1..Len(m) : m[i] = r
      BY <1>3, <3>1
    <3>2. CASE \E i \in 1..Len(p) : p[i] = r
      BY <1>3, <3>2
    <3> QED
      BY <3>1, <3>2 DEF Holds
  <2>2. \A k \in 1..Len(q) : q[k] \in u
    BY <1>4 DEF Holds
  <2>3. ToSet(q) = {q[k] : k \in 1..Len(q)}
    BY <1>2 DEF ToSet
  <2> QED
    BY <2>1, <2>2, <2>3
<1>6. \A k, l \in 1..Len(q) : q[k] = q[l] => k = l
  <2> SUFFICES ASSUME NEW k \in 1..Len(q), NEW l \in 1..Len(q), q[k] = q[l]
               PROVE  k = l
    OBVIOUS
  <2>1. CASE k \in 1..Len(m) /\ q[k] = m[k] /\ l \in 1..Len(m) /\ q[l] = m[l]
    BY <2>1 DEF Holds
  <2>2. CASE k \in 1..Len(m) /\ q[k] = m[k] /\ l - Len(m) \in 1..Len(p) /\ q[l] = p[l - Len(m)]
    BY <2>2 DEF Holds
  <2>3. CASE l \in 1..Len(m) /\ q[l] = m[l] /\ k - Len(m) \in 1..Len(p) /\ q[k] = p[k - Len(m)]
    BY <2>3 DEF Holds
  <2>4. CASE k - Len(m) \in 1..Len(p) /\ q[k] = p[k - Len(m)]
             /\ l - Len(m) \in 1..Len(p) /\ q[l] = p[l - Len(m)]
    <3>1. k - Len(m) = l - Len(m)
      BY <2>4 DEF Holds
    <3> QED
      BY <3>1
  <2> QED
    BY <1>4, <2>1, <2>2, <2>3, <2>4
<1>7. IsInjective(q)
  BY <1>2, <1>6 DEF IsInjective
<1> QED
  BY <1>1, <1>5, <1>7

(* What a list of records holds.                                           *)
Text(d, s) == [i \in DOMAIN s |-> d[s[i]]]

LEMMA TextIsSeq ==
    ASSUME NEW d \in [Recs -> Nat], NEW s \in Seq(Recs)
    PROVE  Text(d, s) \in Seq(Nat)
BY ReadIsSeq DEF Text

LEMMA TextConcat ==
    ASSUME NEW d \in [Recs -> Nat], NEW s \in Seq(Recs), NEW t \in Seq(Recs)
    PROVE  Text(d, s \o t) = Text(d, s) \o Text(d, t)
<1>1. PICK q \in Seq(Recs) : q = s \o t
  BY ConcatProperties
<1>2. /\ Len(q) = Len(s) + Len(t)
      /\ \A i \in 1..Len(s) : q[i] = s[i]
      /\ \A i \in 1..Len(t) : q[Len(s) + i] = t[i]
  BY <1>1, ConcatProperties
<1>3. PICK a \in Seq(Nat) : a = Text(d, s)
  BY TextIsSeq
<1>4. PICK b \in Seq(Nat) : b = Text(d, t)
  BY TextIsSeq
<1>5. PICK c \in Seq(Nat) : c = Text(d, q)
  BY TextIsSeq
<1>6. /\ Len(a) = Len(s) /\ \A i \in 1..Len(s) : a[i] = d[s[i]]
      /\ Len(b) = Len(t) /\ \A i \in 1..Len(t) : b[i] = d[t[i]]
  <2>1. Len(a) = Len(s) /\ \A i \in 1..Len(s) : a[i] = d[s[i]]
    BY <1>3 DEF Text
  <2>2. Len(b) = Len(t) /\ \A i \in 1..Len(t) : b[i] = d[t[i]]
    BY <1>4 DEF Text
  <2> QED
    BY <2>1, <2>2
<1>7. Len(c) = Len(q) /\ \A i \in 1..Len(q) : c[i] = d[q[i]]
  BY <1>5 DEF Text
<1>8. PICK e \in Seq(Nat) : e = a \o b
  BY ConcatProperties
<1>9. /\ Len(e) = Len(a) + Len(b)
      /\ \A i \in 1..Len(a) : e[i] = a[i]
      /\ \A i \in 1..Len(b) : e[Len(a) + i] = b[i]
  BY <1>8, ConcatProperties
<1>10. ASSUME NEW i \in 1..Len(c) PROVE c[i] = e[i]
  <2>1. CASE i <= Len(s)
    BY <1>2, <1>6, <1>7, <1>9, <2>1
  <2>2. CASE i > Len(s)
    <3>1. PICK k \in 1..Len(t) : i = Len(s) + k
      <4>0. Len(c) = Len(s) + Len(t) /\ Len(s) \in Nat /\ Len(t) \in Nat
        BY <1>2, <1>7
      <4>1. i - Len(s) \in 1..Len(t) /\ i = Len(s) + (i - Len(s))
        BY <2>2, <4>0
      <4> QED
        BY <4>1
    <3>2. q[i] = t[k]
      BY <1>2, <3>1
    <3>3. e[i] = b[k]
      BY <1>6, <1>9, <3>1
    <3> QED
      BY <1>6, <1>7, <3>1, <3>2, <3>3
  <2> QED
    BY <2>1, <2>2
<1>11. c = e
  BY <1>2, <1>6, <1>7, <1>9, <1>10, SeqEqual
<1> QED
  BY <1>1, <1>3, <1>4, <1>5, <1>8, <1>11

(* A record that is written is read in its place and nowhere else.         *)
LEMMA TextWritten ==
    ASSUME NEW d \in [Recs -> Nat], NEW s \in Seq(Recs), NEW r \in Recs, NEW x \in Nat,
           \A i \in 1..Len(s) : s[i] # r
    PROVE  /\ Text([d EXCEPT ![r] = x], s) = Text(d, s)
           /\ Text([d EXCEPT ![r] = x], Append(s, r)) = Append(Text(d, s), x)
           /\ Text([d EXCEPT ![r] = x], <<r>>) = <<x>>
<1>1. PICK e \in [Recs -> Nat] : e = [d EXCEPT ![r] = x]
  OBVIOUS
<1>2. e[r] = x /\ \A y \in Recs : y # r => e[y] = d[y]
  BY <1>1
<1>3. \A i \in 1..Len(s) : s[i] \in Recs /\ e[s[i]] = d[s[i]]
  BY <1>2
<1>4. Text(e, s) = Text(d, s)
  BY <1>3 DEF Text
<1>5. Text(e, Append(s, r)) = Append(Text(d, s), x)
  BY <1>2, <1>3 DEF Text
<1>6. Text(e, <<r>>) = <<x>>
  BY <1>2 DEF Text
<1> QED
  BY <1>1, <1>4, <1>5, <1>6

-----------------------------------------------------------------------------
(* What has gone (a), is under way (b) and waits (c) makes up s.           *)
Joined(a, b, c, s) == a \o (b \o c) = s

LEMMA Regroup == \A a, b, c \in Seq(Nat) : (a \o b) \o c = a \o (b \o c)
OBVIOUS

LEMMA JoinedFirst ==
    ASSUME NEW a \in Seq(Nat), NEW s \in Seq(Nat), NEW t \in Seq(Nat), Joined(a, <<>>, <<>>, s)
    PROVE  Joined(a, t, <<>>, s \o t)
BY DEF Joined

LEMMA JoinedMore ==
    ASSUME NEW a \in Seq(Nat), NEW b \in Seq(Nat), NEW c \in Seq(Nat), NEW s \in Seq(Nat),
           NEW t \in Seq(Nat), Joined(a, b, c, s)
    PROVE  Joined(a, b, c \o t, s \o t)
<1>2. a \o (b \o c) = s
  BY DEF Joined
<1>3. (a \o (b \o c)) \o t = a \o ((b \o c) \o t)
  <2>1. PICK z \in Seq(Nat) : z = b \o c
    BY ConcatProperties
  <2>2. (a \o z) \o t = a \o (z \o t)
    BY Regroup, ZenonT(30)
  <2> QED
    BY <2>1, <2>2, Zenon
<1>4. (b \o c) \o t = b \o (c \o t)
  BY Regroup, ZenonT(30)
<1>5. s \o t = a \o (b \o (c \o t))
  BY <1>2, <1>3, <1>4, Zenon
<1> QED
  BY <1>5, Zenon DEF Joined

LEMMA JoinedGone ==
    ASSUME NEW a \in Seq(Nat), NEW b \in Seq(Nat), NEW c \in Seq(Nat), NEW s \in Seq(Nat),
           Joined(a, b, c, s)
    PROVE  Joined(a \o b, <<>>, c, s)
<1>1. (a \o b) \o c = a \o (b \o c)
  BY Regroup, ZenonT(30)
<1>2. <<>> \o c = c
  OBVIOUS
<1> QED
  BY <1>1, <1>2, Zenon DEF Joined

LEMMA JoinedNext ==
    ASSUME NEW a \in Seq(Nat), NEW c \in Seq(Nat), NEW s \in Seq(Nat), Joined(a, <<>>, c, s)
    PROVE  Joined(a, c, <<>>, s)
BY DEF Joined

LEMMA JoinedPart ==
    ASSUME NEW a \in Seq(Nat), NEW b \in Seq(Nat), NEW c \in Seq(Nat), NEW s \in Seq(Nat),
           NEW n \in Nat, n <= Len(b), Joined(a, b, c, s)
    PROVE  Joined(a \o SubSeq(b, 1, n), From(b, n), c, s)
<1>1. PICK x \in Seq(Nat) : x = SubSeq(b, 1, n)
  BY PartsAreSeqs
<1>2. PICK y \in Seq(Nat) : y = From(b, n)
  BY PartsAreSeqs
<1>3. b = x \o y
  <2>1. /\ Len(x) = n /\ \A i \in 1..n : x[i] = b[i]
        /\ Len(y) = Len(b) - n /\ \A i \in 1..Len(y) : y[i] = b[n + i]
    BY <1>1, <1>2 DEF From
  <2>2. PICK z \in Seq(Nat) : z = x \o y
    BY ConcatProperties
  <2>3. /\ Len(z) = Len(x) + Len(y)
        /\ \A i \in 1..Len(x) : z[i] = x[i]
        /\ \A i \in 1..Len(y) : z[Len(x) + i] = y[i]
    BY <2>2, ConcatProperties
  <2>4. ASSUME NEW i \in 1..Len(b) PROVE b[i] = z[i]
    <3>1. CASE i <= n
      <4>1. i \in 1..n /\ i \in 1..Len(x)
        BY <2>1, <3>1
      <4>2. z[i] = x[i] /\ x[i] = b[i]
        BY <2>1, <2>3, <4>1, Zenon
      <4> QED
        BY <4>2, Zenon
    <3>2. CASE i > n
      <4>1. i - n \in 1..Len(y) /\ n + (i - n) = i
        BY <2>1, <3>2
      <4>2. y[i - n] = b[i]
        BY <2>1, <4>1
      <4>3. z[i] = y[i - n]
        BY <2>1, <2>3, <4>1
      <4> QED
        BY <4>2, <4>3
    <3> QED
      BY <3>1, <3>2
  <2>4a. Len(z) = Len(b)
    BY <2>1, <2>3
  <2>5. b = z
    BY <2>4, <2>4a, SeqEqual
  <2> QED
    BY <2>2, <2>5
<1>5. (x \o y) \o c = x \o (y \o c)
  BY Regroup, ZenonT(30)
<1>6. (a \o x) \o (y \o c) = a \o (x \o (y \o c))
  <2>1. y \o c \in Seq(Nat)
    BY ConcatProperties
  <2>2. \A z \in Seq(Nat) : (a \o x) \o z = a \o (x \o z)
    BY Regroup, ZenonT(30)
  <2> QED
    BY <2>1, <2>2, Zenon
<1>7. (a \o x) \o (y \o c) = s
  BY <1>3, <1>5, <1>6, Zenon DEF Joined
<1> QED
  BY <1>1, <1>2, <1>7, Zenon DEF Joined

-----------------------------------------------------------------------------
(* Sending.                                                                *)

(* The channel has been opened and its owner has not begun to close it.    *)
Session(id) == id \in opened \/ (owner.op = "open" /\ owner.id = id)

(* The records that the peer has been shown and has not read.              *)
Shown(id) == IF id \in tx_done THEN <<>> ELSE send_msg_list[id]

RecordInv(id) ==
    Session(id) /\ id \notin late => Holds(in_use[id], send_msg_list[id], send_pending_list[id])

(* While the peer reads, it reads the list that is shown; what it has read, *)
(* what it is shown and what waits make up what was sent.                   *)
ReadInv(id) ==
    Session(id) /\ id \notin tainted /\ id \notin late =>
        /\ id \in reading => reads[id] = send_msg_list[id]
        /\ Joined(read[id], Text(data[id], Shown(id)), Text(data[id], send_pending_list[id]),
                  sent[id])

SendingInv == \A id \in Ids : RecordInv(id) /\ ReadInv(id)

LEMMA SendingInit == Init => SendingInv
BY DEF Init, SendingInv, RecordInv, ReadInv, Session

(* A channel whose session and sending side a step leaves alone.           *)
LEMMA SendingFrame ==
    ASSUME NEW id \in Ids, RecordInv(id), ReadInv(id), Session(id)' => Session(id),
           Session(id)' => (id \in tainted <=> id \in tainted') /\ (id \in late <=> id \in late'),
           id \in reading <=> id \in reading', id \in tx_done <=> id \in tx_done',
           reads'[id] = reads[id], send_msg_list'[id] = send_msg_list[id],
           send_pending_list'[id] = send_pending_list[id], in_use'[id] = in_use[id],
           data'[id] = data[id], read'[id] = read[id], sent'[id] = sent[id]
    PROVE  RecordInv(id)' /\ ReadInv(id)'
<1>1. Session(id)' => Shown(id)' = Shown(id)
  BY DEF Shown
<1>2. RecordInv(id)'
  BY DEF RecordInv
<1>3. ReadInv(id)'
  BY <1>1 DEF ReadInv
<1> QED
  BY <1>2, <1>3

(* A step that leaves the sessions and their sending side alone.           *)
LEMMA SendingUnchanged ==
    ASSUME SendingInv,
           UNCHANGED <<send_msg_list, send_pending_list, in_use, data, opened, owner, tx_done,
                       reading, reads, sent, read, tainted, late>>
    PROVE  SendingInv'
<1>1. ASSUME NEW id \in Ids PROVE RecordInv(id)' /\ ReadInv(id)'
  <2>1. RecordInv(id) /\ ReadInv(id)
    BY DEF SendingInv
  <2>2. Session(id)' <=> Session(id)
    BY DEF Session
  <2> QED
    BY <2>1, <2>2, SendingFrame
<1> QED
  BY <1>1 DEF SendingInv

(* While records are held by the lists, a free record is in neither, and    *)
(* the lists share none: putting it at the end of the waiting list leaves   *)
(* the shown one alone.                                                     *)
LEMMA LinkedApart ==
    ASSUME TypeOK, NEW id \in Ids, NEW r \in Recs, r \notin in_use[id],
           Holds(in_use[id], send_msg_list[id], send_pending_list[id]), send_msg_list[id] # <<>>
    PROVE  Linked(id, r) = send_msg_list[id]
<1>1. PICK s \in Seq(Recs), w \in Seq(Recs), u \in SUBSET Recs :
        s = send_msg_list[id] /\ w = send_pending_list[id] /\ u = in_use[id]
  BY DEF TypeOK
<1>2. \A i \in 1..Len(s) : s[i] \in u
  BY <1>1 DEF Holds
<1>3. r \notin ToSet(s)
  BY <1>1, <1>2 DEF ToSet
<1>4. Len(s) \in 1..Len(s)
  BY <1>1
<1>5. w # <<>> => Len(w) \in 1..Len(w)
  OBVIOUS
<1>6. \A i \in 1..Len(s), j \in 1..Len(w) : s[i] # w[j]
  BY <1>1 DEF Holds
<1>7. ~(w # <<>> /\ s[Len(s)] = w[Len(w)])
  BY <1>4, <1>5, <1>6
<1> QED  BY <1>1, <1>3, <1>7, Zenon DEF Linked

(* A message is put into a free record.                                    *)
LEMMA SendingPut ==
    ASSUME TypeOK, LinkInv, SendingInv, NEW id \in Ids, SendPut(id)
    PROVE  SendingInv'
<1>0. UNCHANGED <<opened, owner, tx_done, reading, reads, read, tainted>>
  BY DEF SendPut, openVars, peerReads
<1>1. CASE FreeRecord(id) = {}
  BY <1>0, <1>1, SendingUnchanged DEF SendPut, sendVars
<1>2. CASE FreeRecord(id) # {}
  <2>1. PICK r \in FreeRecord(id) :
          /\ in_use' = [in_use EXCEPT ![id] = @ \cup {r}]
          /\ data' = [data EXCEPT ![id][r] = Len(sent[id]) + 1]
          /\ send_msg_list' =
               [send_msg_list EXCEPT ![id] = IF send_msg_list[id] = <<>> THEN <<r>> ELSE Linked(id, r)]
          /\ send_pending_list' =
               [send_pending_list EXCEPT ![id] =
                  IF send_msg_list[id] = <<>> THEN @ ELSE Append(@, r)]
          /\ sent' = [sent EXCEPT ![id] = Append(@, Len(sent[id]) + 1)]
          /\ late' = IF HalfOpen(id) THEN late \cup {id} ELSE late
    BY <1>2 DEF SendPut
  <2>2. r \in Recs /\ r \notin in_use[id]
    BY DEF FreeRecord
  <2>3. PICK m \in Nat : m = Len(sent[id]) + 1
    BY DEF TypeOK
  <2>4. ASSUME NEW j \in Ids PROVE Session(j)' <=> Session(j)
    BY <1>0 DEF Session
  <2>5. ASSUME NEW j \in Ids, j # id PROVE RecordInv(j)' /\ ReadInv(j)'
    <3>1. /\ send_msg_list'[j] = send_msg_list[j] /\ send_pending_list'[j] = send_pending_list[j]
          /\ in_use'[j] = in_use[j] /\ data'[j] = data[j] /\ sent'[j] = sent[j]
          /\ j \in late <=> j \in late'
      BY <2>1, <2>5 DEF TypeOK
    <3>2. RecordInv(j) /\ ReadInv(j)
      BY DEF SendingInv
    <3> QED
      BY <1>0, <2>4, <3>1, <3>2, SendingFrame
  <2>6. RecordInv(id)' /\ ReadInv(id)'
    <3>0. id \in late => id \in late'
      BY <2>1
    <3> SUFFICES ASSUME Session(id), id \notin late PROVE RecordInv(id)' /\ ReadInv(id)'
      BY <2>4, <3>0 DEF RecordInv, ReadInv
    <3>1. Holds(in_use[id], send_msg_list[id], send_pending_list[id])
      BY DEF SendingInv, RecordInv
    <3>2. /\ send_msg_list[id] \in Seq(Recs) /\ send_pending_list[id] \in Seq(Recs)
          /\ data[id] \in [Recs -> Nat] /\ sent[id] \in Seq(Nat) /\ read[id] \in Seq(Nat)
          /\ in_use[id] \in SUBSET Recs
      BY DEF TypeOK
    <3>3. sent'[id] = sent[id] \o <<m>>
      <4>1. sent'[id] = Append(sent[id], m)
        BY <2>1, <2>3 DEF TypeOK
      <4>2. \A s \in Seq(Nat) : Append(s, m) = s \o <<m>>
        OBVIOUS
      <4> QED
        BY <3>2, <4>1, <4>2, Zenon
    <3>3a. in_use'[id] = in_use[id] \cup {r}
      BY <2>1 DEF TypeOK
    <3>3b. /\ Text(data'[id], <<r>>) = <<m>>
           /\ \A s \in Seq(Recs) : (\A i \in 1..Len(s) : s[i] # r) =>
                /\ Text(data'[id], s) = Text(data[id], s)
                /\ Text(data'[id], Append(s, r)) = Append(Text(data[id], s), m)
      <4>1. PICK d \in [Recs -> Nat] : d = data[id]
        BY <3>2
      <4>2. data'[id] = [d EXCEPT ![r] = m]
        BY <2>1, <2>3, <4>1 DEF TypeOK
      <4>3. ASSUME NEW s \in Seq(Recs), \A i \in 1..Len(s) : s[i] # r
            PROVE  /\ Text([d EXCEPT ![r] = m], s) = Text(d, s)
                   /\ Text([d EXCEPT ![r] = m], Append(s, r)) = Append(Text(d, s), m)
        BY <2>2, <4>3, TextWritten
      <4>4. <<>> \in Seq(Recs) /\ \A i \in 1..Len(<<>>) : <<>>[i] # r
        OBVIOUS
      <4>5. Text([d EXCEPT ![r] = m], <<r>>) = <<m>>
        BY <2>2, <4>4, TextWritten
      <4> QED
        BY <4>1, <4>2, <4>3, <4>5, Zenon
    <3>4. CASE send_msg_list[id] = <<>>
      <4>1. send_msg_list'[id] = <<r>> /\ send_pending_list'[id] = <<>> /\ send_pending_list[id] = <<>>
        BY <2>1, <3>4 DEF TypeOK, LinkInv, ChannelInv
      <4>2. RecordInv(id)'
        BY <2>2, <3>1, <3>3a, <3>4, <4>1, HoldsFirst DEF RecordInv
      <4>3. ASSUME id \notin tainted
            PROVE  /\ id \notin reading
                   /\ Shown(id)' = <<r>> /\ Shown(id) = <<>>
        <5>1. Live(id) /\ ~Clearing(id)
          BY DEF Session, Live, Clearing, LinkInv
        <5>2. id \notin tx_ind \cup tx_done /\ id \notin reading
          BY <3>4, <4>3, <5>1 DEF LinkInv, ChannelInv
        <5> QED
          BY <1>0, <3>4, <4>1, <5>2 DEF Shown
      <4>4. /\ Text(data'[id], <<r>>) = <<m>> /\ Text(data'[id], <<>>) = <<>>
            /\ Text(data[id], <<>>) = <<>>
        <5>1. \A d : Text(d, <<>>) = <<>>
          BY DEF Text
        <5> QED
          BY <3>3b, <5>1
      <4>5. ASSUME id \notin tainted
            PROVE  Joined(read[id], <<m>>, <<>>, sent[id] \o <<m>>)
        <5>1. Joined(read[id], <<>>, <<>>, sent[id])
          BY <4>1, <4>3, <4>4, <4>5 DEF SendingInv, ReadInv
        <5>2. <<m>> \in Seq(Nat)
          OBVIOUS
        <5> QED
          BY <3>2, <5>1, <5>2, JoinedFirst
      <4>6. ReadInv(id)'
        BY <1>0, <3>3, <4>1, <4>3, <4>4, <4>5 DEF ReadInv
      <4> QED
        BY <4>2, <4>6
    <3>5. CASE send_msg_list[id] # <<>>
      <4>1. /\ send_msg_list'[id] = send_msg_list[id]
            /\ send_pending_list'[id] = Append(send_pending_list[id], r)
        <5>1. Linked(id, r) = send_msg_list[id]
          BY <2>2, <3>1, <3>5, LinkedApart
        <5> QED
          BY <2>1, <3>5, <5>1 DEF TypeOK
      <4>2. RecordInv(id)'
        <5>1. Holds(in_use[id] \cup {r}, send_msg_list[id], Append(send_pending_list[id], r))
          BY <2>2, <3>1, <3>2, HoldsMore
        <5> QED
          BY <3>3a, <4>1, <5>1, Zenon DEF RecordInv
      <4>3. Shown(id)' = Shown(id) /\ Shown(id) \in Seq(Recs)
        BY <1>0, <3>2, <4>1 DEF Shown
      <4>4. /\ \A i \in 1..Len(Shown(id)) : Shown(id)[i] # r
            /\ \A i \in 1..Len(send_pending_list[id]) : send_pending_list[id][i] # r
        <5>1. PICK w, q : w = send_msg_list[id] /\ q = send_pending_list[id]
          OBVIOUS
        <5>2. /\ \A i \in 1..Len(w) : w[i] # r
              /\ \A i \in 1..Len(q) : q[i] # r
          BY <2>2, <3>1, <5>1 DEF Holds
        <5>3. Shown(id) = <<>> \/ Shown(id) = w
          BY <5>1 DEF Shown
        <5> QED
          BY <5>1, <5>2, <5>3
      <4>5. Text(data'[id], Shown(id)) = Text(data[id], Shown(id))
        BY <3>3b, <4>3, <4>4
      <4>6. Text(data'[id], Append(send_pending_list[id], r))
              = Append(Text(data[id], send_pending_list[id]), m)
        BY <3>2, <3>3b, <4>4, Zenon
      <4>7. PICK a \in Seq(Nat), b \in Seq(Nat) :
              a = Text(data[id], Shown(id)) /\ b = Text(data[id], send_pending_list[id])
        BY <3>2, <4>3, TextIsSeq
      <4>8. Append(b, m) = b \o <<m>>
        OBVIOUS
      <4>9. ASSUME id \notin tainted
            PROVE  Joined(read[id], a, b \o <<m>>, sent[id] \o <<m>>)
        <5>1. Joined(read[id], a, b, sent[id])
          BY <4>7, <4>9 DEF SendingInv, ReadInv
        <5>2. <<m>> \in Seq(Nat)
          OBVIOUS
        <5> QED
          BY <3>2, <5>1, <5>2, JoinedMore
      <4>10. id \notin tainted /\ id \in reading => reads[id] = send_msg_list[id]
        BY DEF SendingInv, ReadInv
      <4>11. Text(data'[id], Shown(id)') = a /\ Text(data'[id], send_pending_list'[id]) = b \o <<m>>
        BY <4>1, <4>3, <4>5, <4>6, <4>7, <4>8
      <4>12. ReadInv(id)'
        BY <1>0, <3>3, <4>1, <4>9, <4>10, <4>11 DEF ReadInv
      <4> QED
        BY <4>2, <4>12
    <3> QED
      BY <3>4, <3>5
  <2> QED
    BY <2>5, <2>6 DEF SendingInv
<1> QED
  BY <1>1, <1>2

(* The interrupt frees the lists that were read and shows the waiting ones. *)
LEMMA SendingIrq ==
    ASSUME TypeOK, LinkInv, SendingInv, hal_intersys_tx_irq_handler
    PROVE  SendingInv'
<1>1. /\ UNCHANGED <<opened, owner, data, reading, reads, sent, read, tainted, late>>
      /\ tx_done' = tx_done \ TxActive
  BY DEF hal_intersys_tx_irq_handler, openVars, peerReads
<1>2. ASSUME NEW j \in Ids PROVE RecordInv(j)' /\ ReadInv(j)'
  <2>1. Session(j)' <=> Session(j)
    BY <1>1 DEF Session
  <2>2. RecordInv(j) /\ ReadInv(j)
    BY DEF SendingInv
  <2>3. CASE j \notin TxActive
    <3>1. /\ send_msg_list'[j] = send_msg_list[j] /\ send_pending_list'[j] = send_pending_list[j]
          /\ in_use'[j] = in_use[j]
      BY <2>3 DEF hal_intersys_tx_irq_handler, Freed
    <3> QED
      BY <1>1, <2>1, <2>2, <2>3, <3>1, SendingFrame
  <2>4. CASE j \in TxActive
    <3> SUFFICES ASSUME Session(j), j \notin late PROVE RecordInv(j)' /\ ReadInv(j)'
      BY <1>1, <2>1 DEF RecordInv, ReadInv
    <3>1. /\ send_msg_list'[j] = send_pending_list[j] /\ send_pending_list'[j] = <<>>
          /\ in_use'[j] = in_use[j] \ ToSet(send_msg_list[j])
      BY <2>4 DEF hal_intersys_tx_irq_handler, Freed
    <3>2. /\ send_msg_list[j] \in Seq(Recs) /\ send_pending_list[j] \in Seq(Recs)
          /\ data[j] \in [Recs -> Nat] /\ sent[j] \in Seq(Nat) /\ read[j] \in Seq(Nat)
      BY DEF TypeOK
    <3>3. RecordInv(j)'
      <4>1. Holds(in_use[j], send_msg_list[j], send_pending_list[j])
        BY <2>2 DEF RecordInv
      <4>2. Holds(in_use[j] \ ToSet(send_msg_list[j]), send_pending_list[j], <<>>)
        BY <3>2, <4>1, HoldsFreed
      <4> QED
        BY <3>1, <4>2, Zenon DEF RecordInv
    <3>4. j \in tx_done /\ Shown(j) = <<>> /\ Shown(j)' = send_pending_list[j]
      BY <1>1, <2>4, <3>1 DEF TxActive, Shown
    <3>5. ASSUME j \notin tainted PROVE j \notin reading
      BY <3>4, <3>5 DEF Session, Live, Clearing, LinkInv, ChannelInv
    <3>6. \A d : Text(d, <<>>) = <<>>
      BY DEF Text
    <3>7. PICK b \in Seq(Nat) : b = Text(data[j], send_pending_list[j])
      BY <3>2, TextIsSeq
    <3>8. ASSUME j \notin tainted PROVE Joined(read[j], b, <<>>, sent[j])
      <4>1. Joined(read[j], <<>>, b, sent[j])
        BY <2>2, <3>4, <3>6, <3>7, <3>8 DEF ReadInv
      <4> QED
        BY <3>2, <4>1, JoinedNext
    <3>9. ReadInv(j)'
      BY <1>1, <3>1, <3>4, <3>5, <3>6, <3>7, <3>8 DEF ReadInv
    <3> QED
      BY <3>3, <3>9
  <2> QED
    BY <2>3, <2>4
<1> QED
  BY <1>2 DEF SendingInv

(* The peer has read the list it took: outside a tainted session it is the  *)
(* list that is shown.                                                      *)
LEMMA SendingDone ==
    ASSUME TypeOK, LinkInv, SendingInv, NEW id \in Ids, PeerDone(id)
    PROVE  SendingInv'
<1>1. /\ UNCHANGED <<opened, owner, data, sent, tainted, late, send_msg_list, send_pending_list, in_use>>
      /\ tx_done' = tx_done \cup {id} /\ id \in reading /\ reading' = reading \ {id}
  BY DEF PeerDone, sendVars, openVars
<1>2. ASSUME NEW j \in Ids PROVE RecordInv(j)' /\ ReadInv(j)'
  <2>1. Session(j)' <=> Session(j)
    BY <1>1 DEF Session
  <2>2. RecordInv(j) /\ ReadInv(j)
    BY DEF SendingInv
  <2>3. CASE j # id
    <3>1. reads'[j] = reads[j] /\ read'[j] = read[j]
      BY <2>3 DEF PeerDone, TypeOK
    <3> QED
      BY <1>1, <2>1, <2>2, <2>3, <3>1, SendingFrame
  <2>4. CASE j = id
    <3>1. RecordInv(j)'
      BY <1>1, <2>1, <2>2 DEF RecordInv
    <3>2. ReadInv(j)'
      <4> SUFFICES ASSUME Session(j), j \notin tainted, j \notin late PROVE ReadInv(j)'
        BY <1>1, <2>1 DEF ReadInv
      <4>1. /\ send_msg_list[j] \in Seq(Recs) /\ send_pending_list[j] \in Seq(Recs)
            /\ data[j] \in [Recs -> Nat] /\ sent[j] \in Seq(Nat) /\ read[j] \in Seq(Nat)
        BY DEF TypeOK
      <4>2. reads[j] = send_msg_list[j]
        BY <1>1, <2>2, <2>4 DEF ReadInv
      <4>3. Shown(j) = send_msg_list[j] /\ Shown(j)' = <<>>
        BY <1>1, <2>4 DEF Session, Live, Clearing, LinkInv, ChannelInv, Shown
      <4>4. PICK a \in Seq(Nat), b \in Seq(Nat) :
              a = Text(data[j], send_msg_list[j]) /\ b = Text(data[j], send_pending_list[j])
        BY <4>1, TextIsSeq
      <4>5. Joined(read[j], a, b, sent[j])
        BY <2>2, <4>3, <4>4 DEF ReadInv
      <4>6. Joined(read[j] \o a, <<>>, b, sent[j])
        BY <4>1, <4>5, JoinedGone
      <4>7. read'[j] = read[j] \o a
        BY <2>4, <4>2, <4>4 DEF PeerDone, Contents, Text, TypeOK
      <4>8. \A d : Text(d, <<>>) = <<>>
        BY DEF Text
      <4>9. j \notin reading'
        BY <1>1, <2>4
      <4> QED
        BY <1>1, <4>3, <4>4, <4>6, <4>7, <4>8, <4>9 DEF ReadInv
    <3> QED
      BY <3>1, <3>2
  <2> QED
    BY <2>3, <2>4
<1> QED
  BY <1>2 DEF SendingInv

(* The steps of an opening before the session begins leave the other        *)
(* channels alone.                                                          *)
LEMMA SendingBefore ==
    ASSUME TypeOK, SendingInv, NEW id \in Ids, ~Session(id)',
           \A j \in Ids : j # id =>
             /\ Session(j)' => Session(j)
             /\ j \in tainted <=> j \in tainted'
             /\ j \in late <=> j \in late'
             /\ j \in tx_done <=> j \in tx_done'
             /\ send_msg_list'[j] = send_msg_list[j]
             /\ send_pending_list'[j] = send_pending_list[j]
             /\ sent'[j] = sent[j] /\ read'[j] = read[j],
           UNCHANGED <<data, reading, reads, in_use>>
    PROVE  SendingInv'
<1>1. ASSUME NEW j \in Ids PROVE RecordInv(j)' /\ ReadInv(j)'
  <2>1. CASE j = id
    BY <2>1 DEF RecordInv, ReadInv
  <2>2. CASE j # id
    <3>1. RecordInv(j) /\ ReadInv(j)
      BY DEF SendingInv
    <3> QED
      BY <2>2, <3>1, SendingFrame
  <2> QED
    BY <2>1, <2>2
<1> QED
  BY <1>1 DEF SendingInv

(* The session begins with empty lists, no record in use and, unless it was *)
(* spoilt, nothing that is shown, read or done.                             *)
LEMMA SendingOpen ==
    ASSUME TypeOK, LinkInv, SendingInv, OpenRecords
    PROVE  SendingInv'
<1>0. PICK id \in Ids :
        id = owner.id /\ owner.op = "records" /\ owner'.op = "open" /\ owner'.id = id
  BY OwnerStep DEF OpenRecords
<1>1. /\ UNCHANGED <<opened, data, reading, reads, send_msg_list, send_pending_list, tx_done, sent,
                     read, tainted, late>>
      /\ in_use' = [in_use EXCEPT ![id] = {}]
  BY <1>0 DEF OpenRecords, peerReads, sendHist
<1>2. ASSUME NEW j \in Ids, j # id PROVE RecordInv(j)' /\ ReadInv(j)'
  <2>1. Session(j)' => Session(j)
    BY <1>0, <1>1, <1>2 DEF Session
  <2>2. RecordInv(j) /\ ReadInv(j)
    BY DEF SendingInv
  <2>3. in_use'[j] = in_use[j]
    BY <1>1, <1>2 DEF TypeOK
  <2> QED
    BY <1>1, <2>1, <2>2, <2>3, SendingFrame
<1>3. RecordInv(id)' /\ ReadInv(id)'
  <2> SUFFICES ASSUME id \notin late PROVE RecordInv(id)' /\ ReadInv(id)'
    BY <1>1 DEF RecordInv, ReadInv
  <2>1. HalfOpen(id) /\ Live(id) /\ ~Clearing(id)
    BY <1>0 DEF HalfOpen, Live, Clearing
  <2>2. /\ send_msg_list'[id] = <<>> /\ send_pending_list'[id] = <<>> /\ in_use'[id] = {}
    BY <1>0, <1>1 DEF LinkInv, ChannelInv, TypeOK
  <2>3. RecordInv(id)'
    BY <2>2 DEF RecordInv, Holds
  <2>4. ASSUME id \notin tainted
        PROVE  id \notin reading /\ sent[id] = <<>> /\ read[id] = <<>>
    BY <2>1, <2>4 DEF LinkInv, ChannelInv
  <2>5. Text(data'[id], Shown(id)') = <<>> /\ Text(data'[id], send_pending_list'[id]) = <<>>
    BY <2>2 DEF Text, Shown
  <2>6. Joined(<<>>, <<>>, <<>>, <<>>)
    BY DEF Joined
  <2>7. ReadInv(id)'
    BY <1>1, <2>4, <2>5, <2>6 DEF ReadInv
  <2> QED
    BY <2>3, <2>7
<1> QED
  BY <1>2, <1>3 DEF SendingInv

LEMMA SendingNext == TypeOK /\ LinkInv /\ SendingInv /\ [Next]_vars => SendingInv'
<1> SUFFICES ASSUME TypeOK, LinkInv, SendingInv, [Next]_vars PROVE SendingInv'
  OBVIOUS
<1>1. ASSUME NEW id \in Ids, SendCheck(id) PROVE SendingInv'
  BY <1>1, SendingUnchanged DEF SendCheck, sendVars, openVars, txFlags, peerReads, sendHist
<1>2. ASSUME NEW id \in Ids, SendPut(id) PROVE SendingInv'
  BY <1>2, SendingPut
<1>3. ASSUME hal_intersys_tx_irq_handler PROVE SendingInv'
  BY <1>3, SendingIrq
<1>4. ASSUME hal_intersys_rx_irq_handler PROVE SendingInv'
  BY <1>4, SendingUnchanged DEF hal_intersys_rx_irq_handler, sendVars, openVars, txFlags, peerReads,
     sendHist
<1>5. ASSUME NEW id \in Ids, RxDone(id) PROVE SendingInv'
  BY <1>5, SendingUnchanged DEF RxDone, sendVars, openVars, txFlags, peerReads, sendHist
<1>6. ASSUME NEW id \in Ids, hal_intersys_start_recv(id) PROVE SendingInv'
  BY <1>6, SendingUnchanged DEF hal_intersys_start_recv, sendVars, openVars, txFlags, peerReads,
     sendHist
<1>7. ASSUME NEW id \in Ids, hal_intersys_stop_recv(id) PROVE SendingInv'
  BY <1>7, SendingUnchanged DEF hal_intersys_stop_recv, sendVars, openVars, txFlags, peerReads,
     sendHist
<1>8. ASSUME NEW id \in Ids, NEW fc \in BOOLEAN, OpenBegin(id, fc) PROVE SendingInv'
  <2>1. /\ owner'.op = "clear" /\ owner'.id = id /\ owner.op = "idle" /\ id \notin opened
        /\ UNCHANGED <<opened, send_msg_list, send_pending_list, in_use, data, tx_done, reading,
                       reads, sent, read, tainted, late>>
    BY <1>8 DEF OpenBegin, OwnerIdle, sendVars, peerReads, sendHist
  <2>2. ~Session(id)' /\ \A j \in Ids : Session(j)' => Session(j)
    BY <2>1 DEF Session
  <2> QED
    BY <2>1, <2>2, SendingBefore
<1>8a. ASSUME OpenClear PROVE SendingInv'
  <2>0. PICK id \in Ids : id = owner.id /\ owner.op = "clear" /\ owner'.op = "lists" /\ owner'.id = id
    BY <1>8a, OwnerStep DEF OpenClear
  <2>1. /\ tx_done' = tx_done \ {id} /\ late' = late \ {id}
        /\ tainted' = IF id \in reading THEN tainted \cup {id} ELSE tainted \ {id}
        /\ UNCHANGED <<opened, send_msg_list, send_pending_list, in_use, data, reading, reads>>
    BY <1>8a, <2>0 DEF OpenClear, sendVars, peerReads
  <2>2. \A j \in Ids : j # id => sent'[j] = sent[j] /\ read'[j] = read[j]
    BY <1>8a, <2>0 DEF OpenClear, TypeOK
  <2>3. ~Session(id)' /\ \A j \in Ids : Session(j)' => Session(j)
    BY <2>0, <2>1 DEF Session, LinkInv
  <2> QED
    BY <2>1, <2>2, <2>3, SendingBefore
<1>8b. ASSUME OpenLists PROVE SendingInv'
  <2>0. PICK id \in Ids :
          id = owner.id /\ owner.op = "lists" /\ owner'.op = "records" /\ owner'.id = id
    BY <1>8b, OwnerStep DEF OpenLists
  <2>1. UNCHANGED <<opened, in_use, data, tx_done, reading, reads, sent, read, tainted, late>>
    BY <1>8b, <2>0 DEF OpenLists, txFlags, peerReads
  <2>2. \A j \in Ids : j # id => /\ send_msg_list'[j] = send_msg_list[j]
                                /\ send_pending_list'[j] = send_pending_list[j]
    BY <1>8b, <2>0 DEF OpenLists, TypeOK
  <2>3. ~Session(id)' /\ \A j \in Ids : Session(j)' => Session(j)
    BY <2>0, <2>1 DEF Session, LinkInv
  <2> QED
    BY <2>1, <2>2, <2>3, SendingBefore
<1>8c. ASSUME OpenRecords PROVE SendingInv'
  BY <1>8c, SendingOpen
<1>9. ASSUME OpenEnd PROVE SendingInv'
  <2>1. ASSUME NEW j \in Ids PROVE RecordInv(j)' /\ ReadInv(j)'
    <3>1. Session(j)' => Session(j)
      BY <1>9 DEF OpenEnd, Session
    <3>2. RecordInv(j) /\ ReadInv(j)
      BY DEF SendingInv
    <3> QED
      BY <1>9, <3>1, <3>2, SendingFrame DEF OpenEnd, sendVars, txFlags, peerReads, sendHist
  <2> QED
    BY <2>1 DEF SendingInv
<1>10. ASSUME NEW id \in Ids, CloseBegin(id) PROVE SendingInv'
  <2>1. ASSUME NEW j \in Ids PROVE RecordInv(j)' /\ ReadInv(j)'
    <3>1. Session(j)' => Session(j)
      BY <1>10 DEF CloseBegin, Session
    <3>2. RecordInv(j) /\ ReadInv(j)
      BY DEF SendingInv
    <3> QED
      BY <1>10, <3>1, <3>2, SendingFrame DEF CloseBegin, sendVars, txFlags, peerReads, sendHist
  <2> QED
    BY <2>1 DEF SendingInv
<1>11. ASSUME CloseEnd PROVE SendingInv'
  <2>1. ASSUME NEW j \in Ids PROVE RecordInv(j)' /\ ReadInv(j)'
    <3>1. /\ Session(j)' => Session(j)
          /\ owner.id \in Ids /\ owner.id \notin opened /\ owner'.op = "idle"
      BY <1>11 DEF CloseEnd, Session, TypeOK, LinkInv, Owners, Opening
    <3>2. RecordInv(j) /\ ReadInv(j)
      BY DEF SendingInv
    <3>3. CASE j = owner.id
      <4>1. ~Session(j)'
        BY <1>11, <3>1, <3>3 DEF CloseEnd, Session
      <4> QED
        BY <4>1 DEF RecordInv, ReadInv
    <3>4. CASE j # owner.id
      <4>1. /\ send_msg_list'[j] = send_msg_list[j]
            /\ send_pending_list'[j] = send_pending_list[j]
        BY <1>11, <3>1, <3>4 DEF CloseEnd, TypeOK
      <4>2. UNCHANGED <<in_use, data, tx_done, reading, reads, sent, read, tainted, late>>
        BY <1>11 DEF CloseEnd, peerReads
      <4> QED
        BY <3>1, <3>2, <4>1, <4>2, SendingFrame
    <3> QED
      BY <3>3, <3>4
  <2> QED
    BY <2>1 DEF SendingInv
<1>12. ASSUME PowerDown PROVE SendingInv'
  BY <1>12, SendingUnchanged DEF PowerDown, sendVars, openVars, peerReads, sendHist
<1>13. ASSUME hal_intersys_pm_notif_handler PROVE SendingInv'
  BY <1>13, SendingUnchanged DEF hal_intersys_pm_notif_handler, sendVars, openVars, peerReads,
     sendHist
<1>14. ASSUME NEW id \in Ids, PeerTake(id) PROVE SendingInv'
  <2>1. /\ UNCHANGED <<opened, owner, data, sent, read, tainted, late, send_msg_list,
                       send_pending_list, in_use, tx_done>>
        /\ reading' = reading \cup {id} /\ reads' = [reads EXCEPT ![id] = send_msg_list[id]]
    BY <1>14 DEF PeerTake, sendVars, openVars, txFlags, sendHist
  <2>2. ASSUME NEW j \in Ids PROVE RecordInv(j)' /\ ReadInv(j)'
    <3>1. /\ (Session(j)' <=> Session(j)) /\ Shown(j)' = Shown(j)
      BY <2>1 DEF Session, Shown
    <3>2. RecordInv(j) /\ ReadInv(j)
      BY DEF SendingInv
    <3>3. reads'[id] = send_msg_list[id] /\ \A k \in Ids : k # id => reads'[k] = reads[k]
      BY <2>1 DEF TypeOK
    <3>4. RecordInv(j)'
      BY <2>1, <3>1, <3>2 DEF RecordInv
    <3>5. ReadInv(j)'
      BY <2>1, <3>1, <3>2, <3>3 DEF ReadInv
    <3> QED
      BY <3>4, <3>5
  <2> QED
    BY <2>2 DEF SendingInv
<1>15. ASSUME NEW id \in Ids, PeerDone(id) PROVE SendingInv'
  BY <1>15, SendingDone
<1>16. ASSUME NEW id \in Ids, PeerSend(id) PROVE SendingInv'
  BY <1>16, SendingUnchanged DEF PeerSend, sendVars, openVars, txFlags, peerReads, sendHist
<1>17. ASSUME NEW id \in Ids, PeerTxDone(id) PROVE SendingInv'
  BY <1>17, SendingUnchanged DEF PeerTxDone, sendVars, openVars, txFlags, peerReads, sendHist
<1>18. CASE UNCHANGED vars
  BY <1>18, SendingUnchanged DEF vars, sendVars, openVars, txFlags, peerReads, sendHist
<1> QED
  BY <1>1, <1>2, <1>3, <1>4, <1>5, <1>6, <1>7, <1>8, <1>8a, <1>8b, <1>8c, <1>9, <1>10, <1>11,
     <1>12, <1>13,
     <1>14, <1>15, <1>16, <1>17, <1>18 DEF Next

(* No record of an open channel is lost or in two places, for any number of *)
(* records, however the interrupt, the peer and the owner interleave with   *)
(* the senders, but for a send of the previous session while the channel is *)
(* half open.                                                               *)
THEOREM InUseExactInv == Spec => []InUseExact
<1>1. ASSUME TypeOK, SendingInv PROVE InUseExact
  <2>1. ASSUME NEW id \in opened \ late
        PROVE  RecordsExact(id)
    <3>1. /\ Holds(in_use[id], send_msg_list[id], send_pending_list[id])
          /\ send_msg_list[id] \in Seq(Recs) /\ send_pending_list[id] \in Seq(Recs)
      BY <1>1 DEF TypeOK, SendingInv, RecordInv, Session
    <3> QED
      BY <3>1, HoldsExact DEF RecordsExact
  <2> QED
    BY <2>1 DEF InUseExact
<1> QED
  BY <1>1, TypeInit, TypeNext, LinkInit, LinkNext, SendingInit, SendingNext, PTL DEF Spec

(* What the peer reads of a channel is what was sent on it, in order and    *)
(* once, for any number of messages and records, unless the session was     *)
(* spoilt while it was opened.                                              *)
THEOREM SendFifoInv == Spec => []SendFifo
<1>1. ASSUME TypeOK, SendingInv PROVE SendFifo
  <2>1. ASSUME NEW id \in opened \ (tainted \cup late)
        PROVE  ReadInOrder(id)
    <3>1. /\ Shown(id) \in Seq(Recs) /\ send_pending_list[id] \in Seq(Recs)
          /\ data[id] \in [Recs -> Nat]
      BY <1>1 DEF TypeOK, Shown
    <3>2. Joined(read[id], Text(data[id], Shown(id)), Text(data[id], send_pending_list[id]), sent[id])
      BY <1>1, <2>1 DEF TypeOK, SendingInv, ReadInv, Session
    <3>3. Text(data[id], Shown(id) \o send_pending_list[id])
            = Text(data[id], Shown(id)) \o Text(data[id], send_pending_list[id])
      BY <3>1, TextConcat
    <3>4. read[id] \o Text(data[id], Shown(id) \o send_pending_list[id]) = sent[id]
      BY <3>2, <3>3, Zenon DEF Joined
    <3> QED
      BY <3>4, Zenon DEF ReadInOrder, Shown, Contents, Text
  <2> QED
    BY <2>1, Zenon DEF SendFifo
<1> QED
  BY <1>1, TypeInit, TypeNext, LinkInit, LinkNext, SendingInit, SendingNext, PTL DEF Spec

-----------------------------------------------------------------------------
(* Receiving.                                                              *)

(* A channel has its handler exactly while it is open.                     *)
LEMMA HandlerInit == Init => rx_irq_handler = opened
BY DEF Init

LEMMA HandlerNext == rx_irq_handler = opened /\ [Next]_vars => (rx_irq_handler = opened)'
<1> SUFFICES ASSUME rx_irq_handler = opened, [Next]_vars PROVE rx_irq_handler' = opened'
  OBVIOUS
<1>1. CASE UNCHANGED <<opened, rx_irq_handler>>
  BY <1>1
<1>2. CASE OpenEnd
  BY <1>2 DEF OpenEnd
<1>3. ASSUME NEW id \in Ids, CloseBegin(id) PROVE rx_irq_handler' = opened'
  BY <1>3 DEF CloseBegin
<1> QED
  BY <1>1, <1>2, <1>3 DEF Next, vars, openVars, SendCheck, SendPut, RxDone,
     hal_intersys_start_recv, hal_intersys_stop_recv, OpenBegin, OpenClear, OpenLists, OpenRecords, PeerTake, PeerDone, PeerSend,
     PeerTxDone, hal_intersys_rx_irq_handler, hal_intersys_tx_irq_handler, CloseEnd, PowerDown,
     hal_intersys_pm_notif_handler

(* What of the peer's current list the handler has not been given.         *)
Rest(id) ==
    IF recv_pending_head[id] # <<>> THEN recv_pending_head[id]
    ELSE IF id \in rx_ind \ owes THEN p_list[id]
    ELSE <<>>

(* The peer's list is either shown or acknowledged, never both.            *)
PeerInv(id) ==
    /\ p_pending[id] # <<>> => p_list[id] # <<>>
    /\ p_list[id] # <<>> <=> id \in rx_ind \cup p_done
    /\ id \notin rx_ind \cap p_done

(* What is owed for is still shown: the interrupt of a channel with flow    *)
(* control does not clear it.                                               *)
OwesInv(id) ==
    Session(id) /\ id \in owes => id \in rx_ind /\ id \in need_flow_ctrl

(* What was left over belongs to a list still shown; while the user owes    *)
(* the clearing the indication is masked, unless a wake-up unmasked it.     *)
TakeInv(id) ==
    Session(id) /\ id \notin rewoken =>
        /\ recv_pending_head[id] # <<>> => id \in rx_ind
        /\ id \in owes => id \notin rx_msk /\ recv_pending_head[id] = <<>>
        /\ Joined(got[id], Rest(id), p_pending[id], due[id])

(* Nothing is left over when a session begins.                             *)
LeftInv == owner.op = "records" => recv_pending_head[owner.id] = <<>>

ReceivingInv ==
    /\ \A id \in Ids : PeerInv(id) /\ OwesInv(id) /\ TakeInv(id)
    /\ LeftInv

LEMMA ReceivingInit == Init => ReceivingInv
BY DEF Init, ReceivingInv, PeerInv, OwesInv, TakeInv, LeftInv, Session, Each

(* A channel whose session and receiving side a step leaves alone, but for  *)
(* masking it.                                                              *)
LEMMA ReceivingFrame ==
    ASSUME NEW id \in Ids, PeerInv(id), OwesInv(id), TakeInv(id), Session(id)' => Session(id),
           Session(id)' => (id \in need_flow_ctrl => id \in need_flow_ctrl'),
           id \in rewoken => id \in rewoken',
           id \in rx_msk' => (id \in rx_msk \/ id \notin owes \/ id \in rewoken'),
           id \in rx_ind <=> id \in rx_ind', id \in p_done <=> id \in p_done',
           id \in owes <=> id \in owes', p_list'[id] = p_list[id],
           p_pending'[id] = p_pending[id], got'[id] = got[id], due'[id] = due[id],
           recv_pending_head'[id] = recv_pending_head[id]
    PROVE  PeerInv(id)' /\ OwesInv(id)' /\ TakeInv(id)'
<1>1. PeerInv(id)'
  BY DEF PeerInv
<1>2. Rest(id)' = Rest(id)
  BY DEF Rest
<1>3. TakeInv(id)'
  BY <1>2 DEF TakeInv
<1>4. OwesInv(id)'
  BY DEF OwesInv
<1> QED
  BY <1>1, <1>3, <1>4

(* A step that leaves the sessions and the receiving side alone.           *)
LEMMA ReceivingUnchanged ==
    ASSUME ReceivingInv,
           UNCHANGED <<recv_pending_head, opened, owner, need_flow_ctrl, rx_ind, rx_msk, peerSends,
                       recvHist>>
    PROVE  ReceivingInv'
<1>1. ASSUME NEW id \in Ids PROVE PeerInv(id)' /\ OwesInv(id)' /\ TakeInv(id)'
  <2>1. PeerInv(id) /\ OwesInv(id) /\ TakeInv(id)
    BY DEF ReceivingInv
  <2>2. Session(id)' <=> Session(id)
    BY DEF Session
  <2> QED
    BY <2>1, <2>2, ReceivingFrame DEF peerSends, recvHist
<1> QED
  BY <1>1 DEF ReceivingInv, LeftInv

(* The handlers take a part of what there is.                              *)
LEMMA ReceivingServe ==
    ASSUME TypeOK, LinkInv, ReceivingInv, rx_irq_handler = opened,
           NEW n \in [RxActive -> 0..(RX_MSGS * LEN)], RxServe(RxActive, n),
           {j \in RxActive \ rx_irq_handler : RecvList(j) # <<>>} = {},
           UNCHANGED <<opened, owner, need_flow_ctrl>>
    PROVE  ReceivingInv'
<1>1. PICK done :
        /\ done = {id \in RxActive : From(RecvList(id), n[id]) = <<>>} \ need_flow_ctrl
        /\ rx_ind' = rx_ind \ done /\ p_done' = p_done \cup done
        /\ rx_msk' = (rx_msk \ RxActive) \cup done
  BY DEF RxServe, hal_intersys_rx_done
<1>2. /\ owes' = owes \cup
            ({id \in RxActive : From(RecvList(id), n[id]) = <<>>} \cap need_flow_ctrl)
      /\ UNCHANGED <<p_list, p_pending, due, rewoken>>
  BY DEF RxServe
<1>3. ASSUME NEW j \in Ids PROVE PeerInv(j)' /\ OwesInv(j)' /\ TakeInv(j)'
  <2>1. Session(j)' <=> Session(j)
    BY DEF Session
  <2>2. PeerInv(j) /\ OwesInv(j) /\ TakeInv(j)
    BY DEF ReceivingInv
  <2>3. CASE j \notin RxActive
    <3>1. recv_pending_head'[j] = recv_pending_head[j] /\ got'[j] = got[j]
      BY <2>3 DEF RxServe
    <3>2. /\ j \in rx_ind <=> j \in rx_ind'
          /\ j \in p_done <=> j \in p_done'
          /\ j \in owes <=> j \in owes'
          /\ j \in rx_msk' => j \in rx_msk
      BY <1>1, <1>2, <2>3
    <3> QED
      BY <1>2, <2>1, <2>2, <3>1, <3>2, ReceivingFrame
  <2>4. CASE j \in RxActive
    <3>1. j \in rx_ind /\ j \in rx_msk
      BY <2>4 DEF RxActive
    <3>2. PeerInv(j)'
      BY <1>1, <1>2, <2>2, <2>4, <3>1 DEF PeerInv
    <3>2a. OwesInv(j)'
      BY <1>1, <1>2, <2>1, <2>2, <2>4, <3>1 DEF OwesInv
    <3>3. TakeInv(j)'
      <4> SUFFICES ASSUME Session(j), j \notin rewoken PROVE TakeInv(j)'
        BY <1>2, <2>1 DEF TakeInv
      <4>1. j \notin owes
        BY <2>2, <3>1 DEF TakeInv
      <4>2. PICK b \in Seq(Nat) : b = RecvList(j)
        BY DEF RecvList, TypeOK
      <4>3. Rest(j) = b
        BY <3>1, <4>1, <4>2 DEF Rest, RecvList
      <4>4. n[j] \in Nat /\ n[j] <= Len(b)
        <5>1. RX_MSGS * LEN \in Nat
          BY IntersysAssumption DEF IntersysAssumption
        <5>2. n[j] \in 0..(RX_MSGS * LEN)
          BY <2>4
        <5> QED
          BY <2>4, <4>2, <5>1, <5>2 DEF RxServe
      <4>5. got[j] \in Seq(Nat) /\ p_pending[j] \in Seq(Nat) /\ due[j] \in Seq(Nat)
        BY DEF TypeOK
      <4>6. Joined(got[j], b, p_pending[j], due[j])
        BY <2>2, <4>3 DEF TakeInv
      <4>7. Joined(got[j] \o SubSeq(b, 1, n[j]), From(b, n[j]), p_pending[j], due[j])
        BY <4>4, <4>5, <4>6, JoinedPart
      <4>8. recv_pending_head'[j] = From(b, n[j]) /\ got'[j] = got[j] \o SubSeq(b, 1, n[j])
        BY <2>4, <4>2 DEF RxServe
      <4>9. PICK rest : rest = From(b, n[j])
        OBVIOUS
      <4>10. CASE rest # <<>>
        <5>1. /\ j \in rx_ind' /\ j \notin owes' /\ recv_pending_head'[j] # <<>>
          BY <1>1, <1>2, <3>1, <4>1, <4>2, <4>8, <4>9, <4>10
        <5>2. Rest(j)' = rest
          BY <4>8, <4>9, <4>10 DEF Rest
        <5> QED
          BY <1>2, <4>7, <4>8, <4>9, <5>1, <5>2, Zenon DEF TakeInv
      <4>11. CASE rest = <<>>
        <5>1. /\ j \in rx_ind' => j \in owes'
              /\ j \in owes' => j \in rx_ind' /\ j \notin rx_msk'
          BY <1>1, <1>2, <2>4, <3>1, <4>1, <4>2, <4>9, <4>11
        <5>2. recv_pending_head'[j] = <<>>
          BY <4>8, <4>9, <4>11
        <5>3. Rest(j)' = rest
          BY <4>11, <5>1, <5>2 DEF Rest
        <5> QED
          BY <1>2, <4>7, <4>8, <4>9, <5>1, <5>2, <5>3, Zenon DEF TakeInv
      <4> QED
        BY <4>10, <4>11
    <3> QED
      BY <3>2, <3>2a, <3>3
  <2> QED
    BY <2>3, <2>4
<1>4. LeftInv'
  <2> SUFFICES ASSUME owner.op = "records" PROVE recv_pending_head'[owner.id] = <<>>
    BY DEF LeftInv
  <2>1. PICK k \in Ids : k = owner.id
    BY DEF TypeOK, Owners, Opening
  <2>2. k \notin opened /\ recv_pending_head[k] = <<>>
    BY <2>1 DEF LinkInv, ReceivingInv, LeftInv
  <2>3. k \notin RxActive
    <3> SUFFICES ASSUME k \in RxActive PROVE FALSE
      OBVIOUS
    <3>1. RecvList(k) = <<>>
      BY <2>2
    <3>2. p_list[k] # <<>>
      BY DEF RxActive, ReceivingInv, PeerInv
    <3> QED
      BY <2>2, <3>1, <3>2 DEF RecvList
  <2> QED
    BY <2>1, <2>2, <2>3 DEF RxServe
<1> QED
  BY <1>3, <1>4 DEF ReceivingInv

(* The peer sends a message.                                               *)
LEMMA ReceivingSend ==
    ASSUME TypeOK, ReceivingInv, NEW id \in Ids, PeerSend(id)
    PROVE  ReceivingInv'
<1>1. PICK msg \in Seq(Nat) :
        /\ msg # <<>>
        /\ p_list' = [p_list EXCEPT ![id] = IF p_list[id] = <<>> THEN msg ELSE @]
        /\ p_pending' = [p_pending EXCEPT ![id] = IF p_list[id] = <<>> THEN @ ELSE @ \o msg]
        /\ due' = [due EXCEPT ![id] = @ \o msg]
  <2> DEFINE m == [i \in 1..LEN |-> p_bytes[id] + i]
  <2>1. LEN \in Nat \ {0} /\ p_bytes[id] \in Nat
    BY IntersysAssumption DEF IntersysAssumption, TypeOK
  <2>2. m \in Seq(Nat)
    <3>1. m \in [1..LEN -> Nat]
      BY <2>1
    <3> QED
      BY <2>1, <3>1
  <2>3. m # <<>>
    <3>1. 1 \in DOMAIN m
      BY <2>1
    <3> QED
      BY <3>1
  <2>4. /\ p_list' = [p_list EXCEPT ![id] = IF p_list[id] = <<>> THEN m ELSE @]
        /\ p_pending' = [p_pending EXCEPT ![id] = IF p_list[id] = <<>> THEN @ ELSE @ \o m]
        /\ due' = [due EXCEPT ![id] = @ \o m]
    BY DEF PeerSend
  <2> HIDE DEF m
  <2> QED
    BY <2>2, <2>3, <2>4
<1>2. /\ rx_ind' = IF p_list[id] = <<>> THEN rx_ind \cup {id} ELSE rx_ind
      /\ UNCHANGED <<opened, owner, need_flow_ctrl, recv_pending_head, rx_msk, p_done, got, owes,
                     rewoken>>
  BY DEF PeerSend, openVars
<1>3. ASSUME NEW j \in Ids PROVE PeerInv(j)' /\ OwesInv(j)' /\ TakeInv(j)'
  <2>1. Session(j)' <=> Session(j)
    BY <1>2 DEF Session
  <2>2. PeerInv(j) /\ OwesInv(j) /\ TakeInv(j)
    BY DEF ReceivingInv
  <2>3. CASE j # id
    <3>1. p_list'[j] = p_list[j] /\ p_pending'[j] = p_pending[j] /\ due'[j] = due[j]
      BY <1>1, <2>3 DEF TypeOK
    <3> QED
      BY <1>2, <2>1, <2>2, <2>3, <3>1, ReceivingFrame
  <2>4. CASE j = id
    <3>1. /\ p_list[j] \in Seq(Nat) /\ p_pending[j] \in Seq(Nat) /\ due[j] \in Seq(Nat)
          /\ got[j] \in Seq(Nat) /\ recv_pending_head[j] \in Seq(Nat)
      BY DEF TypeOK
    <3>2. due'[j] = due[j] \o msg
      BY <1>1, <2>4 DEF TypeOK
    <3>3. CASE p_list[j] = <<>>
      <4>1. p_list'[j] = msg /\ p_pending'[j] = <<>> /\ p_pending[j] = <<>>
        BY <1>1, <2>2, <2>4, <3>3 DEF TypeOK, PeerInv
      <4>2. j \notin rx_ind /\ j \notin p_done /\ j \in rx_ind'
        BY <1>2, <2>2, <2>4, <3>3 DEF PeerInv
      <4>3. PeerInv(j)'
        BY <1>1, <1>2, <4>1, <4>2 DEF PeerInv
      <4>4. TakeInv(j)'
        <5> SUFFICES ASSUME Session(j), j \notin rewoken PROVE TakeInv(j)'
          BY <1>2, <2>1 DEF TakeInv
        <5>1. recv_pending_head[j] = <<>> /\ j \notin owes
          BY <2>2, <4>2 DEF OwesInv, TakeInv
        <5>2. Rest(j) = <<>> /\ Rest(j)' = msg
          BY <1>2, <4>1, <4>2, <5>1 DEF Rest
        <5>3. Joined(got[j], <<>>, <<>>, due[j])
          BY <2>2, <4>1, <5>2 DEF TakeInv
        <5>4. Joined(got[j], msg, <<>>, due[j] \o msg)
          BY <3>1, <5>3, JoinedFirst
        <5> QED
          BY <1>2, <3>2, <4>1, <4>2, <5>1, <5>2, <5>4, Zenon DEF TakeInv
      <4>5. OwesInv(j)'
        BY <1>2, <2>1, <2>2, <4>2 DEF OwesInv
      <4> QED
        BY <4>3, <4>4, <4>5
    <3>4. CASE p_list[j] # <<>>
      <4>1. p_list'[j] = p_list[j] /\ p_pending'[j] = p_pending[j] \o msg /\ rx_ind' = rx_ind
        BY <1>1, <1>2, <2>4, <3>4 DEF TypeOK
      <4>2. PeerInv(j)'
        BY <1>2, <2>2, <3>4, <4>1, Zenon DEF PeerInv
      <4>3. Rest(j)' = Rest(j)
        BY <1>2, <4>1 DEF Rest
      <4>4. PICK r \in Seq(Nat) : r = Rest(j)
        BY <3>1 DEF Rest
      <4>5. TakeInv(j)'
        <5> SUFFICES ASSUME Session(j), j \notin rewoken PROVE TakeInv(j)'
          BY <1>2, <2>1 DEF TakeInv
        <5>1. Joined(got[j], r, p_pending[j], due[j])
          BY <2>2, <4>4 DEF TakeInv
        <5>2. Joined(got[j], r, p_pending[j] \o msg, due[j] \o msg)
          BY <3>1, <5>1, JoinedMore
        <5>3. /\ recv_pending_head[j] # <<>> => j \in rx_ind
              /\ j \in owes => j \notin rx_msk /\ recv_pending_head[j] = <<>>
          BY <2>2 DEF TakeInv
        <5> QED
          BY <1>2, <3>2, <4>1, <4>3, <4>4, <5>2, <5>3, Zenon DEF TakeInv
      <4>6. OwesInv(j)'
        BY <1>2, <2>1, <2>2, <4>1 DEF OwesInv
      <4> QED
        BY <4>2, <4>5, <4>6
    <3> QED
      BY <3>3, <3>4
  <2> QED
    BY <2>3, <2>4
<1> QED
  BY <1>2, <1>3 DEF ReceivingInv, LeftInv

(* The peer shows what waited.                                             *)
LEMMA ReceivingTxDone ==
    ASSUME TypeOK, ReceivingInv, NEW id \in Ids, PeerTxDone(id)
    PROVE  ReceivingInv'
<1>1. /\ id \in p_done /\ p_done' = p_done \ {id}
      /\ rx_ind' = IF p_pending[id] # <<>> THEN rx_ind \cup {id} ELSE rx_ind
      /\ UNCHANGED <<opened, owner, need_flow_ctrl, recv_pending_head, rx_msk, got, owes, due,
                     rewoken>>
  BY DEF PeerTxDone, openVars, recvHist
<1>2. ASSUME NEW j \in Ids PROVE PeerInv(j)' /\ OwesInv(j)' /\ TakeInv(j)'
  <2>1. Session(j)' <=> Session(j)
    BY <1>1 DEF Session
  <2>2. PeerInv(j) /\ OwesInv(j) /\ TakeInv(j)
    BY DEF ReceivingInv
  <2>3. CASE j # id
    <3>1. p_list'[j] = p_list[j] /\ p_pending'[j] = p_pending[j]
      BY <2>3 DEF PeerTxDone, TypeOK
    <3> QED
      BY <1>1, <2>1, <2>2, <2>3, <3>1, ReceivingFrame
  <2>4. CASE j = id
    <3>1. p_pending[j] \in Seq(Nat) /\ due[j] \in Seq(Nat) /\ got[j] \in Seq(Nat)
      BY DEF TypeOK
    <3>2. p_list'[j] = p_pending[j] /\ p_pending'[j] = <<>>
      BY <2>4 DEF PeerTxDone, TypeOK
    <3>3. j \notin rx_ind /\ j \notin p_done' /\ (j \in rx_ind' <=> p_pending[j] # <<>>)
      BY <1>1, <2>2, <2>4 DEF PeerInv
    <3>4. PeerInv(j)'
      BY <3>2, <3>3 DEF PeerInv
    <3>4a. OwesInv(j)'
      BY <1>1, <2>1, <2>2, <3>3 DEF OwesInv
    <3>5. TakeInv(j)'
      <4> SUFFICES ASSUME Session(j), j \notin rewoken PROVE TakeInv(j)'
        BY <1>1, <2>1 DEF TakeInv
      <4>1. recv_pending_head[j] = <<>> /\ j \notin owes
        BY <2>2, <3>3 DEF OwesInv, TakeInv
      <4>2. Rest(j) = <<>> /\ Rest(j)' = p_pending[j]
        BY <1>1, <3>2, <3>3, <4>1 DEF Rest
      <4>3. Joined(got[j], <<>>, p_pending[j], due[j])
        BY <2>2, <4>2 DEF TakeInv
      <4>4. Joined(got[j], p_pending[j], <<>>, due[j])
        BY <3>1, <4>3, JoinedNext
      <4> QED
        BY <1>1, <3>2, <4>1, <4>2, <4>4, Zenon DEF TakeInv
    <3> QED
      BY <3>4, <3>4a, <3>5
  <2> QED
    BY <2>3, <2>4
<1> QED
  BY <1>1, <1>2 DEF ReceivingInv, LeftInv

LEMMA ReceivingOpen ==
    ASSUME TypeOK, ReceivingInv, OpenRecords
    PROVE  ReceivingInv'
<1>0. PICK id \in Ids :
        id = owner.id /\ owner.op = "records" /\ owner'.op = "open" /\ owner'.id = id
  BY OwnerStep DEF OpenRecords
<1>1. /\ owes' = owes \ {id} /\ rewoken' = rewoken \ {id}
      /\ need_flow_ctrl' =
           IF owner.rx_flowctrl THEN need_flow_ctrl \cup {id} ELSE need_flow_ctrl \ {id}
      /\ UNCHANGED <<opened, rx_ind, rx_msk, p_list, p_pending, p_done>>
  BY <1>0 DEF OpenRecords, peerSends, rxFlags
<1>2. ASSUME NEW j \in Ids, j # id PROVE PeerInv(j)' /\ OwesInv(j)' /\ TakeInv(j)'
  <2>1. Session(j)' <=> Session(j)
    BY <1>0, <1>1, <1>2 DEF Session
  <2>2. PeerInv(j) /\ OwesInv(j) /\ TakeInv(j)
    BY DEF ReceivingInv
  <2>3. /\ recv_pending_head'[j] = recv_pending_head[j] /\ got'[j] = got[j] /\ due'[j] = due[j]
    BY <1>0, <1>2 DEF OpenRecords, TypeOK
  <2> QED
    BY <1>1, <1>2, <2>1, <2>2, <2>3, ReceivingFrame
<1>3. PeerInv(id)'
  BY <1>1 DEF ReceivingInv, PeerInv
<1>4. recv_pending_head'[id] = <<>> /\ got'[id] = <<>> /\ due'[id] = Outstanding(id)
  BY <1>0 DEF OpenRecords, TypeOK, ReceivingInv, LeftInv
<1>5. PICK a \in Seq(Nat), b \in Seq(Nat) : a = Rest(id)' /\ b = p_pending[id]
  <2>1. <<>> \in Seq(Nat) /\ p_list[id] \in Seq(Nat) /\ p_pending[id] \in Seq(Nat)
    BY DEF TypeOK
  <2>2. Rest(id)' = IF id \in rx_ind THEN p_list[id] ELSE <<>>
    BY <1>1, <1>4 DEF Rest
  <2> QED
    BY <2>1, <2>2
<1>6. due'[id] = a \o b
  BY <1>1, <1>4, <1>5 DEF Rest, Outstanding
<1>7. Joined(<<>>, a, b, a \o b)
  <2>1. \A s \in Seq(Nat) : <<>> \o s = s
    OBVIOUS
  <2>2. a \o b \in Seq(Nat)
    BY ConcatProperties
  <2> QED
    BY <2>1, <2>2, Zenon DEF Joined
<1>8. TakeInv(id)' /\ OwesInv(id)'
  BY <1>1, <1>4, <1>5, <1>6, <1>7 DEF TakeInv, OwesInv
<1> QED
  BY <1>0, <1>2, <1>3, <1>8 DEF ReceivingInv, LeftInv

(* The steps of an opening before the session begins leave the other        *)
(* channels alone.                                                          *)
LEMMA ReceivingBefore ==
    ASSUME TypeOK, ReceivingInv, NEW id \in Ids, ~Session(id)', LeftInv',
           \A j \in Ids : Session(j)' => Session(j),
           \A j \in Ids : j # id => /\ recv_pending_head'[j] = recv_pending_head[j]
                                    /\ j \in rx_msk' <=> j \in rx_msk,
           UNCHANGED <<need_flow_ctrl, rx_ind, peerSends, recvHist>>
    PROVE  ReceivingInv'
<1>1. ASSUME NEW j \in Ids PROVE PeerInv(j)' /\ OwesInv(j)' /\ TakeInv(j)'
  <2>1. PeerInv(j) /\ OwesInv(j) /\ TakeInv(j)
    BY DEF ReceivingInv
  <2>2. CASE j = id
    BY <2>1, <2>2 DEF PeerInv, OwesInv, TakeInv, peerSends
  <2>3. CASE j # id
    BY <2>1, <2>3, ReceivingFrame DEF peerSends, recvHist
  <2> QED
    BY <2>2, <2>3
<1> QED
  BY <1>1 DEF ReceivingInv

LEMMA ReceivingNext ==
    TypeOK /\ LinkInv /\ rx_irq_handler = opened /\ ReceivingInv /\ [Next]_vars => ReceivingInv'
<1> SUFFICES ASSUME TypeOK, LinkInv, rx_irq_handler = opened, ReceivingInv, [Next]_vars
             PROVE  ReceivingInv'
  OBVIOUS
<1>1. ASSUME NEW id \in Ids, SendCheck(id) PROVE ReceivingInv'
  BY <1>1, ReceivingUnchanged DEF SendCheck, openVars, rxFlags
<1>2. ASSUME NEW id \in Ids, SendPut(id) PROVE ReceivingInv'
  BY <1>2, ReceivingUnchanged DEF SendPut, openVars, rxFlags
<1>3. ASSUME hal_intersys_tx_irq_handler PROVE ReceivingInv'
  BY <1>3, ReceivingUnchanged DEF hal_intersys_tx_irq_handler, openVars, rxFlags
<1>4. ASSUME hal_intersys_rx_irq_handler PROVE ReceivingInv'
  <2>1. UNCHANGED <<opened, owner, need_flow_ctrl>>
    BY <1>4 DEF hal_intersys_rx_irq_handler, openVars
  <2>2. CASE UNCHANGED <<recv_pending_head, rx_ind, rx_msk, peerSends, recvHist>>
    BY <2>1, <2>2, ReceivingUnchanged
  <2>3. ASSUME NEW n \in [RxActive -> 0..(RX_MSGS * LEN)], RxServe(RxActive, n),
               {j \in RxActive \ rx_irq_handler : RecvList(j) # <<>>} = {}
        PROVE  ReceivingInv'
    BY <2>1, <2>3, ReceivingServe
  <2> QED
    BY <1>4, <2>2, <2>3 DEF hal_intersys_rx_irq_handler
<1>5. ASSUME NEW id \in Ids, RxDone(id) PROVE ReceivingInv'
  <2>1. /\ id \in owes \cap opened /\ owes' = owes \ {id}
        /\ rx_ind' = rx_ind \ {id} /\ p_done' = p_done \cup {id} /\ rx_msk' = rx_msk \cup {id}
        /\ UNCHANGED <<opened, owner, need_flow_ctrl, recv_pending_head, p_list, p_pending, due, got,
                       rewoken>>
    BY <1>5 DEF RxDone, hal_intersys_rx_done, openVars
  <2>2. ASSUME NEW j \in Ids PROVE PeerInv(j)' /\ OwesInv(j)' /\ TakeInv(j)'
    <3>1. Session(j)' <=> Session(j)
      BY <2>1 DEF Session
    <3>2. PeerInv(j) /\ OwesInv(j) /\ TakeInv(j)
      BY DEF ReceivingInv
    <3>3. CASE j # id
      BY <2>1, <3>1, <3>2, <3>3, ReceivingFrame
    <3>4. CASE j = id
      <4>1. Session(j) /\ j \in rx_ind
        BY <2>1, <3>2, <3>4 DEF Session, OwesInv
      <4>2. PeerInv(j)' /\ OwesInv(j)'
        BY <2>1, <3>2, <3>4, <4>1 DEF PeerInv, OwesInv
      <4>3. TakeInv(j)'
        <5> SUFFICES ASSUME j \notin rewoken PROVE TakeInv(j)'
          BY <2>1 DEF TakeInv
        <5>1. recv_pending_head[j] = <<>>
          BY <2>1, <3>2, <3>4, <4>1 DEF TakeInv
        <5>2. Rest(j) = <<>> /\ Rest(j)' = <<>>
          BY <2>1, <3>4, <5>1 DEF Rest
        <5>3. Joined(got[j], <<>>, p_pending[j], due[j])
          BY <3>2, <4>1, <5>2 DEF TakeInv
        <5> QED
          BY <2>1, <3>4, <5>1, <5>2, <5>3 DEF TakeInv
      <4> QED
        BY <4>2, <4>3
    <3> QED
      BY <3>3, <3>4
  <2> QED
    BY <2>1, <2>2 DEF ReceivingInv, LeftInv
<1>6. ASSUME NEW id \in Ids, hal_intersys_start_recv(id) PROVE ReceivingInv'
  <2>1. /\ id \in opened /\ rx_msk' = rx_msk \cup Resumed(id)
        /\ UNCHANGED <<opened, owner, need_flow_ctrl, recv_pending_head, rx_ind, peerSends, recvHist>>
    BY <1>6 DEF hal_intersys_start_recv, openVars
  <2>2. ASSUME NEW j \in Ids PROVE PeerInv(j)' /\ OwesInv(j)' /\ TakeInv(j)'
    <3>1. (Session(j)' <=> Session(j)) /\ Session(id)
      BY <2>1 DEF Session
    <3>2. PeerInv(j) /\ OwesInv(j) /\ TakeInv(j)
      BY DEF ReceivingInv
    <3>3. j \in rx_msk' => (j \in rx_msk \/ j \notin owes \/ j \in rewoken)
      BY <2>1, <3>1, <3>2 DEF Resumed, TakeInv
    <3> QED
      BY <2>1, <3>1, <3>2, <3>3, ReceivingFrame DEF peerSends, recvHist
  <2> QED
    BY <2>1, <2>2 DEF ReceivingInv, LeftInv
<1>7. ASSUME NEW id \in Ids, hal_intersys_stop_recv(id) PROVE ReceivingInv'
  BY <1>7, ReceivingUnchanged DEF hal_intersys_stop_recv, openVars
<1>8. ASSUME NEW id \in Ids, NEW fc \in BOOLEAN, OpenBegin(id, fc) PROVE ReceivingInv'
  <2>1. /\ owner'.op = "clear" /\ owner'.id = id /\ owner.op = "idle" /\ id \notin opened
        /\ rx_msk' = rx_msk \cup {id}
        /\ UNCHANGED <<opened, need_flow_ctrl, recv_pending_head, rx_ind, peerSends, recvHist>>
    BY <1>8 DEF OpenBegin, OwnerIdle
  <2>2. ~Session(id)' /\ \A j \in Ids : Session(j)' => Session(j)
    BY <2>1 DEF Session
  <2>3. \A j \in Ids : j # id => (j \in rx_msk' <=> j \in rx_msk)
    BY <2>1
  <2>4. \A j \in Ids : j # id => recv_pending_head'[j] = recv_pending_head[j]
    BY <2>1
  <2> QED
    BY <2>1, <2>2, <2>3, <2>4, ReceivingBefore DEF LeftInv
<1>8a. ASSUME OpenClear PROVE ReceivingInv'
  <2>0. PICK id \in Ids : id = owner.id /\ owner.op = "clear" /\ owner'.op = "lists" /\ owner'.id = id
    BY <1>8a, OwnerStep DEF OpenClear
  <2>1. UNCHANGED <<opened, need_flow_ctrl, recv_pending_head, rx_ind, rx_msk, peerSends, recvHist>>
    BY <1>8a DEF OpenClear, rxFlags
  <2>2. ~Session(id)' /\ \A j \in Ids : Session(j)' => Session(j)
    BY <2>0, <2>1 DEF Session, LinkInv
  <2> QED
    BY <2>0, <2>1, <2>2, ReceivingBefore DEF LeftInv
<1>8b. ASSUME OpenLists PROVE ReceivingInv'
  <2>0. PICK id \in Ids :
          id = owner.id /\ owner.op = "lists" /\ owner'.op = "records" /\ owner'.id = id
    BY <1>8b, OwnerStep DEF OpenLists
  <2>1. UNCHANGED <<opened, need_flow_ctrl, rx_ind, rx_msk, peerSends, recvHist>>
    BY <1>8b DEF OpenLists, rxFlags
  <2>2. ~Session(id)' /\ \A j \in Ids : Session(j)' => Session(j)
    BY <2>0, <2>1 DEF Session, LinkInv
  <2>3. /\ recv_pending_head'[id] = <<>>
        /\ \A j \in Ids : j # id => recv_pending_head'[j] = recv_pending_head[j]
    BY <1>8b, <2>0 DEF OpenLists, TypeOK
  <2> QED
    BY <2>0, <2>1, <2>2, <2>3, ReceivingBefore DEF LeftInv
<1>8c. ASSUME OpenRecords PROVE ReceivingInv'
  BY <1>8c, ReceivingOpen
<1>9. ASSUME OpenEnd PROVE ReceivingInv'
  <2>1. /\ UNCHANGED <<need_flow_ctrl, recv_pending_head, rx_ind, rx_msk, peerSends, recvHist>>
        /\ owner'.op = "idle"
    BY <1>9 DEF OpenEnd, rxFlags
  <2>2. ASSUME NEW j \in Ids PROVE PeerInv(j)' /\ OwesInv(j)' /\ TakeInv(j)'
    <3>1. Session(j)' => Session(j)
      BY <1>9 DEF OpenEnd, Session
    <3>2. PeerInv(j) /\ OwesInv(j) /\ TakeInv(j)
      BY DEF ReceivingInv
    <3> QED
      BY <2>1, <3>1, <3>2, ReceivingFrame DEF peerSends, recvHist
  <2> QED
    BY <2>1, <2>2 DEF ReceivingInv, LeftInv
<1>10. ASSUME NEW id \in Ids, CloseBegin(id) PROVE ReceivingInv'
  <2>1. /\ UNCHANGED <<need_flow_ctrl, recv_pending_head, rx_ind, rx_msk, peerSends, recvHist>>
        /\ owner'.op = "close"
    BY <1>10 DEF CloseBegin, rxFlags
  <2>2. ASSUME NEW j \in Ids PROVE PeerInv(j)' /\ OwesInv(j)' /\ TakeInv(j)'
    <3>1. Session(j)' => Session(j)
      BY <1>10 DEF CloseBegin, Session
    <3>2. PeerInv(j) /\ OwesInv(j) /\ TakeInv(j)
      BY DEF ReceivingInv
    <3> QED
      BY <2>1, <3>1, <3>2, ReceivingFrame DEF peerSends, recvHist
  <2> QED
    BY <2>1, <2>2 DEF ReceivingInv, LeftInv
<1>11. ASSUME CloseEnd PROVE ReceivingInv'
  <2>1. /\ owner.op = "close" /\ owner'.op = "idle" /\ owner.id \in Ids /\ owner.id \notin opened
        /\ rx_msk' = rx_msk \ {owner.id} /\ need_flow_ctrl' = need_flow_ctrl \ {owner.id}
        /\ UNCHANGED <<opened, rx_ind, peerSends, recvHist>>
    BY <1>11 DEF CloseEnd, TypeOK, LinkInv, Owners, Opening
  <2>2. ASSUME NEW j \in Ids PROVE PeerInv(j)' /\ OwesInv(j)' /\ TakeInv(j)'
    <3>1. Session(j)' => Session(j)
      BY <2>1 DEF Session
    <3>2. PeerInv(j) /\ OwesInv(j) /\ TakeInv(j)
      BY DEF ReceivingInv
    <3>3. CASE j = owner.id
      <4>1. ~Session(j)'
        BY <2>1, <3>3 DEF Session
      <4> QED
        BY <2>1, <3>2, <4>1 DEF PeerInv, OwesInv, TakeInv, peerSends
    <3>4. CASE j # owner.id
      <4>1. recv_pending_head'[j] = recv_pending_head[j]
        BY <1>11, <3>4 DEF CloseEnd, TypeOK
      <4> QED
        BY <2>1, <3>1, <3>2, <3>4, <4>1, ReceivingFrame DEF peerSends, recvHist
    <3> QED
      BY <3>3, <3>4
  <2> QED
    BY <2>1, <2>2 DEF ReceivingInv, LeftInv
<1>12. ASSUME PowerDown PROVE ReceivingInv'
  <2>1. /\ rx_msk' = {}
        /\ UNCHANGED <<opened, owner, need_flow_ctrl, recv_pending_head, rx_ind, peerSends, due, got,
                       owes, rewoken>>
    BY <1>12 DEF PowerDown, openVars
  <2>2. ASSUME NEW j \in Ids PROVE PeerInv(j)' /\ OwesInv(j)' /\ TakeInv(j)'
    <3>1. Session(j)' <=> Session(j)
      BY <2>1 DEF Session
    <3>2. PeerInv(j) /\ OwesInv(j) /\ TakeInv(j)
      BY DEF ReceivingInv
    <3> QED
      BY <2>1, <3>1, <3>2, ReceivingFrame DEF peerSends, recvHist
  <2> QED
    BY <2>1, <2>2 DEF ReceivingInv, LeftInv
<1>13. ASSUME hal_intersys_pm_notif_handler PROVE ReceivingInv'
  <2>1. /\ rx_msk' = opened /\ rewoken' = rewoken \cup (opened \cap owes)
        /\ UNCHANGED <<opened, owner, need_flow_ctrl, recv_pending_head, rx_ind, peerSends, due, got,
                       owes>>
    BY <1>13 DEF hal_intersys_pm_notif_handler, openVars
  <2>2. ASSUME NEW j \in Ids PROVE PeerInv(j)' /\ OwesInv(j)' /\ TakeInv(j)'
    <3>1. Session(j)' <=> Session(j)
      BY <2>1 DEF Session
    <3>2. PeerInv(j) /\ OwesInv(j) /\ TakeInv(j)
      BY DEF ReceivingInv
    <3> QED
      BY <2>1, <3>1, <3>2, ReceivingFrame DEF peerSends, recvHist
  <2> QED
    BY <2>1, <2>2 DEF ReceivingInv, LeftInv
<1>14. ASSUME NEW id \in Ids, PeerTake(id) PROVE ReceivingInv'
  BY <1>14, ReceivingUnchanged DEF PeerTake, openVars, rxFlags
<1>15. ASSUME NEW id \in Ids, PeerDone(id) PROVE ReceivingInv'
  BY <1>15, ReceivingUnchanged DEF PeerDone, openVars, rxFlags
<1>16. ASSUME NEW id \in Ids, PeerSend(id) PROVE ReceivingInv'
  BY <1>16, ReceivingSend
<1>17. ASSUME NEW id \in Ids, PeerTxDone(id) PROVE ReceivingInv'
  BY <1>17, ReceivingTxDone
<1>18. CASE UNCHANGED vars
  BY <1>18, ReceivingUnchanged DEF vars, openVars, rxFlags
<1> QED
  BY <1>1, <1>2, <1>3, <1>4, <1>5, <1>6, <1>7, <1>8, <1>8a, <1>8b, <1>8c, <1>9, <1>10, <1>11,
     <1>12, <1>13,
     <1>14, <1>15, <1>16, <1>17, <1>18 DEF Next

(* What the receive handler is given is what the peer sent, in order and    *)
(* once, for any number and length of messages, however they are handed     *)
(* over and whenever the core powers down, but for the sessions in which a  *)
(* wake-up unmasked a channel whose clearing was owed.                      *)
THEOREM RecvFifoInv == Spec => []RecvFifo
<1>1. ASSUME TypeOK, ReceivingInv PROVE RecvFifo
  <2>1. ASSUME NEW id \in opened \ rewoken
        PROVE  got[id] \o Rest(id) \o p_pending[id] = due[id]
    <3>1. /\ Rest(id) \in Seq(Nat) /\ got[id] \in Seq(Nat) /\ p_pending[id] \in Seq(Nat)
      BY <1>1 DEF TypeOK, Rest
    <3>2. got[id] \o (Rest(id) \o p_pending[id]) = due[id]
      BY <1>1 DEF TypeOK, ReceivingInv, TakeInv, Session, Joined
    <3>3. (got[id] \o Rest(id)) \o p_pending[id] = got[id] \o (Rest(id) \o p_pending[id])
      BY <3>1, Regroup, Zenon
    <3> QED
      BY <3>2, <3>3, Zenon
  <2> QED
    BY <2>1, Zenon DEF RecvFifo, TakenInOrder, Rest
<1> QED
  BY <1>1, TypeInit, TypeNext, LinkInit, LinkNext, HandlerInit, HandlerNext, ReceivingInit,
     ReceivingNext, PTL DEF Spec

(* A list is handed over again only in a session in which a wake-up         *)
(* unmasked the channel while its clearing was owed, for any number of      *)
(* channels: nothing else makes the "New message" of the interrupt an old   *)
(* one.                                                                     *)
THEOREM RepeatsOnlyWokenHolds == Spec => RepeatsOnlyWoken
<1>1. ASSUME TypeOK, ReceivingInv, rx_irq_handler = opened, [Next]_vars, NEW id \in Ids,
             opens'[id] = opens[id], got'[id] # got[id], id \in owes
      PROVE  id \in rewoken
  <2>1. CASE hal_intersys_rx_irq_handler
    <3>1. got' # got
      BY <1>1
    <3>2. PICK n \in [RxActive -> 0..(RX_MSGS * LEN)] : RxServe(RxActive, n)
      BY <2>1, <3>1 DEF hal_intersys_rx_irq_handler, recvHist
    <3>3. {j \in RxActive \ rx_irq_handler : RecvList(j) # <<>>} = {}
      BY <2>1, <3>1 DEF hal_intersys_rx_irq_handler, recvHist
    <3>4. id \in RxActive
      BY <1>1, <3>2 DEF RxServe
    <3>5. id \in rx_ind /\ id \in rx_msk
      BY <3>4 DEF RxActive
    <3>6. RecvList(id) # <<>>
      BY <1>1, <3>5 DEF ReceivingInv, PeerInv, RecvList
    <3>7. Session(id)
      BY <1>1, <3>3, <3>4, <3>6 DEF Session
    <3> QED
      BY <1>1, <3>5, <3>7 DEF ReceivingInv, TakeInv
  <2>2. ASSUME OpenRecords PROVE FALSE
    <3>1. owner.id \in Ids
      BY <1>1, <2>2, OwnerStep DEF OpenRecords
    <3>2. owner.id # id
      <4>1. owner.id = id => opens'[id] = opens[id] + 1
        BY <1>1, <2>2, <3>1 DEF OpenRecords, TypeOK
      <4>2. opens[id] \in Nat
        BY <1>1 DEF TypeOK
      <4> QED
        BY <1>1, <4>1, <4>2
    <3> QED
      BY <1>1, <2>2, <3>1, <3>2 DEF OpenRecords, TypeOK
  <2>3. CASE UNCHANGED got
    BY <1>1, <2>3
  <2> QED
    BY <1>1, <2>1, <2>2, <2>3 DEF Next, vars, recvHist, SendCheck, SendPut, RxDone,
       hal_intersys_start_recv, hal_intersys_stop_recv, CloseBegin, PeerTake, PeerDone, PeerSend,
       PeerTxDone, hal_intersys_tx_irq_handler, OpenBegin, OpenClear, OpenLists, OpenEnd, CloseEnd,
       PowerDown, hal_intersys_pm_notif_handler
<1>2. TypeOK /\ ReceivingInv /\ rx_irq_handler = opened /\ [Next]_vars
        => [\A id \in Ids : (opens'[id] = opens[id] /\ got'[id] # got[id] /\ id \in owes)
                              => id \in rewoken]_vars
  BY <1>1
<1> QED
  BY <1>2, TypeInit, TypeNext, LinkInit, LinkNext, ReceivingInit, ReceivingNext, HandlerInit,
     HandlerNext, PTL DEF Spec, RepeatsOnlyWoken
================================================================================
