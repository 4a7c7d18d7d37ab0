--------------------------- MODULE BtSyncPairProofs ---------------------------
(***************************************************************************)
(* Proofs about the synchronised triggers of two buds: for every number of *)
(* channels, every delay, every set of operations and any number of        *)
(* commands, with one calling thread or two, a bud acts on a command at    *)
(* its tick only (ActsOnTime), both act or there is one of the known       *)
(* reasons (BothActOrExcused), and the master's channels and supervisions  *)
(* stay matched (NoLeak).                                                  *)
(***************************************************************************)
EXTENDS BtSyncPair, ArithmeticTheorems, SequenceTheorems, TLAPS

Channel == [used : BOOLEAN, op : Ops, id : Numbers, left : -1 .. DELAY]
Entry == [op : Ops, idx : Channels, id : Numbers, sendDone : BOOLEAN]
Calling == [pc : {"idle", "send", "find", "check", "take", "arm", "add"},
            op : Ops, idx : Channels, id : Numbers]
Sent == [op : Ops, left : -1 .. DELAY, acted : SUBSET Buds, excused : BOOLEAN,
         overlaps : BOOLEAN]

(* The thread has sent its command; it has taken a channel for it.         *)
Past(t) == caller[t].pc \notin {"idle", "send"}
Holds(t) == caller[t].pc \in {"arm", "add"}

TypeInv == TypeOK /\ cmds \in Seq(Sent) /\ Len(cmds) <= MAX_CMDS

(* Every number on its way is that of a command, a thread is through with  *)
(* its command within the tick in which it sent it, and a trigger is armed *)
(* for the tick of its command.                                            *)
RefInv ==
    /\ \A k \in DOMAIN toSlave : toSlave[k] \in DOMAIN cmds
    /\ done \subseteq DOMAIN cmds
    /\ \A i \in 1 .. count : table[i].id \in DOMAIN cmds
    /\ \A t \in Callers :
           Past(t) => /\ caller[t].id \in DOMAIN cmds /\ cmds[caller[t].id].left = DELAY
                      /\ cmds[caller[t].id].op = caller[t].op
    /\ \A b \in Buds, c \in Channels :
           chan[b][c].left >= 0 => /\ chan[b][c].id \in DOMAIN cmds
                                   /\ cmds[chan[b][c].id].left = chan[b][c].left

(* Where a command is while a bud has not acted on it and is not excused:  *)
(* with a thread that has not armed it yet, armed, or on its way.          *)
Early(t, i) == caller[t].id = i /\ caller[t].pc \in {"find", "check", "take", "arm"}
Armed(b, c, i) == chan[b][c].id = i /\ chan[b][c].left >= 0
Coming(i) == \E k \in DOMAIN toSlave : toSlave[k] = i

Acts(i) ==
    \/ cmds[i].excused
    \/ /\ \/ "master" \in cmds[i].acted
          \/ \E t \in Callers : Early(t, i)
          \/ \E c \in Channels : Armed("master", c, i)
       /\ \/ "slave" \in cmds[i].acted
          \/ Coming(i)
          \/ \E c \in Channels : Armed("slave", c, i)

ActInv == \A i \in DOMAIN cmds : Acts(i)

(* The operations the master sets up or supervises, its channels and the   *)
(* messages to its application thread, for one operation code.             *)

(* It is set up or supervised once.                                        *)
OneMember(op) ==
    /\ \A i, j \in 1 .. count : table[i].op = op /\ table[j].op = op => i = j
    /\ \A t, u \in Callers :
           Past(t) /\ Past(u) /\ caller[t].op = op /\ caller[u].op = op => t = u
    /\ \A i \in 1 .. count, t \in Callers : ~ (table[i].op = op /\ Past(t) /\ caller[t].op = op)

(* Behind channel c there is one of them, with l ticks left.               *)
Behind(op, c, l) ==
    \/ \E i \in 1 .. count : table[i].op = op /\ table[i].idx = c /\ cmds[table[i].id].left = l
    \/ \E t \in Callers : Holds(t) /\ caller[t].op = op /\ caller[t].idx = c /\ l = DELAY

ChanInv(op) ==
    \A c \in Channels : chan["master"][c].op = op =>
        /\ chan["master"][c].used => \E l \in -1 .. DELAY : Behind(op, c, l)
        /\ chan["master"][c].left >= 0 => Behind(op, c, chan["master"][c].left)

(* A thread about to arm a channel may do so for another one, which took   *)
(* the channel after it and in the same tick.                              *)
ArmInv(op) ==
    \A t \in Callers : caller[t].pc = "arm" /\ chan["master"][caller[t].idx].op = op =>
                           Behind(op, caller[t].idx, DELAY)

(* A message stands for an entry that is due, and its channel is free.     *)
MailInv(op) ==
    /\ \A j, k \in DOMAIN mailbox : mailbox[j] = op /\ mailbox[k] = op => j = k
    /\ (\E k \in DOMAIN mailbox : mailbox[k] = op) =>
           /\ \E i \in 1 .. count : table[i].op = op /\ cmds[table[i].id].left <= 0
           /\ \A c \in Channels : chan["master"][c].op = op =>
                  ~chan["master"][c].used /\ ~ (chan["master"][c].left >= 0)

OpInv(op) == OneMember(op) /\ ChanInv(op) /\ ArmInv(op) /\ MailInv(op)

MatchInv == \A op \in Ops : ~Overlapped(op) => OpInv(op)

IInv == TypeInv /\ RefInv /\ ActInv /\ MatchInv

-----------------------------------------------------------------------------
LEMMA Bounds ==
    /\ CHANNEL_MAX \in Nat \ {0} /\ DELAY \in Nat \ {0} /\ MAX_CMDS \in Nat \ {0}
    /\ "RETRIGGER" \in Ops
BY PairAssumption DEF PairAssumption

LEMMA Unarmed == -1 \in -1 .. DELAY /\ 0 \in Numbers
BY Bounds DEF Numbers

(* A function on the first numbers is a sequence.                          *)
LEMMA FunctionIsSeq ==
    ASSUME NEW S, NEW n \in Nat, NEW f \in [1 .. n -> S]
    PROVE  f \in Seq(S) /\ Len(f) = n /\ DOMAIN f = 1 .. n
<1>1. f \in Seq(S)
  BY SeqDef
<1> QED
  BY <1>1

LEMMA HeadIsFirst ==
    \A S : \A q \in Seq(S) : q # <<>> => 1 \in DOMAIN q /\ Head(q) = q[1] /\ Head(q) \in S
OBVIOUS

(* The types of the variables, as the proofs use them.                      *)
LEMMA Typed ==
    ASSUME TypeInv
    PROVE  /\ link \in BOOLEAN /\ toSlave \in Seq(1 .. MAX_CMDS) /\ toMaster \in Seq(Ops)
           /\ done \subseteq 1 .. MAX_CMDS
           /\ chan \in [Buds -> [Channels -> Channel]]
           /\ table \in [Channels -> Entry] /\ count \in 0 .. CHANNEL_MAX
           /\ mailbox \in Seq(Ops) /\ caller \in [Callers -> Calling]
           /\ retrigger \in BOOLEAN
           /\ cmds \in Seq(Sent) /\ Len(cmds) <= MAX_CMDS
BY Zenon DEF TypeInv, TypeOK, Channel, Entry, Calling

(* Excusing commands changes nothing else of them.                         *)
LEMMA Excusing ==
    ASSUME TypeInv, NEW ids, cmds' = Excuse(ids)
    PROVE  /\ cmds' \in Seq(Sent) /\ Len(cmds') = Len(cmds) /\ DOMAIN cmds' = DOMAIN cmds
           /\ \A i \in DOMAIN cmds : /\ cmds'[i].op = cmds[i].op
                                     /\ cmds'[i].left = cmds[i].left
                                     /\ cmds'[i].acted = cmds[i].acted
                                     /\ cmds'[i].overlaps = cmds[i].overlaps
                                     /\ cmds[i].excused => cmds'[i].excused
                                     /\ i \in ids => cmds'[i].excused
<1>1. Len(cmds) \in Nat /\ DOMAIN cmds = 1 .. Len(cmds) /\ \A i \in DOMAIN cmds : cmds[i] \in Sent
  BY DEF TypeInv
<1>2. \A i \in DOMAIN cmds : cmds'[i] = [cmds[i] EXCEPT !.excused = cmds[i].excused \/ i \in ids]
  BY DEF Excuse
<1>3. ASSUME NEW i \in DOMAIN cmds
      PROVE  /\ cmds'[i] \in Sent
             /\ cmds'[i].op = cmds[i].op /\ cmds'[i].left = cmds[i].left
             /\ cmds'[i].acted = cmds[i].acted /\ cmds'[i].overlaps = cmds[i].overlaps
             /\ cmds[i].excused => cmds'[i].excused
             /\ i \in ids => cmds'[i].excused
  <2>1. PICK s \in Sent : s = cmds[i]
    BY <1>1
  <2>2. PICK e \in BOOLEAN : e = (s.excused \/ i \in ids)
    BY <2>1, Zenon
  <2>3. cmds'[i] = [s EXCEPT !.excused = e]
    BY <1>2, <2>1, <2>2
  <2> QED
    BY <2>1, <2>2, <2>3 DEF Sent
<1>4. cmds' = [i \in DOMAIN cmds |-> cmds'[i]]
  BY DEF Excuse
<1>5. cmds' \in [1 .. Len(cmds) -> Sent]
  BY <1>1, <1>3, <1>4
<1>6. cmds' \in Seq(Sent) /\ Len(cmds') = Len(cmds) /\ DOMAIN cmds' = DOMAIN cmds
  BY <1>1, <1>5, FunctionIsSeq
<1> QED
  BY <1>3, <1>6

-----------------------------------------------------------------------------
(* What the steps of app_bt_sync_enable do to the thread, the channels, the *)
(* commands and the table, place by place.                                  *)

LEMMA NoCallTyped == NoCall \in Calling /\ NoCall.pc = "idle"
BY Bounds DEF NoCall, Calling, Channels, Numbers

(* A thread moves on; the other one stays where it is.                      *)
Moves(t, p) ==
    /\ caller' \in [Callers -> Calling]
    /\ caller'[t].pc = p /\ caller'[t].op = caller[t].op
    /\ \A u \in Callers \ {t} : caller'[u] = caller[u]

LEMMA Sending ==
    ASSUME TypeInv, NEW t \in Callers, SendCommand(t), link
    PROVE  /\ caller[t].pc = "send" /\ Moves(t, "find")
           /\ cmds' \in Seq(Sent) /\ Len(cmds') <= MAX_CMDS
           /\ Len(cmds') = Len(cmds) + 1 /\ DOMAIN cmds' = DOMAIN cmds \cup {Len(cmds) + 1}
           /\ caller'[t].id = Len(cmds) + 1
           /\ \A i \in DOMAIN cmds : cmds'[i] = cmds[i]
           /\ cmds'[Len(cmds) + 1] = Command(caller[t].op)
           /\ toSlave' = Append(toSlave, Len(cmds) + 1) /\ toSlave' \in Seq(1 .. MAX_CMDS)
<1>1. /\ Len(cmds) \in Nat /\ DOMAIN cmds = 1 .. Len(cmds) /\ Len(cmds) < MAX_CMDS
      /\ caller \in [Callers -> Calling] /\ toSlave \in Seq(1 .. MAX_CMDS)
  BY Typed DEF SendCommand
<1>2. /\ caller[t].pc = "send"
      /\ caller' = [caller EXCEPT ![t].pc = "find", ![t].id = Len(cmds) + 1]
      /\ cmds' = Append(cmds, Command(caller[t].op))
      /\ toSlave' = Append(toSlave, Len(cmds) + 1)
  BY DEF SendCommand
<1>3. Len(cmds) + 1 \in 1 .. MAX_CMDS /\ Len(cmds) + 1 \in Numbers
  BY <1>1, Bounds DEF Numbers
<1>4. Moves(t, "find") /\ caller'[t].id = Len(cmds) + 1
  BY <1>1, <1>2, <1>3 DEF Moves, Calling
<1>5. Command(caller[t].op) \in Sent
  <2>1. PICK o : o = (\/ \E i \in 1 .. count : table[i].op = caller[t].op
                      \/ \E u \in Callers : caller[u].op = caller[t].op
                                            /\ caller[u].pc \notin {"idle", "send"})
    OBVIOUS
  <2>2. o \in BOOLEAN
    BY <2>1, Zenon
  <2>3. Command(caller[t].op) = [op |-> caller[t].op, left |-> DELAY, acted |-> {},
                                 excused |-> FALSE, overlaps |-> o]
    BY <2>1 DEF Command
  <2>4. caller[t].op \in Ops /\ DELAY \in -1 .. DELAY
    BY <1>1, Bounds DEF Calling
  <2> QED
    BY <2>2, <2>3, <2>4 DEF Sent
<1>6. PICK s \in Sent : s = Command(caller[t].op)
  BY <1>5
<1>7. cmds \in Seq(Sent) /\ cmds' = Append(cmds, s)
  BY <1>2, <1>6 DEF TypeInv
<1>8. /\ cmds' \in Seq(Sent) /\ Len(cmds') = Len(cmds) + 1
      /\ \A i \in DOMAIN cmds : cmds'[i] = cmds[i]
      /\ cmds'[Len(cmds) + 1] = s
  BY <1>1, <1>7
<1>9. DOMAIN cmds' = DOMAIN cmds \cup {Len(cmds) + 1}
  BY <1>1, <1>8
<1>10. toSlave' \in Seq(1 .. MAX_CMDS)
  BY <1>1, <1>2, <1>3
<1> QED
  BY <1>1, <1>2, <1>4, <1>6, <1>8, <1>9, <1>10

LEMMA Finding ==
    ASSUME TypeInv, NEW t \in Callers, FindChannel(t)
    PROVE  /\ caller[t].pc = "find"
           /\ \/ /\ caller' = [caller EXCEPT ![t] = NoCall] /\ caller' \in [Callers -> Calling]
                 /\ cmds' = Excuse({caller[t].id})
              \/ /\ Moves(t, "check") /\ caller'[t].id = caller[t].id
                 /\ cmds' = cmds
<1>1. caller \in [Callers -> Calling]
  BY Typed
<1>2. CASE Suited("master", caller[t].op) = {}
  BY <1>1, <1>2, NoCallTyped DEF FindChannel
<1>3. CASE Suited("master", caller[t].op) # {}
  <2>1. Suited("master", caller[t].op) \subseteq Channels /\ Channels \subseteq Nat
    BY Bounds DEF Suited, Channels
  <2>2. PICK c \in Channels : c = Min(Suited("master", caller[t].op))
    BY <1>3, <2>1, MinIsLeast
  <2>3. /\ caller[t].pc = "find" /\ cmds' = cmds
        /\ caller' = [caller EXCEPT ![t].pc = "check", ![t].idx = c]
    BY <1>3, <2>2 DEF FindChannel
  <2> QED
    BY <1>1, <2>3 DEF Moves, Calling
<1> QED
  BY <1>2, <1>3

LEMMA Taking ==
    ASSUME TypeInv, RefInv, NEW t \in Callers, TakeChannel(t)
    PROVE  /\ caller[t].pc = "take" /\ Moves(t, "arm")
           /\ caller'[t].id = caller[t].id /\ caller'[t].idx = caller[t].idx
           /\ chan' \in [Buds -> [Channels -> Channel]]
           /\ \A b \in Buds, c \in Channels :
                 /\ chan'[b][c].id = chan[b][c].id /\ chan'[b][c].left = chan[b][c].left
                 /\ b # "master" \/ c # caller[t].idx => chan'[b][c] = chan[b][c]
           /\ chan'["master"][caller[t].idx].used
           /\ chan'["master"][caller[t].idx].op = caller[t].op
           /\ cmds' \in Seq(Sent) /\ Len(cmds') = Len(cmds) /\ DOMAIN cmds' = DOMAIN cmds
           /\ caller[t].id \in DOMAIN cmds
           /\ \A i \in DOMAIN cmds : /\ cmds'[i].op = cmds[i].op
                                     /\ cmds'[i].left = cmds[i].left
                                     /\ cmds'[i].acted = cmds[i].acted
                                     /\ cmds'[i].excused = cmds[i].excused
                                     /\ cmds[i].overlaps => cmds'[i].overlaps
           /\ chan["master"][caller[t].idx].left >= 0 => cmds'[caller[t].id].overlaps
<1>1. /\ Len(cmds) \in Nat /\ DOMAIN cmds = 1 .. Len(cmds)
      /\ caller \in [Callers -> Calling] /\ chan \in [Buds -> [Channels -> Channel]]
      /\ \A i \in DOMAIN cmds : cmds[i] \in Sent
  BY Typed
<1>2. /\ caller[t].pc = "take" /\ caller' = [caller EXCEPT ![t].pc = "arm"]
      /\ caller[t].idx \in Channels /\ caller[t].op \in Ops
  BY <1>1 DEF TakeChannel, Call, Calling
<1>3. Moves(t, "arm") /\ caller'[t].id = caller[t].id /\ caller'[t].idx = caller[t].idx
  BY <1>1, <1>2 DEF Moves, Calling
<1>4. /\ chan' \in [Buds -> [Channels -> Channel]]
      /\ \A b \in Buds, c \in Channels :
            /\ chan'[b][c].id = chan[b][c].id /\ chan'[b][c].left = chan[b][c].left
            /\ b # "master" \/ c # caller[t].idx => chan'[b][c] = chan[b][c]
      /\ chan'["master"][caller[t].idx].used
      /\ chan'["master"][caller[t].idx].op = caller[t].op
  <2>1. PICK o \in Ops, d \in Channels : o = caller[t].op /\ d = caller[t].idx
    BY <1>2
  <2>2. PICK r \in Channel : r = chan["master"][d]
    BY <1>1 DEF Buds
  <2>3. chan' = [chan EXCEPT !["master"][d].used = TRUE, !["master"][d].op = o]
    BY <2>1 DEF TakeChannel
  <2>4. PICK q \in Channel : q = [r EXCEPT !.used = TRUE, !.op = o]
    BY DEF Channel
  <2>5. chan' = [chan EXCEPT !["master"] = [chan["master"] EXCEPT ![d] = q]]
    BY <1>1, <2>2, <2>3, <2>4 DEF Buds
  <2>6. q.used /\ q.op = o /\ q.id = r.id /\ q.left = r.left
    BY <2>4 DEF Channel
  <2>7. chan'["master"][d] = q /\ chan' \in [Buds -> [Channels -> Channel]]
    BY <1>1, <2>5 DEF Buds
  <2>8. \A b \in Buds, c \in Channels : b # "master" \/ c # d => chan'[b][c] = chan[b][c]
    BY <1>1, <2>5 DEF Buds
  <2> QED
    BY <2>1, <2>2, <2>6, <2>7, <2>8
<1>5. caller[t].id \in DOMAIN cmds
  BY <1>2 DEF RefInv, Past
<1>6a. PICK n \in DOMAIN cmds, s \in Sent : n = caller[t].id /\ s = cmds[n]
  BY <1>1, <1>5
<1>6b. PICK o : o = (cmds[n].overlaps \/ chan["master"][caller[t].idx].left >= 0)
  OBVIOUS
<1>6. /\ n = caller[t].id /\ s = cmds[n]
      /\ o = (cmds[n].overlaps \/ chan["master"][caller[t].idx].left >= 0)
  BY <1>6a, <1>6b
<1>7. o \in BOOLEAN /\ (s.overlaps => o) /\ (chan["master"][caller[t].idx].left >= 0 => o)
  BY <1>6, Zenon
<1>8. cmds' = [cmds EXCEPT ![n] = [s EXCEPT !.overlaps = o]]
  BY <1>6 DEF TakeChannel
<1>9. PICK z \in Sent : z = [s EXCEPT !.overlaps = o]
  BY <1>7 DEF Sent
<1>10. z.op = s.op /\ z.left = s.left /\ z.acted = s.acted /\ z.excused = s.excused /\ z.overlaps = o
  BY <1>9 DEF Sent
<1>11. /\ cmds' \in Seq(Sent) /\ Len(cmds') = Len(cmds) /\ DOMAIN cmds' = DOMAIN cmds
       /\ cmds'[n] = z /\ \A i \in DOMAIN cmds : i # n => cmds'[i] = cmds[i]
  BY <1>1, <1>8, <1>9 DEF TypeInv
<1>12. \A i \in DOMAIN cmds : /\ cmds'[i].op = cmds[i].op
                              /\ cmds'[i].left = cmds[i].left
                              /\ cmds'[i].acted = cmds[i].acted
                              /\ cmds'[i].excused = cmds[i].excused
                              /\ cmds[i].overlaps => cmds'[i].overlaps
  BY <1>6, <1>7, <1>10, <1>11
<1>13. chan["master"][caller[t].idx].left >= 0 => cmds'[caller[t].id].overlaps
  BY <1>6, <1>7, <1>10, <1>11
<1> QED
  BY <1>2, <1>3, <1>4, <1>5, <1>11, <1>12, <1>13

(* One channel is changed.                                                  *)
Sets(b, c) ==
    /\ chan' \in [Buds -> [Channels -> Channel]]
    /\ \A a \in Buds, d \in Channels : a # b \/ d # c => chan'[a][d] = chan[a][d]

LEMMA Setting ==
    ASSUME TypeInv, NEW b \in Buds, NEW c \in Channels, NEW q \in Channel,
           chan' = [chan EXCEPT ![b] = [chan[b] EXCEPT ![c] = q]]
    PROVE  Sets(b, c) /\ chan'[b][c] = q
<1>1. chan \in [Buds -> [Channels -> Channel]]
  BY Typed
<1> QED
  BY <1>1 DEF Sets

LEMMA Arming ==
    ASSUME TypeInv, RefInv, NEW t \in Callers, ArmTrigger(t), NEW c, c = caller[t].idx
    PROVE  /\ caller[t].pc = "arm" /\ Moves(t, "add") /\ c \in Channels
           /\ caller'[t].id = caller[t].id /\ caller'[t].idx = c
           /\ Sets("master", c)
           /\ chan'["master"][c].used = chan["master"][c].used
           /\ chan'["master"][c].op = chan["master"][c].op
           /\ chan'["master"][c].id = caller[t].id /\ chan'["master"][c].left = DELAY
           /\ cmds' = Excuse(Replaced("master", c))
<1>1. caller \in [Callers -> Calling] /\ chan \in [Buds -> [Channels -> Channel]]
  BY Typed
<1>2. /\ caller[t].pc = "arm" /\ caller' = [caller EXCEPT ![t].pc = "add"]
      /\ c \in Channels /\ caller[t].id \in Numbers
      /\ cmds' = Excuse(Replaced("master", c))
      /\ chan' = [chan EXCEPT !["master"][c].id = caller[t].id,
                              !["master"][c].left = cmds[caller[t].id].left]
  BY <1>1 DEF ArmTrigger, ArmFor, Call, Calling
<1>3. Moves(t, "add") /\ caller'[t].id = caller[t].id /\ caller'[t].idx = c
  BY <1>1, <1>2 DEF Moves, Calling
<1>4. PICK n \in Numbers, l \in -1 .. DELAY :
          n = caller[t].id /\ l = cmds[caller[t].id].left /\ l = DELAY
  BY <1>2, Bounds DEF RefInv, Past
<1>5. PICK r \in Channel : r = chan["master"][c]
  BY <1>1, <1>2 DEF Buds
<1>6. PICK q \in Channel : q = [r EXCEPT !.id = n, !.left = l]
  BY DEF Channel
<1>7. q.used = r.used /\ q.op = r.op /\ q.id = n /\ q.left = l
  BY <1>6 DEF Channel
<1>8. chan' = [chan EXCEPT !["master"] = [chan["master"] EXCEPT ![c] = q]]
  BY <1>1, <1>2, <1>4, <1>5, <1>6 DEF Buds
<1>9. Sets("master", c) /\ chan'["master"][c] = q
  BY <1>2, <1>8, Setting DEF Buds
<1> QED
  BY <1>2, <1>3, <1>4, <1>5, <1>7, <1>9

LEMMA Adding ==
    ASSUME TypeInv, NEW t \in Callers, AddSupervision(t), caller[t].pc = "add", count < CHANNEL_MAX
    PROVE  /\ caller' = [caller EXCEPT ![t] = NoCall] /\ caller' \in [Callers -> Calling]
           /\ count' = count + 1 /\ count' \in 0 .. CHANNEL_MAX
           /\ table' \in [Channels -> Entry]
           /\ \A i \in 1 .. count : table'[i] = table[i]
           /\ table'[count + 1].op = caller[t].op /\ table'[count + 1].idx = caller[t].idx
           /\ table'[count + 1].id = caller[t].id
           /\ UNCHANGED <<linkVars, chan, mailbox, retrigger, failed, cmds>>
<1>1. /\ caller \in [Callers -> Calling] /\ table \in [Channels -> Entry]
      /\ count \in 0 .. CHANNEL_MAX /\ count + 1 \in Channels /\ count + 1 \in 0 .. CHANNEL_MAX
  BY Bounds, Typed DEF Channels
<1>0. ~ (caller[t].pc = "add" /\ count >= CHANNEL_MAX)
  BY <1>1, Bounds
<1>2. /\ caller' = [caller EXCEPT ![t] = NoCall] /\ count' = count + 1
      /\ table' = [table EXCEPT ![count + 1] =
            [@ EXCEPT !.op = caller[t].op, !.idx = caller[t].idx, !.id = caller[t].id]]
      /\ UNCHANGED <<linkVars, chan, mailbox, retrigger, failed, cmds>>
  BY <1>0 DEF AddSupervision
<1>3. caller' \in [Callers -> Calling]
  BY <1>1, <1>2, NoCallTyped
<1>4. PICK e \in Entry, o \in Ops, x \in Channels, n \in Numbers :
          e = table[count + 1] /\ o = caller[t].op /\ x = caller[t].idx /\ n = caller[t].id
  BY <1>1 DEF Calling
<1>5. PICK f \in Entry : f = [e EXCEPT !.op = o, !.idx = x, !.id = n]
  BY DEF Entry
<1>6. f.op = o /\ f.idx = x /\ f.id = n
  BY <1>5 DEF Entry
<1>7. table' = [table EXCEPT ![count + 1] = f]
  BY <1>1, <1>2, <1>4, <1>5
<1>8. /\ table' \in [Channels -> Entry] /\ table'[count + 1] = f
      /\ \A i \in 1 .. count : i # count + 1 /\ table'[i] = table[i]
  BY <1>1, <1>7, Bounds DEF Channels
<1> QED
  BY <1>1, <1>2, <1>3, <1>4, <1>6, <1>8

-----------------------------------------------------------------------------
(* What the steps of the slave, the triggers and the application thread do. *)

LEMMA Arriving ==
    ASSUME TypeInv, RefInv, CommandArrives, NEW n, n = Head(toSlave)
    PROVE  /\ toSlave # <<>> /\ toSlave' = Tail(toSlave) /\ done' = done \cup {n}
           /\ n \in DOMAIN cmds /\ n \in 1 .. MAX_CMDS
           /\ \/ \E c \in Channels :
                    /\ Sets("slave", c)
                    /\ chan'["slave"][c].id = n /\ chan'["slave"][c].left = cmds[n].left
                    /\ cmds[n].left > 0
                    /\ cmds' = Excuse(Replaced("slave", c))
              \/ chan' = chan /\ cmds' = Excuse({n})
<1>1. /\ chan \in [Buds -> [Channels -> Channel]] /\ toSlave \in Seq(1 .. MAX_CMDS)
      /\ \A i \in DOMAIN cmds : cmds[i] \in Sent
  BY Typed
<1>2. toSlave # <<>> /\ toSlave' = Tail(toSlave) /\ done' = done \cup {n}
  BY DEF CommandArrives
<1>3. 1 \in DOMAIN toSlave /\ n = toSlave[1] /\ n \in 1 .. MAX_CMDS
  BY <1>1, <1>2, HeadIsFirst, Zenon
<1>4. n \in DOMAIN cmds
  BY <1>3 DEF RefInv
<1>5. CASE InTime(cmds[n].left) /\ Suited("slave", cmds[n].op) # {}
  <2>1. Suited("slave", cmds[n].op) \subseteq Channels /\ Channels \subseteq Nat
    BY Bounds DEF Suited, Channels
  <2>2. PICK c \in Channels : c = Min(Suited("slave", cmds[n].op))
    BY <1>5, <2>1, MinIsLeast
  <2>3. PICK q : q = [used |-> TRUE, op |-> cmds[n].op, id |-> n, left |-> cmds[n].left]
    OBVIOUS
  <2>4. q \in Channel /\ q.id = n /\ q.left = cmds[n].left
    BY <1>1, <1>3, <1>4, <2>3, Bounds DEF Channel, Sent, Numbers
  <2>5. chan' = [chan EXCEPT !["slave"][c] = q] /\ cmds' = Excuse(Replaced("slave", c))
    BY <1>5, <2>2, <2>3 DEF CommandArrives
  <2>6. chan' = [chan EXCEPT !["slave"] = [chan["slave"] EXCEPT ![c] = q]]
    BY <2>5
  <2>7. Sets("slave", c) /\ chan'["slave"][c] = q
    BY <2>4, <2>6, Setting DEF Buds
  <2>8. cmds[n].left > 0
    BY <1>5 DEF InTime
  <2> QED
    BY <1>2, <1>3, <1>4, <2>4, <2>5, <2>7, <2>8
<1>6. CASE ~ (InTime(cmds[n].left) /\ Suited("slave", cmds[n].op) # {})
  <2>1. chan' = chan /\ cmds' = Excuse({n})
    BY <1>6 DEF CommandArrives
  <2> QED
    BY <1>2, <1>3, <1>4, <2>1
<1> QED
  BY <1>5, <1>6

LEMMA Triggering ==
    ASSUME TypeInv, RefInv, NEW b \in Buds, NEW c \in Channels, Triggered(b, c)
    PROVE  /\ chan[b][c].left = 0 /\ Sets(b, c)
           /\ ~chan'[b][c].used /\ chan'[b][c].left = -1 /\ chan'[b][c].op = chan[b][c].op
           /\ cmds' \in Seq(Sent) /\ Len(cmds') = Len(cmds) /\ DOMAIN cmds' = DOMAIN cmds
           /\ chan[b][c].id \in DOMAIN cmds /\ cmds[chan[b][c].id].left = 0
           /\ cmds'[chan[b][c].id].acted = cmds[chan[b][c].id].acted \cup {b}
           /\ \A i \in DOMAIN cmds : /\ cmds'[i].op = cmds[i].op
                                     /\ cmds'[i].left = cmds[i].left
                                     /\ cmds'[i].excused = cmds[i].excused
                                     /\ cmds'[i].overlaps = cmds[i].overlaps
                                     /\ i # chan[b][c].id => cmds'[i] = cmds[i]
<1>1. /\ Len(cmds) \in Nat /\ DOMAIN cmds = 1 .. Len(cmds)
      /\ chan \in [Buds -> [Channels -> Channel]]
      /\ \A i \in DOMAIN cmds : cmds[i] \in Sent
  BY Typed
<1>2. /\ chan[b][c].left = 0
      /\ chan' = [chan EXCEPT ![b][c].used = FALSE, ![b][c].left = -1, ![b][c].id = 0]
      /\ cmds' = [cmds EXCEPT ![chan[b][c].id].acted = @ \cup {b}]
  BY DEF Triggered
<1>3. PICK r \in Channel : r = chan[b][c]
  BY <1>1
<1>4. PICK q \in Channel : q = [r EXCEPT !.used = FALSE, !.left = -1, !.id = 0]
  BY Unarmed DEF Channel
<1>5. q.used = FALSE /\ q.left = -1 /\ q.op = r.op
  BY <1>4 DEF Channel
<1>6. chan' = [chan EXCEPT ![b] = [chan[b] EXCEPT ![c] = q]]
  BY <1>1, <1>2, <1>3, <1>4
<1>7. Sets(b, c) /\ chan'[b][c] = q
  BY <1>6, Setting
<1>8. r.id \in DOMAIN cmds /\ cmds[r.id].left = 0
  BY <1>2, <1>3 DEF RefInv
<1>9. PICK n \in DOMAIN cmds, s \in Sent : n = r.id /\ s = cmds[n]
  BY <1>1, <1>8
<1>10. PICK z \in Sent : z = [s EXCEPT !.acted = s.acted \cup {b}]
  BY DEF Sent
<1>11. /\ z.op = s.op /\ z.left = s.left /\ z.acted = s.acted \cup {b} /\ z.excused = s.excused
       /\ z.overlaps = s.overlaps
  BY <1>10 DEF Sent
<1>12. cmds' = [cmds EXCEPT ![n] = z]
  BY <1>2, <1>3, <1>9, <1>10
<1>13. /\ cmds' \in Seq(Sent) /\ Len(cmds') = Len(cmds) /\ DOMAIN cmds' = DOMAIN cmds
       /\ cmds'[n] = z /\ \A i \in DOMAIN cmds : i # n => cmds'[i] = cmds[i]
  BY <1>1, <1>12 DEF TypeInv
<1>14. ASSUME NEW i \in DOMAIN cmds
       PROVE  /\ cmds'[i].op = cmds[i].op
              /\ cmds'[i].left = cmds[i].left
              /\ cmds'[i].excused = cmds[i].excused
              /\ cmds'[i].overlaps = cmds[i].overlaps
              /\ i # n => cmds'[i] = cmds[i]
  BY <1>9, <1>11, <1>13
<1> QED
  BY <1>2, <1>3, <1>5, <1>7, <1>8, <1>9, <1>11, <1>13, <1>14

LEMMA Losing ==
    ASSUME TypeInv, RefInv, NEW b \in Buds, NEW c \in Channels, TriggerLost(b, c)
    PROVE  /\ chan[b][c].left = 0 /\ Sets(b, c)
           /\ chan'[b][c].used = chan[b][c].used /\ chan'[b][c].left = -1
           /\ chan'[b][c].op = chan[b][c].op
           /\ chan[b][c].id \in DOMAIN cmds
           /\ cmds' = Excuse({chan[b][c].id})
<1>1. chan \in [Buds -> [Channels -> Channel]]
  BY Typed
<1>2. /\ chan[b][c].left = 0
      /\ chan' = [chan EXCEPT ![b][c].left = -1, ![b][c].id = 0]
      /\ cmds' = Excuse({chan[b][c].id})
  BY DEF TriggerLost
<1>3. PICK r \in Channel : r = chan[b][c]
  BY <1>1
<1>4. PICK q \in Channel : q = [r EXCEPT !.left = -1, !.id = 0]
  BY Unarmed DEF Channel
<1>5. q.used = r.used /\ q.left = -1 /\ q.op = r.op
  BY <1>4 DEF Channel
<1>6. chan' = [chan EXCEPT ![b] = [chan[b] EXCEPT ![c] = q]]
  BY <1>1, <1>2, <1>3, <1>4
<1>7. Sets(b, c) /\ chan'[b][c] = q
  BY <1>6, Setting
<1>8. chan[b][c].id \in DOMAIN cmds
  BY <1>2 DEF RefInv
<1> QED
  BY <1>2, <1>3, <1>5, <1>7, <1>8

LEMMA TimingOut ==
    ASSUME TypeInv, TimedOut, NEW c, c = table[1].idx
    PROVE  /\ c \in Channels /\ count > 0 /\ mailbox = <<>> /\ cmds[table[1].id].left < 0
           /\ table[1].op \in Ops
           /\ Sets("master", c) /\ ~chan'["master"][c].used
           /\ chan'["master"][c].op = chan["master"][c].op
           /\ chan'["master"][c].id = chan["master"][c].id
           /\ chan'["master"][c].left = chan["master"][c].left
           /\ mailbox' = <<table[1].op>>
           /\ UNCHANGED <<linkVars, table, count, caller, retrigger, failed, cmds>>
<1>0. 1 \in Channels
  BY Bounds DEF Channels
<1>1. chan \in [Buds -> [Channels -> Channel]] /\ table \in [Channels -> Entry]
  BY Typed
<1>2. c \in Channels /\ table[1].op \in Ops
  BY <1>0, <1>1 DEF Entry
<1>3. PICK r \in Channel : r = chan["master"][c]
  BY <1>1, <1>2 DEF Buds
<1>4. PICK q \in Channel : q = [r EXCEPT !.used = FALSE]
  BY DEF Channel
<1>5. q.used = FALSE /\ q.op = r.op /\ q.id = r.id /\ q.left = r.left
  BY <1>4 DEF Channel
<1>6. chan' = [chan EXCEPT !["master"][c].used = FALSE]
  BY DEF TimedOut
<1>7. chan' = [chan EXCEPT !["master"] = [chan["master"] EXCEPT ![c] = q]]
  BY <1>1, <1>2, <1>3, <1>4, <1>6 DEF Buds
<1>8. Sets("master", c) /\ chan'["master"][c] = q
  BY <1>2, <1>7, Setting DEF Buds
<1>9. /\ count > 0 /\ mailbox = <<>> /\ cmds[table[1].id].left < 0
      /\ mailbox' = Append(mailbox, table[1].op)
      /\ UNCHANGED <<linkVars, table, count, caller, retrigger, failed, cmds>>
  BY DEF TimedOut
<1>10. mailbox' = <<table[1].op>>
  BY <1>9
<1> QED
  BY <1>2, <1>3, <1>5, <1>8, <1>9, <1>10

(* An entry is taken out and the later ones move up by one.                 *)
LEMMA Handling ==
    ASSUME TypeInv, app_bt_sync_handle, Supervised(Head(mailbox)) # {}
    PROVE  \E k \in 1 .. count :
             /\ table[k].op = Head(mailbox)
             /\ count' = count - 1 /\ count' \in 0 .. CHANNEL_MAX
             /\ table' \in [Channels -> Entry]
             /\ \A i \in 1 .. (count - 1) :
                   table'[i] = IF i >= k THEN table[i + 1] ELSE table[i]
<1>1. count \in 0 .. CHANNEL_MAX /\ table \in [Channels -> Entry]
  BY Typed
<1>2. Supervised(Head(mailbox)) \subseteq 1 .. count /\ 1 .. count \subseteq Nat
  BY <1>1, Bounds DEF Supervised
<1>3. PICK k \in 1 .. count : k = Min(Supervised(Head(mailbox))) /\ table[k].op = Head(mailbox)
  BY <1>2, MinIsLeast DEF Supervised
<1>4. /\ count' = count - 1
      /\ table' = [i \in Channels |->
                     IF i >= count THEN [NoEntry EXCEPT !.sendDone = table[i].sendDone]
                     ELSE IF i >= k THEN table[i + 1] ELSE table[i]]
  BY <1>3 DEF app_bt_sync_handle
<1>5. count - 1 \in 0 .. CHANNEL_MAX
  BY <1>1, <1>3, Bounds
<1>6. ASSUME NEW i \in Channels PROVE table'[i] \in Entry
  <2>1. [NoEntry EXCEPT !.sendDone = table[i].sendDone] \in Entry
    <3>1. NoEntry \in Entry
      BY Bounds DEF NoEntry, Entry, Channels, Numbers
    <3>2. table[i].sendDone \in BOOLEAN
      BY <1>1 DEF Entry
    <3> QED
      BY <3>1, <3>2 DEF Entry
  <2>2. i < count => i + 1 \in Channels
    BY <1>1, Bounds DEF Channels
  <2>3. i < count \/ i >= count
    BY <1>1, Bounds DEF Channels
  <2> QED
    BY <1>1, <1>4, <2>1, <2>2, <2>3
<1>7. table' \in [Channels -> Entry]
  BY <1>4, <1>6
<1>8. \A i \in 1 .. (count - 1) : i \in Channels /\ ~ (i >= count)
  BY <1>1, Bounds DEF Channels
<1>9. \A i \in 1 .. (count - 1) : table'[i] = IF i >= k THEN table[i + 1] ELSE table[i]
  BY <1>4, <1>8
<1> QED
  BY <1>3, <1>4, <1>5, <1>7, <1>9

LEMMA Acknowledging ==
    ASSUME TypeInv, NEW n, SendDone(n)
    PROVE  /\ table' \in [Channels -> Entry] /\ done' \subseteq done
           /\ \A i \in 1 .. count : /\ table'[i].op = table[i].op /\ table'[i].idx = table[i].idx
                                    /\ table'[i].id = table[i].id
<1>1. count \in 0 .. CHANNEL_MAX /\ table \in [Channels -> Entry] /\ 1 .. count \subseteq Channels
  BY Bounds, Typed DEF Channels
<1>2. CASE Supervised(cmds[n].op) = {}
  BY <1>1, <1>2 DEF SendDone
<1>3. CASE Supervised(cmds[n].op) # {}
  <2>1. Supervised(cmds[n].op) \subseteq Channels /\ Channels \subseteq Nat
    BY <1>1, Bounds DEF Supervised, Channels
  <2>2. PICK k \in Channels : k = Min(Supervised(cmds[n].op))
    BY <1>3, <2>1, MinIsLeast
  <2>3. table' = [table EXCEPT ![k].sendDone = TRUE] /\ done' \subseteq done
    BY <1>3, <2>2 DEF SendDone
  <2>4. PICK e \in Entry, f \in Entry : e = table[k] /\ f = [e EXCEPT !.sendDone = TRUE]
    BY <1>1 DEF Entry
  <2>5. f.op = e.op /\ f.idx = e.idx /\ f.id = e.id
    BY <2>4 DEF Entry
  <2>6. table' = [table EXCEPT ![k] = f]
    BY <1>1, <2>3, <2>4
  <2> QED
    BY <1>1, <2>3, <2>4, <2>5, <2>6
<1> QED
  BY <1>2, <1>3

LEMMA Ticking ==
    ASSUME TypeInv, Tick
    PROVE  /\ chan' \in [Buds -> [Channels -> Channel]]
           /\ \A b \in Buds, c \in Channels :
                 /\ chan[b][c].left # 0
                 /\ chan'[b][c].used = chan[b][c].used /\ chan'[b][c].op = chan[b][c].op
                 /\ chan'[b][c].id = chan[b][c].id
                 /\ chan[b][c].left > 0 => chan'[b][c].left = chan[b][c].left - 1
                 /\ chan[b][c].left < 0 => chan'[b][c].left < 0
           /\ cmds' \in Seq(Sent) /\ Len(cmds') = Len(cmds) /\ DOMAIN cmds' = DOMAIN cmds
           /\ \A i \in DOMAIN cmds : /\ cmds'[i].op = cmds[i].op
                                     /\ cmds'[i].acted = cmds[i].acted
                                     /\ cmds'[i].excused = cmds[i].excused
                                     /\ cmds'[i].overlaps = cmds[i].overlaps
                                     /\ cmds[i].left >= 0 => cmds'[i].left = cmds[i].left - 1
                                     /\ cmds[i].left < 0 => cmds'[i].left < 0
<1>1. /\ Len(cmds) \in Nat /\ DOMAIN cmds = 1 .. Len(cmds)
      /\ chan \in [Buds -> [Channels -> Channel]]
      /\ \A i \in DOMAIN cmds : cmds[i] \in Sent
  BY Typed
<1>2. /\ chan' = [b \in Buds |-> [c \in Channels |->
            IF chan[b][c].left > 0 THEN [chan[b][c] EXCEPT !.left = @ - 1] ELSE chan[b][c]]]
      /\ cmds' = [i \in DOMAIN cmds |->
            IF cmds[i].left >= 0 THEN [cmds[i] EXCEPT !.left = @ - 1] ELSE cmds[i]]
      /\ \A b \in Buds, c \in Channels : chan[b][c].left # 0
  BY DEF Tick, Due
<1>3. ASSUME NEW b \in Buds, NEW c \in Channels
      PROVE  /\ chan'[b][c] \in Channel
             /\ chan'[b][c].used = chan[b][c].used /\ chan'[b][c].op = chan[b][c].op
             /\ chan'[b][c].id = chan[b][c].id
             /\ chan[b][c].left > 0 => chan'[b][c].left = chan[b][c].left - 1
             /\ chan[b][c].left < 0 => chan'[b][c].left < 0
  <2>1. PICK r \in Channel : r = chan[b][c]
    BY <1>1
  <2>2. chan'[b][c] = IF r.left > 0 THEN [r EXCEPT !.left = r.left - 1] ELSE r
    BY <1>2, <2>1
  <2>3. r.left \in -1 .. DELAY /\ (r.left > 0 => r.left - 1 \in -1 .. DELAY)
    BY Bounds DEF Channel
  <2> QED
    BY <2>1, <2>2, <2>3, Bounds DEF Channel
<1>4. ASSUME NEW i \in DOMAIN cmds
      PROVE  /\ cmds'[i] \in Sent
             /\ cmds'[i].op = cmds[i].op /\ cmds'[i].acted = cmds[i].acted
             /\ cmds'[i].excused = cmds[i].excused /\ cmds'[i].overlaps = cmds[i].overlaps
             /\ cmds[i].left >= 0 => cmds'[i].left = cmds[i].left - 1
             /\ cmds[i].left < 0 => cmds'[i].left < 0
  <2>1. PICK s \in Sent : s = cmds[i]
    BY <1>1
  <2>2. cmds'[i] = IF s.left >= 0 THEN [s EXCEPT !.left = s.left - 1] ELSE s
    BY <1>2, <2>1
  <2>3. s.left \in -1 .. DELAY /\ (s.left >= 0 => s.left - 1 \in -1 .. DELAY)
    BY Bounds DEF Sent
  <2> QED
    BY <2>1, <2>2, <2>3, Bounds DEF Sent
<1>5. chan' \in [Buds -> [Channels -> Channel]]
  BY <1>2, <1>3
<1>6. cmds' = [i \in DOMAIN cmds |-> cmds'[i]]
  BY <1>2
<1>7. cmds' \in [1 .. Len(cmds) -> Sent]
  BY <1>1, <1>4, <1>6
<1>8. cmds' \in Seq(Sent) /\ Len(cmds') = Len(cmds) /\ DOMAIN cmds' = DOMAIN cmds
  BY <1>1, <1>7, FunctionIsSeq
<1> QED
  BY <1>2, <1>3, <1>4, <1>5, <1>8

-----------------------------------------------------------------------------
LEMMA TypeInit == Init => TypeInv
<1> SUFFICES ASSUME Init PROVE TypeInv
  OBVIOUS
<1>1. NoChannel \in Channel
  BY Unarmed, Bounds DEF NoChannel, Channel
<1>2. chan \in [Buds -> [Channels -> Channel]]
  BY <1>1 DEF Init
<1>3. NoEntry \in Entry
  BY Unarmed, Bounds DEF NoEntry, Entry, Channels
<1>4. table \in [Channels -> Entry]
  BY <1>3 DEF Init
<1>5. caller \in [Callers -> Calling]
  BY NoCallTyped DEF Init
<1>0. toSlave = <<>> /\ toMaster = <<>> /\ mailbox = <<>> /\ cmds = <<>> /\ done = {} /\ count = 0
  BY Zenon DEF Init
<1>6. /\ toSlave \in Seq(1 .. MAX_CMDS) /\ toMaster \in Seq(Ops) /\ mailbox \in Seq(Ops)
      /\ cmds \in Seq(Sent) /\ Len(cmds) <= MAX_CMDS /\ done \subseteq 1 .. MAX_CMDS
  BY <1>0, Bounds
<1>7. count \in 0 .. CHANNEL_MAX
  BY <1>0, Bounds
<1>8. link \in BOOLEAN /\ retrigger \in BOOLEAN /\ failed \in {"", "reuse channel", "supervisor is full"}
  BY DEF Init
<1> QED
  BY <1>2, <1>4, <1>5, <1>6, <1>7, <1>8, Zenon
  DEF TypeInv, TypeOK, Channel, Entry, Calling

LEMMA TypeNext == TypeInv /\ RefInv /\ [Next]_vars => TypeInv'
<1> SUFFICES ASSUME TypeInv, RefInv, [Next]_vars PROVE TypeInv'
  OBVIOUS
<1> DEFINE ChanT == chan' \in [Buds -> [Channels -> Channel]]
           TableT == table' \in [Channels -> Entry] /\ count' \in 0 .. CHANNEL_MAX
           CallT == caller' \in [Callers -> Calling]
           CmdsT == cmds' \in Seq(Sent) /\ Len(cmds') <= MAX_CMDS
           LinkT == /\ link' \in BOOLEAN /\ toSlave' \in Seq(1 .. MAX_CMDS)
                    /\ toMaster' \in Seq(Ops) /\ done' \subseteq 1 .. MAX_CMDS
           MailT == mailbox' \in Seq(Ops)
           RestT == retrigger' \in BOOLEAN /\ failed' \in {"", "reuse channel", "supervisor is full"}
<1>a. ASSUME ChanT, TableT, CallT, CmdsT, LinkT, MailT, RestT PROVE TypeInv'
  BY <1>a DEF TypeInv, TypeOK, Channel, Entry, Calling
<1>b. /\ UNCHANGED chan => ChanT
      /\ UNCHANGED <<table, count>> => TableT
      /\ UNCHANGED caller => CallT
      /\ UNCHANGED cmds => CmdsT
      /\ UNCHANGED linkVars => LinkT
      /\ UNCHANGED mailbox => MailT
      /\ UNCHANGED <<retrigger, failed>> => RestT
  BY DEF TypeInv, TypeOK, Channel, Entry, Calling, linkVars
<1>c. ASSUME NEW ids, cmds' = Excuse(ids) PROVE CmdsT
  BY <1>c, Excusing DEF TypeInv
<1>d. ASSUME NEW b, NEW c, Sets(b, c) PROVE ChanT
  BY <1>d DEF Sets
<1>e. ASSUME NEW t, NEW q, Moves(t, q) PROVE CallT
  BY <1>e DEF Moves
<1>f. ASSUME NEW what \in {"reuse channel", "supervisor is full"}, Fail(what) PROVE TypeInv'
  BY <1>a, <1>b, <1>f, Typed DEF Fail
<1>g. UNCHANGED <<link, toSlave, toMaster, done>> => LinkT
  BY <1>b DEF linkVars
<1> HIDE DEF ChanT, TableT, CallT, CmdsT, LinkT, MailT, RestT
<1>1. ASSUME NEW op \in Ops, UserCalls(op) PROVE TypeInv'
  <2>1. CallT
    BY <1>1, Typed DEF UserCalls, CallT, Calling
  <2> QED
    BY <1>1, <1>a, <1>b, <2>1 DEF UserCalls
<1>2. ASSUME NEW t \in Callers, SendCommand(t) PROVE TypeInv'
  <2>1. CASE link
    <3>1. CmdsT /\ CallT /\ LinkT
      BY <1>2, <2>1, Sending, Typed DEF Moves, CmdsT, CallT, LinkT, SendCommand
    <3> QED
      BY <1>2, <1>a, <1>b, <3>1 DEF SendCommand
  <2>2. CASE ~link
    <3>1. /\ caller' = [caller EXCEPT ![t] = NoCall]
          /\ UNCHANGED <<link, toSlave, toMaster, done>>
          /\ UNCHANGED <<chan, table, count, mailbox, retrigger, failed, cmds>>
      BY <1>2, <2>2 DEF SendCommand
    <3>2. CallT
      BY <3>1, NoCallTyped, Typed DEF CallT, Calling
    <3> QED
      BY <1>a, <1>b, <1>g, <3>1, <3>2
  <2> QED
    BY <2>1, <2>2
<1>3. ASSUME NEW t \in Callers, FindChannel(t) PROVE TypeInv'
  <2>1. CmdsT /\ CallT
    BY <1>3, <1>b, <1>c, <1>e, Finding DEF CallT
  <2> QED
    BY <1>3, <1>a, <1>b, <2>1 DEF FindChannel
<1>4. ASSUME NEW t \in Callers, CheckChannel(t) PROVE TypeInv'
  <2>1. CASE Fail("reuse channel")
    BY <1>f, <2>1
  <2>2. CASE ~Fail("reuse channel")
    <3>1. /\ caller' = [caller EXCEPT ![t].pc = "take"]
          /\ UNCHANGED <<link, toSlave, toMaster, done>>
          /\ UNCHANGED <<chan, table, count, mailbox, retrigger, failed, cmds>>
      BY <1>4, <2>2 DEF CheckChannel, Call
    <3>2. CallT
      BY <3>1, Typed DEF CallT, Calling
    <3> QED
      BY <1>a, <1>b, <1>g, <3>1, <3>2
  <2> QED
    BY <2>1, <2>2
<1>5. ASSUME NEW t \in Callers, TakeChannel(t) PROVE TypeInv'
  <2>1. CmdsT /\ CallT /\ ChanT
    BY <1>5, <1>e, Taking DEF CmdsT, ChanT, TypeInv
  <2> QED
    BY <1>5, <1>a, <1>b, <1>g, <2>1 DEF TakeChannel, Call
<1>6. ASSUME NEW t \in Callers, ArmTrigger(t) PROVE TypeInv'
  <2>1. CmdsT /\ CallT /\ ChanT
    BY <1>6, <1>c, <1>d, <1>e, Arming
  <2> QED
    BY <1>6, <1>a, <1>b, <1>g, <2>1 DEF ArmTrigger, ArmFor, Call
<1>7. ASSUME NEW t \in Callers, AddSupervision(t) PROVE TypeInv'
  <2>1. CASE Fail("supervisor is full")
    BY <1>f, <2>1
  <2>2. CASE ~Fail("supervisor is full")
    <3>0. caller[t].pc = "add" /\ ~ (count >= CHANNEL_MAX)
      BY <1>7, <2>2 DEF AddSupervision
    <3>1. caller[t].pc = "add" /\ count < CHANNEL_MAX
      BY <3>0, Bounds, Typed
    <3>2. TableT /\ CallT /\ UNCHANGED <<linkVars, chan, mailbox, retrigger, failed, cmds>>
      BY <1>7, <3>1, Adding DEF TableT, CallT
    <3> QED
      BY <1>a, <1>b, <3>2
  <2> QED
    BY <2>1, <2>2
<1>8. ASSUME RelayCalls PROVE TypeInv'
  <2>1. toMaster' \in Seq(Ops) /\ Head(toMaster) \in Ops
    BY <1>8, HeadIsFirst, Typed DEF RelayCalls
  <2>2. CallT
    BY <1>8, <2>1, Typed DEF RelayCalls, CallT, Calling, Callers
  <2>3. LinkT
    BY <1>8, <2>1, Typed DEF RelayCalls, LinkT
  <2>4. RestT
    BY <1>8, Zenon DEF RelayCalls, RestT, TypeInv, TypeOK
  <2> QED
    BY <1>8, <1>a, <1>b, <2>2, <2>3, <2>4 DEF RelayCalls
<1>9. ASSUME NEW op \in Ops, SlaveAsks(op) PROVE TypeInv'
  <2>1. LinkT
    BY <1>9, Typed DEF SlaveAsks, LinkT
  <2> QED
    BY <1>9, <1>a, <1>b, <2>1 DEF SlaveAsks
<1>10. ASSUME CommandArrives PROVE TypeInv'
  <2>1. PICK n : n = Head(toSlave)
    OBVIOUS
  <2>2. CmdsT /\ ChanT
    BY <1>10, <1>b, <1>c, <1>d, <2>1, Arriving
  <2>3. toSlave # <<>> /\ toSlave' = Tail(toSlave) /\ done' = done \cup {n} /\ n \in 1 .. MAX_CMDS
    BY <1>10, <2>1, Arriving
  <2>4. UNCHANGED <<link, toMaster, table, count, mailbox, caller, retrigger, failed>>
    BY <1>10 DEF CommandArrives
  <2>5. toSlave' \in Seq(1 .. MAX_CMDS) /\ done' \subseteq 1 .. MAX_CMDS
    BY <2>3, Typed
  <2>6. LinkT
    BY <2>4, <2>5, Typed DEF LinkT
  <2> QED
    BY <1>a, <1>b, <2>2, <2>4, <2>6
<1>11. ASSUME NEW b \in Buds, NEW c \in Channels, Triggered(b, c) PROVE TypeInv'
  <2>1. CmdsT /\ ChanT
    BY <1>11, <1>d, Triggering DEF CmdsT, TypeInv
  <2>2. chan[b][c].op \in Ops
    BY Typed DEF Channel
  <2>3. MailT
    BY <1>11, <2>2, Typed DEF Triggered, MailT
  <2> QED
    BY <1>11, <1>a, <1>b, <2>1, <2>3 DEF Triggered
<1>12. ASSUME NEW b \in Buds, NEW c \in Channels, TriggerLost(b, c) PROVE TypeInv'
  <2>1. CmdsT /\ ChanT
    BY <1>12, <1>c, <1>d, Losing
  <2> QED
    BY <1>12, <1>a, <1>b, <2>1 DEF TriggerLost
<1>13. ASSUME TimedOut PROVE TypeInv'
  <2>1. /\ ChanT /\ table[1].op \in Ops /\ mailbox' = <<table[1].op>>
        /\ UNCHANGED <<linkVars, table, count, caller, retrigger, failed, cmds>>
    BY <1>13, <1>d, TimingOut
  <2>2. MailT
    BY <2>1 DEF MailT
  <2> QED
    BY <1>a, <1>b, <2>1, <2>2
<1>14. ASSUME app_bt_sync_handle PROVE TypeInv'
  <2>1. MailT
    BY <1>14, Typed DEF app_bt_sync_handle, MailT
  <2>2. TableT
    <3>1. CASE Supervised(Head(mailbox)) = {}
      BY <1>14, <1>b, <3>1 DEF app_bt_sync_handle
    <3>2. CASE Supervised(Head(mailbox)) # {}
      BY <1>14, <3>2, Handling DEF TableT
    <3> QED
      BY <3>1, <3>2
  <2> QED
    BY <1>14, <1>a, <1>b, <2>1, <2>2 DEF app_bt_sync_handle
<1>15. ASSUME NEW n \in done, SendDone(n) PROVE TypeInv'
  <2>1. TableT /\ LinkT
    BY <1>15, Acknowledging, Typed DEF SendDone, TableT, LinkT
  <2> QED
    BY <1>15, <1>a, <1>b, <2>1 DEF SendDone
<1>16. ASSUME Tick PROVE TypeInv'
  <2>1. CmdsT /\ ChanT
    BY <1>16, Ticking DEF CmdsT, ChanT, TypeInv
  <2> QED
    BY <1>16, <1>a, <1>b, <2>1 DEF Tick
<1>17. ASSUME LinkDown PROVE TypeInv'
  <2>1. CmdsT
    BY <1>17, <1>c DEF LinkDown
  <2>2. toSlave' = <<>> /\ toMaster' = <<>> /\ done' = {} /\ link' = FALSE
    BY <1>17 DEF LinkDown
  <2>3. toSlave' \in Seq(1 .. MAX_CMDS) /\ toMaster' \in Seq(Ops) /\ done' \subseteq 1 .. MAX_CMDS
    BY <2>2
  <2>4. LinkT
    BY <2>2, <2>3, Zenon DEF LinkT
  <2> QED
    BY <1>17, <1>a, <1>b, <2>1, <2>4 DEF LinkDown
<1>18. ASSUME LinkUp PROVE TypeInv'
  <2>1. LinkT
    BY <1>18, Typed DEF LinkUp, LinkT
  <2> QED
    BY <1>18, <1>a, <1>b, <2>1 DEF LinkUp
<1>19. ASSUME RetriggerEnds PROVE TypeInv'
  <2>1. RestT
    BY <1>19, Zenon DEF RetriggerEnds, RestT, TypeInv, TypeOK
  <2> QED
    BY <1>19, <1>a, <1>b, <2>1 DEF RetriggerEnds
<1>20. CASE UNCHANGED vars
  BY <1>20, <1>a, <1>b DEF vars
<1> QED
  BY <1>1, <1>2, <1>3, <1>4, <1>5, <1>6, <1>7, <1>8, <1>9, <1>10, <1>11, <1>12, <1>13, <1>14, <1>15,
     <1>16, <1>17, <1>18, <1>19, <1>20 DEF Next, app_bt_sync_enable

-----------------------------------------------------------------------------
(* The steps, sorted by what they do to commands, channels and entries.     *)

(* Nothing happens to them: a thread calls, looks at its channel, or finds  *)
(* the link down; a request, an acknowledgement, an assertion.              *)
Quiet ==
    /\ UNCHANGED <<cmds, chan, count, mailbox, toSlave>> /\ done' \subseteq done
    /\ \A i \in 1 .. count : /\ table'[i].op = table[i].op /\ table'[i].idx = table[i].idx
                             /\ table'[i].id = table[i].id
    /\ \A t \in Callers :
           \/ caller'[t] = caller[t]
           \/ ~Past(t) /\ ~Past(t)'
           \/ /\ caller[t].pc = "check" /\ caller'[t].pc = "take"
              /\ caller'[t].op = caller[t].op /\ caller'[t].idx = caller[t].idx
              /\ caller'[t].id = caller[t].id

(* The commands that were sent stay, with their operation and tick.         *)
Keeps ==
    /\ DOMAIN cmds \subseteq DOMAIN cmds'
    /\ \A i \in DOMAIN cmds : /\ cmds'[i].op = cmds[i].op /\ cmds'[i].left = cmds[i].left
                              /\ cmds[i].acted \subseteq cmds'[i].acted
                              /\ cmds[i].excused => cmds'[i].excused
                              /\ cmds[i].overlaps => cmds'[i].overlaps

LEMMA QuietKeeps == Quiet => Keeps
BY DEF Quiet, Keeps

LEMMA QuietSteps ==
    ASSUME TypeInv, [Next]_vars
    PROVE  \/ Quiet
           \/ \E t \in Callers : \/ SendCommand(t) /\ link
                                 \/ FindChannel(t) \/ TakeChannel(t) \/ ArmTrigger(t)
                                 \/ /\ AddSupervision(t)
                                    /\ caller[t].pc = "add" /\ count < CHANNEL_MAX
           \/ CommandArrives
           \/ \E b \in Buds, c \in Channels : Triggered(b, c) \/ TriggerLost(b, c)
           \/ TimedOut \/ app_bt_sync_handle \/ Tick \/ LinkDown
<1>1. ASSUME NEW op \in Ops, UserCalls(op) PROVE Quiet
  <2>1. caller["user"].pc = "idle" /\ caller' = [caller EXCEPT !["user"].pc = "send", !["user"].op = op]
    BY <1>1 DEF UserCalls, MayCall
  <2>2. \A t \in Callers : caller'[t] = caller[t] \/ (~Past(t) /\ ~Past(t)')
    BY <2>1, Typed DEF Past, Callers, Calling
  <2> QED
    BY <1>1, <2>2 DEF UserCalls, linkVars, Quiet
<1>2. ASSUME RelayCalls PROVE Quiet
  <2>1. /\ caller["relay"].pc = "idle"
        /\ \/ caller' = caller
           \/ caller' = [caller EXCEPT !["relay"].pc = "send", !["relay"].op = Head(toMaster)]
    BY <1>2 DEF RelayCalls, MayCall
  <2>2. \A t \in Callers : caller'[t] = caller[t] \/ (~Past(t) /\ ~Past(t)')
    BY <2>1, Typed DEF Past, Callers, Calling
  <2> QED
    BY <1>2, <2>2 DEF RelayCalls, Quiet
<1>3. ASSUME NEW t \in Callers, SendCommand(t), ~link PROVE Quiet
  <2>1. /\ caller[t].pc = "send" /\ caller' = [caller EXCEPT ![t] = NoCall]
        /\ UNCHANGED <<cmds, chan, count, mailbox, toSlave, done, table>>
    BY <1>3 DEF SendCommand
  <2>2. \A u \in Callers : caller'[u] = caller[u] \/ (~Past(u) /\ ~Past(u)')
    BY <2>1, NoCallTyped, Typed DEF Past
  <2> QED
    BY <2>1, <2>2 DEF Quiet
<1>4. ASSUME NEW what, Fail(what) PROVE Quiet
  BY <1>4 DEF Fail, linkVars, Quiet
<1>5. ASSUME NEW t \in Callers, CheckChannel(t), ~Fail("reuse channel") PROVE Quiet
  <2>1. /\ caller[t].pc = "check" /\ caller' = [caller EXCEPT ![t].pc = "take"]
        /\ UNCHANGED <<cmds, chan, count, mailbox, toSlave, done, table>>
    BY <1>5 DEF CheckChannel, Call
  <2>2. \A u \in Callers :
           \/ caller'[u] = caller[u]
           \/ /\ caller[u].pc = "check" /\ caller'[u].pc = "take"
              /\ caller'[u].op = caller[u].op /\ caller'[u].idx = caller[u].idx
              /\ caller'[u].id = caller[u].id
    BY <2>1, Typed DEF Calling
  <2> QED
    BY <2>1, <2>2 DEF Quiet
<1>6. ASSUME NEW op, SlaveAsks(op) PROVE Quiet
  BY <1>6 DEF SlaveAsks, Quiet
<1>7. ASSUME NEW n, SendDone(n) PROVE Quiet
  BY <1>7, Acknowledging DEF SendDone, Quiet
<1>8. ASSUME LinkUp \/ RetriggerEnds PROVE Quiet
  BY <1>8 DEF LinkUp, RetriggerEnds, linkVars, Quiet
<1>9. ASSUME NEW t \in Callers, AddSupervision(t), ~Fail("supervisor is full")
      PROVE  caller[t].pc = "add" /\ count < CHANNEL_MAX
  <2>1. caller[t].pc = "add" /\ ~ (count >= CHANNEL_MAX)
    BY <1>9 DEF AddSupervision
  <2> QED
    BY <2>1, Bounds, Typed
<1>10. CASE UNCHANGED vars
  BY <1>10 DEF vars, linkVars, Quiet
<1> QED
  BY <1>1, <1>2, <1>3, <1>4, <1>5, <1>6, <1>7, <1>8, <1>9, <1>10 DEF Next, app_bt_sync_enable

(* Every step but a tick keeps the commands.                                *)
LEMMA Keeping ==
    ASSUME TypeInv, RefInv, [Next]_vars, ~Tick
    PROVE  Keeps
<1>1. ASSUME NEW ids, cmds' = Excuse(ids) PROVE Keeps
  BY <1>1, Excusing DEF Keeps
<1>2. cmds' = cmds => Keeps
  BY DEF Keeps
<1>3. ASSUME NEW t \in Callers, SendCommand(t), link PROVE Keeps
  BY <1>3, Sending DEF Keeps
<1>4. ASSUME NEW t \in Callers, FindChannel(t) PROVE Keeps
  BY <1>1, <1>2, <1>4, Finding
<1>5. ASSUME NEW t \in Callers, TakeChannel(t) PROVE Keeps
  BY <1>5, Taking DEF Keeps
<1>6. ASSUME NEW t \in Callers, ArmTrigger(t) PROVE Keeps
  BY <1>1, <1>6, Arming
<1>7. ASSUME NEW t \in Callers, AddSupervision(t) PROVE Keeps
  BY <1>2, <1>7 DEF AddSupervision, Fail
<1>8. ASSUME CommandArrives PROVE Keeps
  BY <1>1, <1>8, Arriving
<1>9. ASSUME NEW b \in Buds, NEW c \in Channels, Triggered(b, c) PROVE Keeps
  BY <1>9, Triggering DEF Keeps
<1>10. ASSUME NEW b \in Buds, NEW c \in Channels, TriggerLost(b, c) PROVE Keeps
  BY <1>1, <1>10, Losing
<1>11. TimedOut \/ app_bt_sync_handle => Keeps
  BY <1>2 DEF TimedOut, app_bt_sync_handle
<1>12. LinkDown => Keeps
  BY <1>1 DEF LinkDown
<1> QED
  BY <1>3, <1>4, <1>5, <1>6, <1>7, <1>8, <1>9, <1>10, <1>11, <1>12, QuietKeeps, QuietSteps

-----------------------------------------------------------------------------
(* Numbers and ticks.                                                       *)
LEMMA RefInit == Init => RefInv
<1> SUFFICES ASSUME Init PROVE RefInv
  OBVIOUS
<1>1. toSlave = <<>> /\ done = {} /\ count = 0
  BY Zenon DEF Init
<1>2. \A t \in Callers : ~Past(t)
  BY DEF Init, Past, NoCall
<1>3. \A b \in Buds, c \in Channels : chan[b][c] = NoChannel
  BY Zenon DEF Init
<1>4. \A b \in Buds, c \in Channels : chan[b][c].left = -1
  BY <1>3 DEF NoChannel
<1> QED
  BY <1>1, <1>2, <1>4 DEF RefInv

(* What is new, or has moved, refers to a command; the rest is as it was.   *)
LEMMA RefKept ==
    ASSUME RefInv, Keeps,
           \A k \in DOMAIN toSlave' : toSlave'[k] \in DOMAIN cmds',
           done' \subseteq DOMAIN cmds',
           \A i \in 1 .. count' : table'[i].id \in DOMAIN cmds',
           \A t \in Callers : Past(t)' =>
               \/ Past(t) /\ caller'[t].id = caller[t].id /\ caller'[t].op = caller[t].op
               \/ /\ caller'[t].id \in DOMAIN cmds' /\ cmds'[caller'[t].id].left = DELAY
                  /\ cmds'[caller'[t].id].op = caller'[t].op,
           \A b \in Buds, c \in Channels : chan'[b][c].left >= 0 =>
               \/ chan'[b][c].id = chan[b][c].id /\ chan'[b][c].left = chan[b][c].left
               \/ /\ chan'[b][c].id \in DOMAIN cmds'
                  /\ cmds'[chan'[b][c].id].left = chan'[b][c].left
    PROVE  RefInv'
<1>1. \A t \in Callers :
          Past(t)' => /\ caller'[t].id \in DOMAIN cmds' /\ cmds'[caller'[t].id].left = DELAY
                      /\ cmds'[caller'[t].id].op = caller'[t].op
  BY DEF RefInv, Keeps
<1>2. \A b \in Buds, c \in Channels :
          chan'[b][c].left >= 0 => /\ chan'[b][c].id \in DOMAIN cmds'
                                   /\ cmds'[chan'[b][c].id].left = chan'[b][c].left
  BY DEF RefInv, Keeps
<1> QED
  BY <1>1, <1>2 DEF RefInv

LEMMA RefNext == TypeInv /\ RefInv /\ [Next]_vars => RefInv'
<1> SUFFICES ASSUME TypeInv, RefInv, [Next]_vars PROVE RefInv'
  OBVIOUS
<1> DEFINE SlaveR == \A k \in DOMAIN toSlave' : toSlave'[k] \in DOMAIN cmds'
           DoneR == done' \subseteq DOMAIN cmds'
           TableR == \A i \in 1 .. count' : table'[i].id \in DOMAIN cmds'
           CallR == \A t \in Callers : Past(t)' =>
               \/ Past(t) /\ caller'[t].id = caller[t].id /\ caller'[t].op = caller[t].op
               \/ /\ caller'[t].id \in DOMAIN cmds' /\ cmds'[caller'[t].id].left = DELAY
                  /\ cmds'[caller'[t].id].op = caller'[t].op
           ChanR == \A b \in Buds, c \in Channels : chan'[b][c].left >= 0 =>
               \/ chan'[b][c].id = chan[b][c].id /\ chan'[b][c].left = chan[b][c].left
               \/ /\ chan'[b][c].id \in DOMAIN cmds'
                  /\ cmds'[chan'[b][c].id].left = chan'[b][c].left
<1>a. Keeps /\ SlaveR /\ DoneR /\ TableR /\ CallR /\ ChanR => RefInv'
  BY RefKept
<1>b. ASSUME Keeps
      PROVE  /\ UNCHANGED toSlave => SlaveR
             /\ UNCHANGED done => DoneR
             /\ UNCHANGED <<table, count>> => TableR
             /\ UNCHANGED caller => CallR
             /\ UNCHANGED chan => ChanR
  BY <1>b DEF Keeps, RefInv, Past
<1>c. ASSUME NEW b, NEW c, Sets(b, c), chan'[b][c].left = -1 PROVE ChanR
  BY <1>c DEF Sets
<1>d. ASSUME NEW t \in Callers, caller' = [caller EXCEPT ![t] = NoCall] PROVE CallR
  BY <1>d, NoCallTyped, Typed DEF Past
<1> HIDE DEF SlaveR, DoneR, TableR, CallR, ChanR
<1>1. ASSUME Quiet PROVE RefInv'
  <2>1. Keeps
    BY <1>1, QuietKeeps
  <2>2. CallR
    BY <1>1 DEF Quiet, CallR, Past
  <2>3. DoneR /\ TableR
    BY <1>1 DEF Quiet, DoneR, TableR, RefInv
  <2> QED
    BY <1>1, <1>a, <1>b, <2>1, <2>2, <2>3 DEF Quiet
<1>2. ASSUME ~Tick PROVE Keeps
  BY <1>2, Keeping
<1>3. ASSUME NEW t \in Callers, SendCommand(t), link, Keeps PROVE RefInv'
  <2>1. PICK n : n = Len(cmds) + 1
    OBVIOUS
  <2>2. /\ n \in DOMAIN cmds' /\ cmds'[n] = Command(caller[t].op)
        /\ toSlave' = Append(toSlave, n) /\ Moves(t, "find") /\ caller'[t].id = n
    BY <1>3, <2>1, Sending
  <2>3. cmds'[n].left = DELAY /\ cmds'[n].op = caller[t].op
    BY <2>2 DEF Command
  <2>4. CallR
    BY <2>2, <2>3 DEF Moves, CallR, Past
  <2>5. SlaveR
    <3>1. toSlave \in Seq(1 .. MAX_CMDS) /\ \A k \in DOMAIN toSlave : toSlave[k] \in DOMAIN cmds'
      BY <1>3, Typed DEF RefInv, Keeps
    <3> QED
      BY <2>2, <3>1 DEF SlaveR
  <2> QED
    BY <1>3, <1>a, <1>b, <2>4, <2>5 DEF SendCommand
<1>4. ASSUME NEW t \in Callers, FindChannel(t), Keeps PROVE RefInv'
  <2>1. CallR
    <3>1. CASE caller' = [caller EXCEPT ![t] = NoCall]
      BY <1>d, <3>1
    <3>2. CASE Moves(t, "check") /\ caller'[t].id = caller[t].id
      BY <1>4, <3>2 DEF Moves, CallR, Past, FindChannel
    <3> QED
      BY <1>4, <3>1, <3>2, Finding
  <2> QED
    BY <1>4, <1>a, <1>b, <2>1 DEF FindChannel, linkVars
<1>5. ASSUME NEW t \in Callers, TakeChannel(t), Keeps PROVE RefInv'
  <2>1. caller[t].pc = "take" /\ Moves(t, "arm") /\ caller'[t].id = caller[t].id
    BY <1>5, Taking
  <2>2. CallR
    BY <2>1 DEF Moves, CallR, Past
  <2>3. ChanR
    BY <1>5, Taking DEF ChanR
  <2> QED
    BY <1>5, <1>a, <1>b, <2>2, <2>3 DEF TakeChannel, Call
<1>6. ASSUME NEW t \in Callers, ArmTrigger(t), Keeps PROVE RefInv'
  <2>1. PICK c : c = caller[t].idx
    OBVIOUS
  <2>2. /\ caller[t].pc = "arm" /\ Moves(t, "add") /\ caller'[t].id = caller[t].id
        /\ c \in Channels /\ Sets("master", c)
        /\ chan'["master"][c].id = caller[t].id /\ chan'["master"][c].left = DELAY
    BY <1>6, <2>1, Arming
  <2>3. CallR
    BY <2>2 DEF Moves, CallR, Past
  <2>4. caller[t].id \in DOMAIN cmds' /\ cmds'[caller[t].id].left = DELAY
    BY <1>6, <2>2 DEF RefInv, Past, Keeps
  <2>5. ChanR
    BY <2>2, <2>4 DEF Sets, ChanR
  <2> QED
    BY <1>6, <1>a, <1>b, <2>3, <2>5 DEF ArmTrigger, ArmFor, Call
<1>7. ASSUME NEW t \in Callers, AddSupervision(t), caller[t].pc = "add", count < CHANNEL_MAX, Keeps
      PROVE  RefInv'
  <2>1. /\ count' = count + 1 /\ count \in 0 .. CHANNEL_MAX
        /\ \A i \in 1 .. count : table'[i] = table[i]
        /\ table'[count + 1].id = caller[t].id
        /\ caller' = [caller EXCEPT ![t] = NoCall]
        /\ UNCHANGED <<linkVars, chan, mailbox, retrigger, failed, cmds>>
    BY <1>7, Adding, Typed
  <2>2. caller[t].id \in DOMAIN cmds /\ \A i \in 1 .. count : table[i].id \in DOMAIN cmds
    BY <1>7 DEF RefInv, Past
  <2>3. \A i \in 1 .. (count + 1) : i \in 1 .. count \/ i = count + 1
    BY <2>1, Bounds
  <2>4. TableR
    BY <2>1, <2>2, <2>3 DEF TableR
  <2> QED
    BY <1>7, <1>a, <1>b, <1>d, <2>1, <2>4 DEF linkVars
<1>8. ASSUME CommandArrives, Keeps PROVE RefInv'
  <2>1. PICK n : n = Head(toSlave)
    OBVIOUS
  <2>2. toSlave # <<>> /\ toSlave' = Tail(toSlave) /\ done' = done \cup {n} /\ n \in DOMAIN cmds
    BY <1>8, <2>1, Arriving
  <2>3. DoneR
    BY <1>8, <2>2 DEF DoneR, RefInv, Keeps
  <2>4. SlaveR
    <3>1. toSlave \in Seq(1 .. MAX_CMDS) /\ \A k \in DOMAIN toSlave : toSlave[k] \in DOMAIN cmds'
      BY <1>8, Typed DEF RefInv, Keeps
    <3> QED
      BY <2>2, <3>1 DEF SlaveR
  <2>5. ChanR
    <3>1. CASE chan' = chan
      BY <1>8, <1>b, <3>1
    <3>2. ASSUME NEW c \in Channels, Sets("slave", c), chan'["slave"][c].id = n,
                 chan'["slave"][c].left = cmds[n].left
          PROVE  ChanR
      BY <1>8, <2>2, <3>2 DEF ChanR, Sets, Keeps
    <3> QED
      BY <1>8, <2>1, <3>1, <3>2, Arriving
  <2> QED
    BY <1>8, <1>a, <1>b, <2>3, <2>4, <2>5 DEF CommandArrives
<1>9. ASSUME NEW b \in Buds, NEW c \in Channels, Triggered(b, c), Keeps PROVE RefInv'
  <2>1. ChanR
    BY <1>9, <1>c, Triggering
  <2> QED
    BY <1>9, <1>a, <1>b, <2>1 DEF Triggered, linkVars
<1>10. ASSUME NEW b \in Buds, NEW c \in Channels, TriggerLost(b, c), Keeps PROVE RefInv'
  <2>1. ChanR
    BY <1>10, <1>c, Losing
  <2> QED
    BY <1>10, <1>a, <1>b, <2>1 DEF TriggerLost, linkVars
<1>11. ASSUME TimedOut, Keeps PROVE RefInv'
  <2>1. PICK c : c = table[1].idx
    OBVIOUS
  <2>2. ChanR
    BY <1>11, <2>1, TimingOut DEF Sets, ChanR
  <2> QED
    BY <1>11, <1>a, <1>b, <2>2 DEF TimedOut, linkVars
<1>12. ASSUME app_bt_sync_handle, Keeps PROVE RefInv'
  <2>1. TableR
    <3>1. CASE Supervised(Head(mailbox)) = {}
      BY <1>12, <1>b, <3>1 DEF app_bt_sync_handle
    <3>2. CASE Supervised(Head(mailbox)) # {}
      <4>1. PICK k \in 1 .. count :
                /\ count' = count - 1 /\ count \in 0 .. CHANNEL_MAX
                /\ \A i \in 1 .. (count - 1) :
                      table'[i] = IF i >= k THEN table[i + 1] ELSE table[i]
        BY <1>12, <3>2, Handling, Typed
      <4>2. \A i \in 1 .. (count - 1) : i \in 1 .. count /\ i + 1 \in 1 .. count
        BY <4>1, Bounds
      <4>3. \A i \in 1 .. count : table[i].id \in DOMAIN cmds'
        BY <1>12 DEF RefInv, Keeps
      <4> QED
        BY <4>1, <4>2, <4>3 DEF TableR
    <3> QED
      BY <3>1, <3>2
  <2> QED
    BY <1>12, <1>a, <1>b, <2>1 DEF app_bt_sync_handle, linkVars
<1>13. ASSUME LinkDown, Keeps PROVE RefInv'
  <2>1. toSlave' = <<>> /\ done' = {} /\ UNCHANGED <<chan, table, count, caller>>
    BY <1>13 DEF LinkDown
  <2>2. SlaveR /\ DoneR
    BY <2>1 DEF SlaveR, DoneR
  <2> QED
    BY <1>13, <1>a, <1>b, <2>1, <2>2
<1>14. ASSUME Tick PROVE RefInv'
  <2>1. /\ DOMAIN cmds' = DOMAIN cmds /\ UNCHANGED <<linkVars, table, count, caller>>
        /\ \A t \in Callers : ~Past(t)
    BY <1>14, Ticking DEF Tick, Past
  <2>2. ASSUME NEW b \in Buds, NEW c \in Channels, chan'[b][c].left >= 0
        PROVE  /\ chan'[b][c].id \in DOMAIN cmds'
               /\ cmds'[chan'[b][c].id].left = chan'[b][c].left
    <3>1. PICK l \in -1 .. DELAY : l = chan[b][c].left
      BY Typed DEF Channel
    <3>0. /\ l # 0 /\ chan'[b][c].id = chan[b][c].id /\ chan' \in [Buds -> [Channels -> Channel]]
          /\ l > 0 => chan'[b][c].left = l - 1
          /\ l < 0 => chan'[b][c].left < 0
      BY <1>14, <3>1, Ticking
    <3>2. /\ l # 0 /\ chan'[b][c].id = chan[b][c].id /\ ~ (l < 0)
          /\ l > 0 => chan'[b][c].left = l - 1
      BY <2>2, <3>0, Bounds DEF Channel
    <3>3. l > 0 /\ l - 1 >= 0
      BY <3>1, <3>2, Bounds
    <3>4. chan[b][c].id \in DOMAIN cmds /\ cmds[chan[b][c].id].left = l
      BY <3>1, <3>3, Bounds DEF RefInv
    <3>5. cmds'[chan[b][c].id].left = l - 1
      BY <1>14, <3>3, <3>4, Ticking, Bounds
    <3> QED
      BY <2>1, <3>2, <3>3, <3>4, <3>5
  <2>3. \A t \in Callers : ~Past(t)'
    BY <2>1 DEF Past
  <2> QED
    BY <2>1, <2>2, <2>3 DEF RefInv, linkVars
<1> QED
  BY <1>1, <1>2, <1>3, <1>4, <1>5, <1>6, <1>7, <1>8, <1>9, <1>10, <1>11, <1>12, <1>13, <1>14, QuietSteps

-----------------------------------------------------------------------------
(* Nobody forgets a command.                                                *)
LEMMA ActInit == Init => ActInv
<1> SUFFICES ASSUME Init PROVE ActInv
  OBVIOUS
<1>1. cmds = <<>>
  BY Zenon DEF Init
<1> QED
  BY <1>1 DEF ActInv

(* Wherever the command was, it is there still, or has moved on.            *)
LEMMA ActKept ==
    ASSUME NEW i \in DOMAIN cmds, Acts(i),
           cmds[i].excused => cmds'[i].excused, cmds[i].acted \subseteq cmds'[i].acted,
           \A t \in Callers : Early(t, i) =>
               \/ Early(t, i)' \/ cmds'[i].excused \/ \E c \in Channels : Armed("master", c, i)',
           \A b \in Buds, c \in Channels : Armed(b, c, i) =>
               \/ Armed(b, c, i)' \/ cmds'[i].excused \/ b \in cmds'[i].acted,
           Coming(i) =>
               \/ Coming(i)' \/ cmds'[i].excused \/ \E c \in Channels : Armed("slave", c, i)'
    PROVE  Acts(i)'
BY DEF Acts, Buds

LEMMA ActNext == TypeInv /\ RefInv /\ ActInv /\ [Next]_vars => ActInv'
<1> SUFFICES ASSUME TypeInv, RefInv, ActInv, [Next]_vars PROVE ActInv'
  OBVIOUS
<1> DEFINE CallA(i) == \A t \in Callers : Early(t, i) =>
               \/ Early(t, i)' \/ cmds'[i].excused \/ \E c \in Channels : Armed("master", c, i)'
           ChanA(i) == \A b \in Buds, c \in Channels : Armed(b, c, i) =>
               \/ Armed(b, c, i)' \/ cmds'[i].excused \/ b \in cmds'[i].acted
           LinkA(i) == Coming(i) =>
               \/ Coming(i)' \/ cmds'[i].excused \/ \E c \in Channels : Armed("slave", c, i)'
           Here(i) == CallA(i) /\ ChanA(i) /\ LinkA(i)
<1>a. ASSUME Keeps, DOMAIN cmds' = DOMAIN cmds, \A i \in DOMAIN cmds : Here(i) PROVE ActInv'
  <2>1. ASSUME NEW i \in DOMAIN cmds PROVE Acts(i)'
    <3>1. cmds[i].excused => cmds'[i].excused
      BY <1>a DEF Keeps
    <3>2. cmds[i].acted \subseteq cmds'[i].acted
      BY <1>a DEF Keeps
    <3>3. Acts(i) /\ CallA(i) /\ ChanA(i) /\ LinkA(i)
      BY <1>a DEF ActInv
    <3> QED
      BY <3>1, <3>2, <3>3, ActKept
  <2> QED
    BY <1>a, <2>1 DEF ActInv
<1>b. ASSUME NEW i
      PROVE  /\ UNCHANGED caller => CallA(i)
             /\ UNCHANGED chan => ChanA(i)
             /\ UNCHANGED toSlave => LinkA(i)
  BY DEF Early, Armed, Coming
<1>c. ASSUME NEW b, NEW c, Sets(b, c), NEW i,
             Armed(b, c, i) => Armed(b, c, i)' \/ cmds'[i].excused \/ b \in cmds'[i].acted
      PROVE  ChanA(i)
  BY <1>c DEF Sets, Armed
<1>d. ASSUME NEW t \in Callers, NEW q \in {"check", "take", "arm"}, Moves(t, q), NEW i,
             caller'[t].id = caller[t].id
      PROVE  CallA(i)
  BY <1>d DEF Moves, Early
<1> HIDE DEF CallA, ChanA, LinkA
<1>1. ASSUME Quiet PROVE ActInv'
  <2>1. \A i : CallA(i)
    BY <1>1 DEF Quiet, CallA, Early, Past
  <2>2. Keeps /\ cmds' = cmds
    BY <1>1, QuietKeeps DEF Quiet
  <2> QED
    BY <1>1, <1>a, <1>b, <2>1, <2>2 DEF Quiet
<1>2. ASSUME ~Tick PROVE Keeps
  BY <1>2, Keeping
<1>3. ASSUME NEW t \in Callers, SendCommand(t), link, Keeps PROVE ActInv'
  <2>1. PICK n : n = Len(cmds) + 1
    OBVIOUS
  <2>2. /\ DOMAIN cmds' = DOMAIN cmds \cup {n}
        /\ caller[t].pc = "send" /\ Moves(t, "find") /\ caller'[t].id = n
        /\ toSlave' = Append(toSlave, n)
    BY <1>3, <2>1, Sending
  <2>3. /\ \A k \in DOMAIN toSlave : k \in DOMAIN toSlave' /\ toSlave'[k] = toSlave[k]
        /\ \E k \in DOMAIN toSlave' : toSlave'[k] = n
    <3>1. PICK m : m = Len(toSlave) + 1
      OBVIOUS
    <3>2. toSlave \in Seq(1 .. MAX_CMDS) /\ n \in Int
      BY <2>1, Typed
    <3>3. m \in DOMAIN toSlave' /\ toSlave'[m] = n
      BY <2>2, <3>1, <3>2
    <3>4. \A k \in DOMAIN toSlave : k \in DOMAIN toSlave' /\ toSlave'[k] = toSlave[k]
      BY <2>2, <3>2
    <3> QED
      BY <3>3, <3>4
  <2>4. Acts(n)'
    BY <2>2, <2>3 DEF Moves, Early, Coming, Acts
  <2>5. ASSUME NEW i \in DOMAIN cmds PROVE Acts(i)'
    <3>1. UNCHANGED chan
      BY <1>3 DEF SendCommand
    <3>2. ChanA(i)
      BY <1>b, <3>1
    <3>3. CallA(i)
      BY <2>2 DEF Moves, Early, CallA
    <3>4. LinkA(i)
      BY <2>3 DEF LinkA, Coming
    <3>5. cmds[i].excused => cmds'[i].excused
      BY <1>3 DEF Keeps
    <3>6. cmds[i].acted \subseteq cmds'[i].acted
      BY <1>3 DEF Keeps
    <3> QED
      BY <3>2, <3>3, <3>4, <3>5, <3>6, ActKept DEF ActInv, CallA, ChanA, LinkA
  <2> QED
    BY <2>2, <2>4, <2>5 DEF ActInv
<1>4. ASSUME NEW t \in Callers, FindChannel(t), Keeps PROVE ActInv'
  <2>1. UNCHANGED <<linkVars, chan>>
    BY <1>4 DEF FindChannel
  <2>2. CASE Moves(t, "check") /\ caller'[t].id = caller[t].id /\ cmds' = cmds
    BY <1>4, <1>a, <1>b, <1>d, <2>1, <2>2 DEF linkVars
  <2>3. CASE caller' = [caller EXCEPT ![t] = NoCall] /\ cmds' = Excuse({caller[t].id})
    <3>1. DOMAIN cmds' = DOMAIN cmds /\ \A i \in DOMAIN cmds : i = caller[t].id => cmds'[i].excused
      BY <2>3, Excusing
    <3>2. \A i \in DOMAIN cmds : CallA(i)
      BY <2>3, <3>1, Typed DEF CallA, Early
    <3> QED
      BY <1>4, <1>a, <1>b, <2>1, <3>1, <3>2 DEF linkVars
  <2> QED
    BY <1>4, <2>2, <2>3, Finding
<1>5. ASSUME NEW t \in Callers, TakeChannel(t), Keeps PROVE ActInv'
  <2>1. /\ Moves(t, "arm") /\ caller'[t].id = caller[t].id /\ DOMAIN cmds' = DOMAIN cmds
        /\ \A b \in Buds, c \in Channels :
              chan'[b][c].id = chan[b][c].id /\ chan'[b][c].left = chan[b][c].left
    BY <1>5, Taking
  <2>2. \A i : ChanA(i)
    BY <2>1 DEF ChanA, Armed
  <2>3. UNCHANGED toSlave
    BY <1>5 DEF TakeChannel
  <2> QED
    BY <1>5, <1>a, <1>b, <1>d, <2>1, <2>2, <2>3
<1>6. ASSUME NEW t \in Callers, ArmTrigger(t), Keeps PROVE ActInv'
  <2>1. PICK c : c = caller[t].idx
    OBVIOUS
  <2>2. /\ Moves(t, "add") /\ c \in Channels /\ Sets("master", c)
        /\ chan'["master"][c].id = caller[t].id /\ chan'["master"][c].left = DELAY
        /\ cmds' = Excuse(Replaced("master", c))
    BY <1>6, <2>1, Arming
  <2>3. /\ DOMAIN cmds' = DOMAIN cmds
        /\ \A i \in DOMAIN cmds : i \in Replaced("master", c) => cmds'[i].excused
    BY <2>2, Excusing
  <2>n. PICK n : n = caller[t].id
    OBVIOUS
  <2>4. Armed("master", c, n)'
    BY <2>2, <2>n, Bounds DEF Armed
  <2>5. \A i \in DOMAIN cmds : CallA(i)
    BY <2>2, <2>n, <2>4 DEF CallA, Moves, Early
  <2>6. ASSUME NEW i \in DOMAIN cmds PROVE ChanA(i)
    <3>1. Armed("master", c, i) => cmds'[i].excused
      BY <2>3 DEF Armed, Replaced
    <3> QED
      BY <1>c, <2>2, <3>1
  <2>7. UNCHANGED toSlave
    BY <1>6 DEF ArmTrigger, ArmFor
  <2> QED
    BY <1>6, <1>a, <1>b, <2>3, <2>5, <2>6, <2>7
<1>7. ASSUME NEW t \in Callers, AddSupervision(t), caller[t].pc = "add", count < CHANNEL_MAX, Keeps
      PROVE  ActInv'
  <2>1. /\ caller' = [caller EXCEPT ![t] = NoCall]
        /\ UNCHANGED <<linkVars, chan, mailbox, retrigger, failed, cmds>>
    BY <1>7, Adding
  <2>2. \A i : CallA(i)
    BY <1>7, <2>1, Typed DEF CallA, Early
  <2> QED
    BY <1>7, <1>a, <1>b, <2>1, <2>2 DEF linkVars
<1>8. ASSUME CommandArrives, Keeps PROVE ActInv'
  <2>1. PICK n : n = Head(toSlave)
    OBVIOUS
  <2>2. toSlave # <<>> /\ toSlave' = Tail(toSlave) /\ n \in DOMAIN cmds
    BY <1>8, <2>1, Arriving
  <2>3. \A i : Coming(i) => Coming(i)' \/ i = n
    <3>1. toSlave \in Seq(1 .. MAX_CMDS)
      BY Typed
    <3>2. ASSUME NEW k \in DOMAIN toSlave, k # 1 PROVE k - 1 \in DOMAIN toSlave' /\ toSlave'[k - 1] = toSlave[k]
      BY <2>2, <3>1, <3>2
    <3>3. toSlave[1] = n
      BY <2>1, <2>2, <3>1, HeadIsFirst, Zenon
    <3> QED
      BY <3>2, <3>3 DEF Coming
  <2>4. UNCHANGED caller
    BY <1>8 DEF CommandArrives
  <2>5. ASSUME NEW c \in Channels, Sets("slave", c), chan'["slave"][c].id = n,
               chan'["slave"][c].left = cmds[n].left, cmds[n].left > 0,
               cmds' = Excuse(Replaced("slave", c))
        PROVE  ActInv'
    <3>1. /\ DOMAIN cmds' = DOMAIN cmds
          /\ \A i \in DOMAIN cmds : i \in Replaced("slave", c) => cmds'[i].excused
      BY <2>5, Excusing
    <3>2. chan'["slave"][c].left >= 0
      <4>0. cmds[n] \in Sent
        BY <2>2, Typed
      <4>1. cmds[n].left \in -1 .. DELAY
        BY <4>0 DEF Sent
      <4> QED
        BY <2>5, <4>1, Bounds
    <3>3. Armed("slave", c, n)'
      BY <2>5, <3>2 DEF Armed
    <3>4. \A i : LinkA(i)
      BY <2>3, <3>3 DEF LinkA
    <3>5. ASSUME NEW i \in DOMAIN cmds PROVE ChanA(i)
      <4>1. Armed("slave", c, i) => cmds'[i].excused
        BY <3>1 DEF Armed, Replaced
      <4> QED
        BY <1>c, <2>5, <4>1
    <3> QED
      BY <1>8, <1>a, <1>b, <2>4, <3>1, <3>4, <3>5
  <2>6. CASE chan' = chan /\ cmds' = Excuse({n})
    <3>1. DOMAIN cmds' = DOMAIN cmds /\ cmds'[n].excused
      BY <2>2, <2>6, Excusing
    <3>2. \A i : LinkA(i)
      BY <2>3, <3>1 DEF LinkA
    <3> QED
      BY <1>8, <1>a, <1>b, <2>4, <2>6, <3>1, <3>2
  <2> QED
    BY <1>8, <2>1, <2>5, <2>6, Arriving
<1>9. ASSUME NEW b \in Buds, NEW c \in Channels, Triggered(b, c), Keeps PROVE ActInv'
  <2>1. /\ Sets(b, c) /\ DOMAIN cmds' = DOMAIN cmds /\ chan[b][c].id \in DOMAIN cmds
        /\ cmds'[chan[b][c].id].acted = cmds[chan[b][c].id].acted \cup {b}
    BY <1>9, Triggering
  <2>2. \A i \in DOMAIN cmds : Armed(b, c, i) => b \in cmds'[i].acted
    BY <2>1 DEF Armed
  <2>3. \A i \in DOMAIN cmds : ChanA(i)
    BY <1>c, <2>1, <2>2
  <2> QED
    BY <1>9, <1>a, <1>b, <2>1, <2>3 DEF Triggered, linkVars
<1>10. ASSUME NEW b \in Buds, NEW c \in Channels, TriggerLost(b, c), Keeps PROVE ActInv'
  <2>1. Sets(b, c) /\ chan[b][c].id \in DOMAIN cmds /\ cmds' = Excuse({chan[b][c].id})
    BY <1>10, Losing
  <2>2. DOMAIN cmds' = DOMAIN cmds /\ cmds'[chan[b][c].id].excused
    BY <2>1, Excusing
  <2>3. \A i \in DOMAIN cmds : ChanA(i)
    BY <1>c, <2>1, <2>2 DEF Armed
  <2> QED
    BY <1>10, <1>a, <1>b, <2>2, <2>3 DEF TriggerLost, linkVars
<1>11. ASSUME TimedOut, Keeps PROVE ActInv'
  <2>1. PICK c : c = table[1].idx
    OBVIOUS
  <2>2. /\ Sets("master", c) /\ chan'["master"][c].id = chan["master"][c].id
        /\ chan'["master"][c].left = chan["master"][c].left /\ cmds' = cmds
    BY <1>11, <2>1, TimingOut
  <2>3. \A i : ChanA(i)
    BY <1>c, <2>2 DEF Armed
  <2> QED
    BY <1>11, <1>a, <1>b, <2>2, <2>3 DEF TimedOut, linkVars
<1>12. ASSUME app_bt_sync_handle, Keeps PROVE ActInv'
  BY <1>12, <1>a, <1>b DEF app_bt_sync_handle, linkVars
<1>13. ASSUME LinkDown, Keeps PROVE ActInv'
  <2>1. cmds' = Excuse({toSlave[k] : k \in DOMAIN toSlave}) /\ UNCHANGED <<chan, caller>>
    BY <1>13 DEF LinkDown
  <2>2. DOMAIN cmds' = DOMAIN cmds /\ \A i \in DOMAIN cmds : Coming(i) => cmds'[i].excused
    BY <2>1, Excusing DEF Coming
  <2>3. \A i \in DOMAIN cmds : LinkA(i)
    BY <2>2 DEF LinkA
  <2> QED
    BY <1>13, <1>a, <1>b, <2>1, <2>2, <2>3
<1>14. ASSUME Tick PROVE ActInv'
  <2>1. DOMAIN cmds' = DOMAIN cmds /\ UNCHANGED <<linkVars, caller>>
    BY <1>14, Ticking DEF Tick
  <2>2. ASSUME NEW i \in DOMAIN cmds PROVE Acts(i)'
    <3>1. cmds[i].excused => cmds'[i].excused
      BY <1>14, Ticking
    <3>2. cmds[i].acted \subseteq cmds'[i].acted
      BY <1>14, Ticking
    <3>3. ASSUME NEW b \in Buds, NEW c \in Channels, Armed(b, c, i) PROVE Armed(b, c, i)'
      <4>1. PICK l \in -1 .. DELAY : l = chan[b][c].left /\ l >= 0 /\ chan[b][c].id = i
        BY <3>3, Typed DEF Channel, Armed
      <4>2. l # 0 /\ chan'[b][c].id = i /\ (l > 0 => chan'[b][c].left = l - 1)
        BY <1>14, <4>1, Ticking
      <4> QED
        BY <4>1, <4>2, Bounds DEF Armed
    <3>4. ChanA(i)
      BY <3>3 DEF ChanA
    <3>5. CallA(i) /\ LinkA(i)
      BY <1>b, <2>1 DEF linkVars
    <3> QED
      BY <3>1, <3>2, <3>4, <3>5, ActKept DEF ActInv, CallA, ChanA, LinkA
  <2> QED
    BY <2>1, <2>2 DEF ActInv
<1> QED
  BY <1>1, <1>2, <1>3, <1>4, <1>5, <1>6, <1>7, <1>8, <1>9, <1>10, <1>11, <1>12, <1>13, <1>14, QuietSteps

-----------------------------------------------------------------------------
(* Channels and supervisions.                                               *)
LEMMA MatchInit == Init => MatchInv
<1> SUFFICES ASSUME Init, NEW op PROVE OpInv(op)
  BY DEF MatchInv
<1>1. count = 0 /\ mailbox = <<>>
  BY Zenon DEF Init
<1>2. \A t \in Callers : caller[t].pc = "idle"
  BY DEF Init, NoCall
<1>3. \A c \in Channels : chan["master"][c] = NoChannel
  BY Zenon DEF Init, Buds
<1>4. \A c \in Channels : ~chan["master"][c].used /\ chan["master"][c].left = -1
  BY <1>3 DEF NoChannel
<1>5. OneMember(op)
  BY <1>1, <1>2 DEF OneMember, Past
<1>6. ChanInv(op)
  BY <1>4 DEF ChanInv
<1>7. ArmInv(op)
  BY <1>2 DEF ArmInv
<1>8. MailInv(op)
  BY <1>1 DEF MailInv
<1> QED
  BY <1>5, <1>6, <1>7, <1>8 DEF OpInv

(* The table keeps its entries.                                             *)
TableKept ==
    /\ count' = count
    /\ \A i \in 1 .. count : /\ table'[i].op = table[i].op /\ table'[i].idx = table[i].idx
                             /\ table'[i].id = table[i].id

(* Who holds a channel keeps it.                                            *)
HoldersKept ==
    \A t \in Callers : Holds(t) => /\ Holds(t)'
                                   /\ caller'[t].op = caller[t].op /\ caller'[t].idx = caller[t].idx

LEMMA BehindKept ==
    ASSUME RefInv, Keeps, TableKept, HoldersKept, NEW op, NEW c, NEW l, Behind(op, c, l)
    PROVE  Behind(op, c, l)'
<1>1. ASSUME NEW i \in 1 .. count, table[i].op = op, table[i].idx = c, cmds[table[i].id].left = l
      PROVE  Behind(op, c, l)'
  <2>1. table[i].id \in DOMAIN cmds
    BY DEF RefInv
  <2>2. /\ i \in 1 .. count' /\ table'[i].op = op /\ table'[i].idx = c
        /\ cmds'[table'[i].id].left = l
    BY <1>1, <2>1 DEF Keeps, TableKept
  <2> QED
    BY <2>2 DEF Behind
<1>2. ASSUME NEW t \in Callers, Holds(t), caller[t].op = op, caller[t].idx = c, l = DELAY
      PROVE  Behind(op, c, l)'
  <2>1. Holds(t)' /\ caller'[t].op = op /\ caller'[t].idx = c
    BY <1>2 DEF HoldersKept
  <2> QED
    BY <1>2, <2>1 DEF Behind
<1> QED
  BY <1>1, <1>2 DEF Behind

(* An entry that is due stays due.                                          *)
LEMMA DueKept ==
    ASSUME RefInv, Keeps, TableKept, NEW op,
           \E i \in 1 .. count : table[i].op = op /\ cmds[table[i].id].left <= 0
    PROVE  \E i \in 1 .. count' : table'[i].op = op /\ cmds'[table'[i].id].left <= 0
<1>1. PICK i \in 1 .. count : table[i].op = op /\ cmds[table[i].id].left <= 0
  OBVIOUS
<1>2. table[i].id \in DOMAIN cmds
  BY DEF RefInv
<1>3. i \in 1 .. count' /\ table'[i].op = op /\ table'[i].id = table[i].id
  BY <1>1 DEF TableKept
<1>4. cmds'[table'[i].id].left = cmds[table[i].id].left
  BY <1>2, <1>3 DEF Keeps
<1> QED
  BY <1>1, <1>3, <1>4

(* The channels of the master are no busier than before, with the same      *)
(* operations.                                                              *)
ChannelsKept ==
    \A c \in Channels : /\ chan'["master"][c].op = chan["master"][c].op
                        /\ chan'["master"][c].used => chan["master"][c].used
                        /\ chan'["master"][c].left >= 0 =>
                              chan'["master"][c].left = chan["master"][c].left

(* No thread takes up an operation, and none comes to the point of arming.  *)
CallersKept ==
    \A t \in Callers : /\ Past(t)' => Past(t) /\ caller'[t].op = caller[t].op
                       /\ caller'[t].pc = "arm" =>
                             caller[t].pc = "arm" /\ caller'[t].idx = caller[t].idx

LEMMA MembersKept ==
    ASSUME NEW op, OneMember(op), TableKept, CallersKept
    PROVE  OneMember(op)'
<1>1. \A i, j \in 1 .. count' : table'[i].op = op /\ table'[j].op = op => i = j
  BY DEF OneMember, TableKept
<1>2. \A t, u \in Callers :
          Past(t)' /\ Past(u)' /\ caller'[t].op = op /\ caller'[u].op = op => t = u
  BY DEF OneMember, CallersKept
<1>3. \A i \in 1 .. count', t \in Callers :
          ~ (table'[i].op = op /\ Past(t)' /\ caller'[t].op = op)
  BY DEF OneMember, TableKept, CallersKept
<1> QED
  BY <1>1, <1>2, <1>3 DEF OneMember

LEMMA OpKept ==
    ASSUME TypeInv, RefInv, Keeps, TableKept, HoldersKept, ChannelsKept, CallersKept,
           NEW op, OpInv(op)
    PROVE  OneMember(op)' /\ ChanInv(op)' /\ ArmInv(op)' /\ (mailbox' = mailbox => MailInv(op)')
<1>1. OneMember(op) /\ ChanInv(op) /\ ArmInv(op) /\ MailInv(op)
  BY DEF OpInv
<1>2. \A c, l : Behind(op, c, l) => Behind(op, c, l)'
  BY BehindKept
<1>3. OneMember(op)'
  BY <1>1, MembersKept
<1>4. ChanInv(op)'
  BY <1>1, <1>2 DEF ChanInv, ChannelsKept
<1>5. ArmInv(op)'
  <2>1. ASSUME NEW t \in Callers, caller'[t].pc = "arm", chan'["master"][caller'[t].idx].op = op
        PROVE  Behind(op, caller[t].idx, DELAY)' /\ caller'[t].idx = caller[t].idx
    <3>1. PICK c : c = caller[t].idx
      OBVIOUS
    <3>2. caller[t].pc = "arm" /\ caller'[t].idx = c
      BY <2>1, <3>1 DEF CallersKept
    <3>3. c \in Channels
      BY <3>1, Typed DEF Calling
    <3>4. Behind(op, c, DELAY)
      BY <1>1, <2>1, <3>1, <3>2, <3>3 DEF ArmInv, ChannelsKept
    <3>5. Behind(op, c, DELAY)'
      BY <1>2, <3>4
    <3> QED
      BY <3>1, <3>2, <3>5
  <2> QED
    BY <2>1 DEF ArmInv
<1>6. ASSUME mailbox' = mailbox PROVE MailInv(op)'
  <2>1. \A j, k \in DOMAIN mailbox' : mailbox'[j] = op /\ mailbox'[k] = op => j = k
    BY <1>1, <1>6 DEF MailInv
  <2>2. ASSUME NEW k \in DOMAIN mailbox', mailbox'[k] = op
        PROVE  /\ \E i \in 1 .. count' : table'[i].op = op /\ cmds'[table'[i].id].left <= 0
               /\ \A c \in Channels : chan'["master"][c].op = op =>
                     ~chan'["master"][c].used /\ ~ (chan'["master"][c].left >= 0)
    <3>1. /\ \E i \in 1 .. count : table[i].op = op /\ cmds[table[i].id].left <= 0
          /\ \A c \in Channels : chan["master"][c].op = op =>
                ~chan["master"][c].used /\ ~ (chan["master"][c].left >= 0)
      BY <1>1, <1>6, <2>2 DEF MailInv
    <3>2. \A c \in Channels : chan'["master"][c].op = op =>
             ~chan'["master"][c].used /\ ~ (chan'["master"][c].left >= 0)
      BY <3>1 DEF ChannelsKept
    <3> QED
      BY <3>1, <3>2, DueKept
  <2> QED
    BY <2>1, <2>2 DEF MailInv
<1> QED
  BY <1>3, <1>4, <1>5, <1>6

LEMMA StillOverlapped ==
    ASSUME TypeInv, RefInv, [Next]_vars, NEW op, Overlapped(op)
    PROVE  Overlapped(op)'
<1>1. PICK i \in DOMAIN cmds : cmds[i].op = op /\ cmds[i].overlaps
  BY DEF Overlapped
<1>2. i \in DOMAIN cmds' /\ cmds'[i].op = op /\ cmds'[i].overlaps
  <2>1. CASE Tick
    BY <1>1, <2>1, Ticking
  <2>2. CASE ~Tick
    BY <1>1, <2>2, Keeping DEF Keeps
  <2> QED
    BY <2>1, <2>2
<1> QED
  BY <1>2 DEF Overlapped

(* A new command is the only one of its code, or it overlaps.               *)
LEMMA OpSend ==
    ASSUME TypeInv, RefInv, Keeps, NEW t \in Callers, SendCommand(t), link,
           NEW op, ~Overlapped(op)', OpInv(op)
    PROVE  OpInv(op)'
<1>1. /\ UNCHANGED <<chan, table, count, mailbox>>
      /\ caller[t].pc = "send" /\ Moves(t, "find")
  BY Sending DEF SendCommand
<1>2. TableKept /\ ChannelsKept /\ HoldersKept
  BY <1>1 DEF TableKept, ChannelsKept, HoldersKept, Holds, Moves
<1>3. \A c, l : Behind(op, c, l) => Behind(op, c, l)'
  BY <1>2, BehindKept
<1>4. \A u \in Callers : caller'[u].pc = "arm" => caller'[u] = caller[u]
  BY <1>1 DEF Moves
<1>5. OneMember(op)'
  <2>1. CASE caller[t].op = op
    <3>1. PICK n : n = Len(cmds) + 1
      OBVIOUS
    <3>2. n \in DOMAIN cmds' /\ cmds'[n] = Command(op)
      BY <2>1, <3>1, Sending
    <3>3. ~Command(op).overlaps
      BY <3>2 DEF Overlapped, Command
    <3>4. /\ \A i \in 1 .. count : table[i].op # op
          /\ \A u \in Callers : ~ (caller[u].op = op /\ Past(u))
      BY <3>3 DEF Command, Past
    <3>5. \A u \in Callers : Past(u)' /\ caller'[u].op = op => u = t
      BY <1>1, <3>4 DEF Moves, Past
    <3> QED
      BY <1>1, <3>4, <3>5 DEF OneMember
  <2>2. CASE caller[t].op # op
    <3>1. \A u \in Callers : Past(u)' /\ caller'[u].op = op => Past(u) /\ caller[u].op = op
      BY <1>1, <2>2 DEF Moves, Past
    <3>2. OneMember(op)
      BY DEF OpInv
    <3>3. \A i, j \in 1 .. count' : table'[i].op = op /\ table'[j].op = op => i = j
      BY <1>1, <3>2 DEF OneMember
    <3>4. \A v, u \in Callers :
              Past(v)' /\ Past(u)' /\ caller'[v].op = op /\ caller'[u].op = op => v = u
      BY <3>1, <3>2 DEF OneMember
    <3>5. \A i \in 1 .. count', u \in Callers :
              ~ (table'[i].op = op /\ Past(u)' /\ caller'[u].op = op)
      BY <1>1, <3>1, <3>2 DEF OneMember
    <3> QED
      BY <3>3, <3>4, <3>5 DEF OneMember
  <2> QED
    BY <2>1, <2>2
<1>6. ChanInv(op)'
  BY <1>1, <1>3 DEF OpInv, ChanInv
<1>7. ArmInv(op)'
  <2>1. ASSUME NEW u \in Callers, caller'[u].pc = "arm", chan'["master"][caller'[u].idx].op = op
        PROVE  Behind(op, caller[u].idx, DELAY)'
    <3>1. PICK c : c = caller[u].idx /\ c = caller'[u].idx
      BY <1>4, <2>1
    <3>2. Behind(op, c, DELAY)
      BY <1>1, <1>4, <2>1, <3>1 DEF OpInv, ArmInv
    <3>3. Behind(op, c, DELAY)'
      BY <1>3, <3>2
    <3> QED
      BY <3>1, <3>3
  <2> QED
    BY <2>1 DEF ArmInv
<1>8. MailInv(op)'
  <2>1. MailInv(op)
    BY DEF OpInv
  <2>2. (\E k \in DOMAIN mailbox : mailbox[k] = op) =>
            \E i \in 1 .. count' : table'[i].op = op /\ cmds'[table'[i].id].left <= 0
    BY <1>2, <2>1, DueKept DEF MailInv
  <2> QED
    BY <1>1, <2>1, <2>2 DEF MailInv
<1> QED
  BY <1>5, <1>6, <1>7, <1>8 DEF OpInv

(* A channel that is taken was not armed, or the command overlaps.          *)
LEMMA OpTake ==
    ASSUME TypeInv, RefInv, Keeps, NEW t \in Callers, TakeChannel(t),
           NEW op, ~Overlapped(op)', OpInv(op)
    PROVE  OpInv(op)'
<1>1. PICK c : c = caller[t].idx
  OBVIOUS
<1>2. /\ caller[t].pc = "take" /\ Moves(t, "arm") /\ caller'[t].idx = c /\ c \in Channels
      /\ \A d \in Channels : d # c => chan'["master"][d] = chan["master"][d]
      /\ chan'["master"][c].op = caller[t].op /\ chan'["master"][c].left = chan["master"][c].left
      /\ caller[t].id \in DOMAIN cmds' /\ cmds'[caller[t].id].op = cmds[caller[t].id].op
      /\ chan["master"][c].left >= 0 => cmds'[caller[t].id].overlaps
  BY <1>1, Taking, Typed DEF Buds, Calling
<1>3. UNCHANGED <<table, count, mailbox>>
  BY DEF TakeChannel
<1>4. TableKept /\ HoldersKept
  BY <1>2, <1>3 DEF TableKept, HoldersKept, Holds, Moves
<1>5. \A d, l : Behind(op, d, l) => Behind(op, d, l)'
  BY <1>4, BehindKept
<1>6. cmds[caller[t].id].op = caller[t].op
  BY <1>2 DEF RefInv, Past
<1>7. ASSUME caller[t].op = op
      PROVE  Behind(op, c, DELAY)' /\ ~ (chan'["master"][c].left >= 0)
  <2>1. Holds(t)' /\ caller'[t].op = op /\ caller'[t].idx = c
    BY <1>2, <1>7 DEF Holds, Moves
  <2>2. Behind(op, c, DELAY)'
    BY <2>1 DEF Behind
  <2>3. ~ (chan["master"][c].left >= 0)
    BY <1>2, <1>6, <1>7 DEF Overlapped
  <2> QED
    BY <1>2, <2>2, <2>3
<1>8. OneMember(op)'
  <2>1. \A u \in Callers : /\ caller'[u].op = caller[u].op
                           /\ Past(u)' <=> Past(u)
    BY <1>2 DEF Moves, Past
  <2> QED
    BY <1>3, <2>1 DEF OpInv, OneMember
<1>9. ChanInv(op)'
  <2>1. ASSUME NEW d \in Channels, chan'["master"][d].op = op
        PROVE  /\ chan'["master"][d].used => \E l \in -1 .. DELAY : Behind(op, d, l)'
               /\ chan'["master"][d].left >= 0 => Behind(op, d, chan["master"][d].left)'
    <3>1. CASE d = c
      <4>1. DELAY \in -1 .. DELAY
        BY Bounds
      <4> QED
        BY <1>2, <1>7, <2>1, <3>1, <4>1
    <3>2. CASE d # c
      BY <1>2, <1>5, <2>1, <3>2 DEF OpInv, ChanInv
    <3> QED
      BY <3>1, <3>2
  <2> QED
    BY <2>1 DEF ChanInv
<1>10. ArmInv(op)'
  <2>1. ASSUME NEW u \in Callers, caller'[u].pc = "arm", chan'["master"][caller'[u].idx].op = op
        PROVE  Behind(op, caller[u].idx, DELAY)'
    <3>1. PICK d : d = caller'[u].idx
      OBVIOUS
    <3>2. CASE d = c
      BY <1>2, <1>7, <2>1, <3>1, <3>2
    <3>3. CASE d # c
      <4>1. u # t
        BY <1>2, <3>1, <3>3
      <4>2. caller'[u] = caller[u]
        BY <1>2, <4>1 DEF Moves
      <4>3. d \in Channels
        BY <3>1, <4>2, Typed DEF Calling
      <4>4. Behind(op, d, DELAY)
        BY <1>2, <2>1, <3>1, <3>3, <4>2, <4>3 DEF OpInv, ArmInv
      <4>5. Behind(op, d, DELAY)'
        BY <1>5, <4>4
      <4> QED
        BY <3>1, <4>2, <4>5
    <3> QED
      BY <3>2, <3>3
  <2> QED
    BY <2>1 DEF ArmInv
<1>11. MailInv(op)'
  <2>1. MailInv(op) /\ OneMember(op)
    BY DEF OpInv
  <2>2. ASSUME NEW k \in DOMAIN mailbox, mailbox[k] = op
        PROVE  /\ \E i \in 1 .. count' : table'[i].op = op /\ cmds'[table'[i].id].left <= 0
               /\ \A d \in Channels : chan'["master"][d].op = op =>
                     ~chan'["master"][d].used /\ ~ (chan'["master"][d].left >= 0)
    <3>1. /\ \E i \in 1 .. count : table[i].op = op /\ cmds[table[i].id].left <= 0
          /\ \A d \in Channels : chan["master"][d].op = op =>
                ~chan["master"][d].used /\ ~ (chan["master"][d].left >= 0)
      BY <2>1, <2>2 DEF MailInv
    <3>2. caller[t].op # op
      BY <1>2, <2>1, <3>1 DEF OneMember, Past
    <3> QED
      BY <1>2, <1>4, <3>1, <3>2, DueKept
  <2> QED
    BY <1>3, <2>1, <2>2 DEF MailInv
<1> QED
  BY <1>8, <1>9, <1>10, <1>11 DEF OpInv

(* While a message is under way there is one member, an entry that is due.  *)
LEMMA MailAlone ==
    ASSUME TypeInv, NEW op, OpInv(op), NEW k \in DOMAIN mailbox, mailbox[k] = op, NEW c
    PROVE  ~Behind(op, c, DELAY)
<1>1. PICK i \in 1 .. count : table[i].op = op /\ cmds[table[i].id].left <= 0
  BY DEF OpInv, MailInv
<1>2. \A j \in 1 .. count : table[j].op = op => cmds[table[j].id].left # DELAY
  <2>1. \A j \in 1 .. count : table[j].op = op => j = i
    BY <1>1 DEF OpInv, OneMember
  <2>2. cmds[table[i].id].left # DELAY
    BY <1>1, Bounds
  <2> QED
    BY <2>1, <2>2
<1>3. \A t \in Callers : ~ (Holds(t) /\ caller[t].op = op)
  BY <1>1 DEF OpInv, OneMember, Holds, Past
<1> QED
  BY <1>2, <1>3 DEF Behind

LEMMA OpArm ==
    ASSUME TypeInv, RefInv, Keeps, NEW t \in Callers, ArmTrigger(t), NEW op, OpInv(op)
    PROVE  OpInv(op)'
<1>1. PICK c : c = caller[t].idx
  OBVIOUS
<1>2. /\ caller[t].pc = "arm" /\ Moves(t, "add") /\ caller'[t].idx = c /\ c \in Channels
      /\ Sets("master", c)
      /\ chan'["master"][c].used = chan["master"][c].used
      /\ chan'["master"][c].op = chan["master"][c].op /\ chan'["master"][c].left = DELAY
  BY <1>1, Arming
<1>3. UNCHANGED <<table, count, mailbox>>
  BY DEF ArmTrigger, ArmFor
<1>4. TableKept /\ HoldersKept /\ CallersKept
  BY <1>2, <1>3, <1>1 DEF TableKept, HoldersKept, CallersKept, Holds, Past, Moves
<1>5. \A d, l : Behind(op, d, l) => Behind(op, d, l)'
  BY <1>4, BehindKept
<1>6. chan["master"][c].op = op => Behind(op, c, DELAY)
  BY <1>1, <1>2 DEF OpInv, ArmInv
<1>7. \A d \in Channels : d # c => chan'["master"][d] = chan["master"][d]
  BY <1>2 DEF Sets, Buds
<1>8. OneMember(op)'
  BY <1>4, MembersKept DEF OpInv
<1>9. ChanInv(op)'
  <2>1. ASSUME NEW d \in Channels, chan'["master"][d].op = op
        PROVE  /\ chan'["master"][d].used => \E l \in -1 .. DELAY : Behind(op, d, l)'
               /\ chan'["master"][d].left >= 0 => Behind(op, d, chan["master"][d].left)'
    <3>1. CASE d = c
      <4>1. Behind(op, c, DELAY)' /\ DELAY \in -1 .. DELAY
        BY <1>2, <1>5, <1>6, <2>1, <3>1, Bounds
      <4> QED
        BY <1>2, <3>1, <4>1
    <3>2. CASE d # c
      BY <1>5, <1>7, <2>1, <3>2 DEF OpInv, ChanInv
    <3> QED
      BY <3>1, <3>2
  <2> QED
    BY <2>1 DEF ChanInv
<1>10. ArmInv(op)'
  <2>1. ASSUME NEW u \in Callers, caller'[u].pc = "arm", chan'["master"][caller'[u].idx].op = op
        PROVE  Behind(op, caller[u].idx, DELAY)'
    <3>1. PICK d : d = caller'[u].idx
      OBVIOUS
    <3>2. caller'[u] = caller[u]
      BY <1>2, <2>1 DEF Moves
    <3>3. d \in Channels
      BY <3>1, <3>2, Typed DEF Calling
    <3>4. chan["master"][d].op = op
      BY <1>2, <1>7, <2>1, <3>1, <3>3
    <3>5. Behind(op, d, DELAY)
      BY <2>1, <3>1, <3>2, <3>4 DEF OpInv, ArmInv
    <3>6. Behind(op, d, DELAY)'
      BY <1>5, <3>5
    <3> QED
      BY <3>1, <3>6
  <2> QED
    BY <2>1 DEF ArmInv
<1>11. MailInv(op)'
  <2>1. MailInv(op)
    BY DEF OpInv
  <2>2. ASSUME NEW k \in DOMAIN mailbox, mailbox[k] = op
        PROVE  /\ \E i \in 1 .. count' : table'[i].op = op /\ cmds'[table'[i].id].left <= 0
               /\ \A d \in Channels : chan'["master"][d].op = op =>
                     ~chan'["master"][d].used /\ ~ (chan'["master"][d].left >= 0)
    <3>1. /\ \E i \in 1 .. count : table[i].op = op /\ cmds[table[i].id].left <= 0
          /\ \A d \in Channels : chan["master"][d].op = op =>
                ~chan["master"][d].used /\ ~ (chan["master"][d].left >= 0)
      BY <2>1, <2>2 DEF MailInv
    <3>2. chan'["master"][c].op # op
      BY <1>2, <1>6, <2>2, MailAlone
    <3>3. \A d \in Channels : chan'["master"][d].op = op =>
              ~chan'["master"][d].used /\ ~ (chan'["master"][d].left >= 0)
      BY <1>7, <3>1, <3>2
    <3> QED
      BY <1>4, <3>1, <3>3, DueKept
  <2> QED
    BY <1>3, <2>1, <2>2 DEF MailInv
<1> QED
  BY <1>8, <1>9, <1>10, <1>11 DEF OpInv

(* The operation that was set up becomes an entry.                          *)
LEMMA OpAdd ==
    ASSUME TypeInv, RefInv, NEW t \in Callers, AddSupervision(t), caller[t].pc = "add",
           count < CHANNEL_MAX, NEW op, OpInv(op)
    PROVE  OpInv(op)'
<1>1. /\ caller' = [caller EXCEPT ![t] = NoCall]
      /\ count' = count + 1 /\ count \in 0 .. CHANNEL_MAX
      /\ \A i \in 1 .. count : table'[i] = table[i]
      /\ table'[count + 1].op = caller[t].op /\ table'[count + 1].idx = caller[t].idx
      /\ table'[count + 1].id = caller[t].id
      /\ UNCHANGED <<chan, mailbox, cmds>>
  BY Adding, Typed
<1>2. /\ \A i \in 1 .. count : i \in 1 .. count' /\ i # count + 1
      /\ count + 1 \in 1 .. count'
      /\ \A i \in 1 .. count' : i \in 1 .. count \/ i = count + 1
  BY <1>1, Bounds
<1>3. /\ caller'[t].pc = "idle" /\ ~Past(t)' /\ ~Holds(t)' /\ Past(t)
      /\ \A u \in Callers : u # t => caller'[u] = caller[u]
  BY <1>1, NoCallTyped, Typed DEF Past, Holds
<1>4. cmds[caller[t].id].left = DELAY
  BY <1>3 DEF RefInv
<1>5. ASSUME NEW c, NEW l, Behind(op, c, l) PROVE Behind(op, c, l)'
  <2>1. ASSUME NEW i \in 1 .. count, table[i].op = op, table[i].idx = c, cmds[table[i].id].left = l
        PROVE  Behind(op, c, l)'
    BY <1>1, <1>2, <2>1 DEF Behind
  <2>2. ASSUME NEW u \in Callers, Holds(u), caller[u].op = op, caller[u].idx = c, l = DELAY
        PROVE  Behind(op, c, l)'
    <3>1. CASE u = t
      BY <1>1, <1>2, <1>4, <2>2, <3>1 DEF Behind
    <3>2. CASE u # t
      BY <1>3, <2>2, <3>2 DEF Behind, Holds
    <3> QED
      BY <3>1, <3>2
  <2> QED
    BY <1>5, <2>1, <2>2 DEF Behind
<1>6. OneMember(op)'
  <2>1. OneMember(op)
    BY DEF OpInv
  <2>2. \A i, j \in 1 .. count' : table'[i].op = op /\ table'[j].op = op => i = j
    BY <1>1, <1>2, <1>3, <2>1 DEF OneMember
  <2>3. \A u, v \in Callers :
            Past(u)' /\ Past(v)' /\ caller'[u].op = op /\ caller'[v].op = op => u = v
    BY <1>3, <2>1 DEF OneMember, Past
  <2>4. \A i \in 1 .. count', u \in Callers :
            ~ (table'[i].op = op /\ Past(u)' /\ caller'[u].op = op)
    BY <1>1, <1>2, <1>3, <2>1 DEF OneMember, Past
  <2> QED
    BY <2>2, <2>3, <2>4 DEF OneMember
<1>7. ChanInv(op)'
  BY <1>1, <1>5 DEF OpInv, ChanInv
<1>8. ArmInv(op)'
  <2>1. ASSUME NEW u \in Callers, caller'[u].pc = "arm", chan'["master"][caller'[u].idx].op = op
        PROVE  Behind(op, caller[u].idx, DELAY)'
    <3>1. PICK d : d = caller'[u].idx
      OBVIOUS
    <3>2. caller'[u] = caller[u]
      BY <1>3, <2>1
    <3>3. Behind(op, d, DELAY)
      BY <1>1, <2>1, <3>1, <3>2 DEF OpInv, ArmInv
    <3>4. Behind(op, d, DELAY)'
      BY <1>5, <3>3
    <3> QED
      BY <3>1, <3>4
  <2> QED
    BY <2>1 DEF ArmInv
<1>9. MailInv(op)'
  <2>1. MailInv(op)
    BY DEF OpInv
  <2>2. (\E i \in 1 .. count : table[i].op = op /\ cmds[table[i].id].left <= 0) =>
            \E i \in 1 .. count' : table'[i].op = op /\ cmds'[table'[i].id].left <= 0
    BY <1>1, <1>2
  <2> QED
    BY <1>1, <2>1, <2>2 DEF MailInv
<1> QED
  BY <1>6, <1>7, <1>8, <1>9 DEF OpInv

LEMMA OneChannel ==
    ASSUME NEW op, OneMember(op), NEW c, NEW l, Behind(op, c, l), NEW d, NEW m, Behind(op, d, m)
    PROVE  c = d /\ l = m
<1>1. \A t \in Callers : Holds(t) => Past(t)
  BY DEF Holds, Past
<1> QED
  BY <1>1 DEF Behind, OneMember

LEMMA AppendOne ==
    ASSUME NEW S, NEW q \in Seq(S), NEW x, NEW r, r = Append(q, x)
    PROVE  /\ DOMAIN r = DOMAIN q \cup {Len(q) + 1} /\ r[Len(q) + 1] = x
           /\ \A k \in DOMAIN q : r[k] = q[k] /\ k # Len(q) + 1
OBVIOUS

(* A message is posted for an operation whose one entry is due and whose    *)
(* channel is free.                                                         *)
LEMMA OpPost ==
    ASSUME TypeInv, RefInv, Keeps, TableKept, HoldersKept, ChannelsKept, CallersKept,
           NEW op, OpInv(op), NEW o, mailbox' = Append(mailbox, o),
           op = o =>
             /\ \A k \in DOMAIN mailbox : mailbox[k] # op
             /\ \E i \in 1 .. count : table[i].op = op /\ cmds[table[i].id].left <= 0
             /\ \A c \in Channels : chan'["master"][c].op = op =>
                    ~chan'["master"][c].used /\ ~ (chan'["master"][c].left >= 0)
    PROVE  OpInv(op)'
<1>1. OneMember(op)' /\ ChanInv(op)' /\ ArmInv(op)'
  BY OpKept
<1>2. MailInv(op) /\ mailbox \in Seq(Ops)
  BY Typed DEF OpInv
<1>3. PICK n : n = Len(mailbox) + 1
  OBVIOUS
<1>4. /\ DOMAIN mailbox' = DOMAIN mailbox \cup {n} /\ mailbox'[n] = o
      /\ \A k \in DOMAIN mailbox : mailbox'[k] = mailbox[k] /\ k # n
  BY <1>2, <1>3, AppendOne
<1>5. \A j, k \in DOMAIN mailbox' : mailbox'[j] = op /\ mailbox'[k] = op => j = k
  BY <1>2, <1>4 DEF MailInv
<1>6. ASSUME NEW k \in DOMAIN mailbox', mailbox'[k] = op
      PROVE  /\ \E i \in 1 .. count' : table'[i].op = op /\ cmds'[table'[i].id].left <= 0
             /\ \A c \in Channels : chan'["master"][c].op = op =>
                   ~chan'["master"][c].used /\ ~ (chan'["master"][c].left >= 0)
  <2>1. CASE op = o
    BY <2>1, DueKept
  <2>2. CASE op # o
    <3>1. k \in DOMAIN mailbox /\ mailbox[k] = op
      BY <1>4, <1>6, <2>2
    <3>2. /\ \E i \in 1 .. count : table[i].op = op /\ cmds[table[i].id].left <= 0
          /\ \A c \in Channels : chan["master"][c].op = op =>
                ~chan["master"][c].used /\ ~ (chan["master"][c].left >= 0)
      BY <1>2, <3>1 DEF MailInv
    <3>3. \A c \in Channels : chan'["master"][c].op = op =>
              ~chan'["master"][c].used /\ ~ (chan'["master"][c].left >= 0)
      BY <3>2 DEF ChannelsKept
    <3> QED
      BY <3>2, <3>3, DueKept
  <2> QED
    BY <2>1, <2>2
<1>7. MailInv(op)'
  BY <1>5, <1>6 DEF MailInv
<1> QED
  BY <1>1, <1>7 DEF OpInv

LEMMA OpTrigger ==
    ASSUME TypeInv, RefInv, Keeps, NEW c \in Channels, Triggered("master", c), NEW op, OpInv(op)
    PROVE  OpInv(op)'
<1>1. PICK o : o = chan["master"][c].op
  OBVIOUS
<1>2. /\ chan["master"][c].left = 0 /\ Sets("master", c) /\ ~chan'["master"][c].used
      /\ chan'["master"][c].left = -1 /\ chan'["master"][c].op = o
  BY <1>1, Triggering DEF Buds
<1>3. mailbox' = Append(mailbox, o) /\ UNCHANGED <<table, count, caller>>
  BY <1>1 DEF Triggered
<1>4. TableKept /\ HoldersKept /\ CallersKept
  BY <1>3 DEF TableKept, HoldersKept, CallersKept, Holds, Past
<1>5. ~ (chan'["master"][c].left >= 0) /\ \A d \in Channels : d # c => chan'["master"][d] = chan["master"][d]
  BY <1>2 DEF Sets, Buds
<1>6. ChannelsKept
  BY <1>1, <1>2, <1>5 DEF ChannelsKept
<1>7. ASSUME op = o
      PROVE  /\ \A k \in DOMAIN mailbox : mailbox[k] # op
             /\ \E i \in 1 .. count : table[i].op = op /\ cmds[table[i].id].left <= 0
             /\ \A d \in Channels : chan'["master"][d].op = op =>
                    ~chan'["master"][d].used /\ ~ (chan'["master"][d].left >= 0)
  <2>1. Behind(op, c, 0)
    <3>1. chan["master"][c].left >= 0
      BY <1>2
    <3> QED
      BY <1>1, <1>2, <1>7, <3>1 DEF OpInv, ChanInv
  <2>2. \A k \in DOMAIN mailbox : mailbox[k] # op
    <3>1. chan["master"][c].left >= 0
      BY <1>2
    <3> QED
      BY <1>1, <1>7, <3>1 DEF OpInv, MailInv
  <2>3. \E i \in 1 .. count : table[i].op = op /\ cmds[table[i].id].left = 0
    BY <2>1, Bounds DEF Behind
  <2>4. \E i \in 1 .. count : table[i].op = op /\ cmds[table[i].id].left <= 0
    BY <2>3
  <2>5. ASSUME NEW d \in Channels, chan'["master"][d].op = op
        PROVE  ~chan'["master"][d].used /\ ~ (chan'["master"][d].left >= 0)
    <3>1. CASE d = c
      BY <1>2, <1>5, <3>1
    <3>2. CASE d # c
      <4>1. \A m : ~Behind(op, d, m)
        BY <2>1, <3>2, OneChannel DEF OpInv
      <4> QED
        BY <1>5, <2>5, <3>2, <4>1 DEF OpInv, ChanInv
    <3> QED
      BY <3>1, <3>2
  <2> QED
    BY <2>2, <2>4, <2>5
<1> QED
  BY <1>3, <1>4, <1>6, <1>7, OpPost

LEMMA OpTimeout ==
    ASSUME TypeInv, RefInv, Keeps, TimedOut, NEW op, OpInv(op)
    PROVE  OpInv(op)'
<1>1. PICK o, c : o = table[1].op /\ c = table[1].idx
  OBVIOUS
<1>2. /\ c \in Channels /\ count > 0 /\ mailbox = <<>> /\ cmds[table[1].id].left < 0
      /\ Sets("master", c) /\ ~chan'["master"][c].used
      /\ chan'["master"][c].op = chan["master"][c].op
      /\ chan'["master"][c].left = chan["master"][c].left
      /\ UNCHANGED <<table, count, caller, cmds>>
  BY <1>1, TimingOut
<1>3. mailbox' = Append(mailbox, o)
  BY <1>1 DEF TimedOut
<1>4. TableKept /\ HoldersKept /\ CallersKept
  BY <1>2 DEF TableKept, HoldersKept, CallersKept, Holds, Past
<1>5. \A d \in Channels : d # c => chan'["master"][d] = chan["master"][d]
  BY <1>2 DEF Sets, Buds
<1>6. ChannelsKept
  BY <1>2, <1>5 DEF ChannelsKept
<1>7. ASSUME op = o
      PROVE  /\ \A k \in DOMAIN mailbox : mailbox[k] # op
             /\ \E i \in 1 .. count : table[i].op = op /\ cmds[table[i].id].left <= 0
             /\ \A d \in Channels : chan'["master"][d].op = op =>
                    ~chan'["master"][d].used /\ ~ (chan'["master"][d].left >= 0)
  <2>1. 1 \in 1 .. count
    BY <1>2, Typed, Bounds
  <2>2. PICK l \in -1 .. DELAY : l = cmds[table[1].id].left
    <3>1. table[1].id \in DOMAIN cmds
      BY <2>1 DEF RefInv
    <3>2. cmds[table[1].id] \in Sent
      BY <3>1, Typed
    <3> QED
      BY <3>2 DEF Sent
  <2>3. Behind(op, c, l) /\ ~ (l >= 0)
    BY <1>1, <1>2, <1>7, <2>1, <2>2, Bounds DEF Behind
  <2>4. \A k \in DOMAIN mailbox : mailbox[k] # op
    BY <1>2
  <2>5. \E i \in 1 .. count : table[i].op = op /\ cmds[table[i].id].left <= 0
    <3>1. table[1].op = op /\ cmds[table[1].id].left <= 0
      BY <1>1, <1>2, <1>7, <2>2, Bounds
    <3> QED
      BY <2>1, <3>1
  <2>6. ASSUME NEW d \in Channels, chan'["master"][d].op = op
        PROVE  ~chan'["master"][d].used /\ ~ (chan'["master"][d].left >= 0)
    <3>1. CASE d = c
      <4>1. ASSUME chan["master"][c].left >= 0 PROVE FALSE
        <5>1. Behind(op, c, chan["master"][c].left)
          BY <1>2, <2>6, <3>1, <4>1 DEF OpInv, ChanInv
        <5>2. chan["master"][c].left = l
          BY <2>3, <5>1, OneChannel DEF OpInv
        <5> QED
          BY <2>3, <4>1, <5>2
      <4> QED
        BY <1>2, <3>1, <4>1
    <3>2. CASE d # c
      <4>1. \A m : ~Behind(op, d, m)
        BY <2>3, <3>2, OneChannel DEF OpInv
      <4> QED
        BY <1>5, <2>6, <3>2, <4>1 DEF OpInv, ChanInv
    <3> QED
      BY <3>1, <3>2
  <2> QED
    BY <2>4, <2>5, <2>6
<1> QED
  BY <1>3, <1>4, <1>6, <1>7, OpPost

LEMMA TailShifts ==
    ASSUME NEW S, NEW q \in Seq(S), q # <<>>, NEW r, r = Tail(q)
    PROVE  \A j \in DOMAIN r : j + 1 \in DOMAIN q /\ j + 1 # 1 /\ j \in Nat /\ r[j] = q[j + 1]
OBVIOUS

(* The entry taken out is that of the message.                              *)
LEMMA OpHandle ==
    ASSUME TypeInv, RefInv, app_bt_sync_handle, NEW op, OpInv(op)
    PROVE  OpInv(op)'
<1>1. PICK o : o = Head(mailbox)
  OBVIOUS
<1>2. /\ mailbox # <<>> /\ mailbox' = Tail(mailbox) /\ mailbox \in Seq(Ops)
      /\ UNCHANGED <<chan, caller, cmds>>
  BY Typed DEF app_bt_sync_handle
<1>3. /\ \A j \in DOMAIN mailbox' : /\ j + 1 \in DOMAIN mailbox /\ j + 1 # 1 /\ j \in Nat
                                    /\ mailbox'[j] = mailbox[j + 1]
      /\ 1 \in DOMAIN mailbox /\ mailbox[1] = o
  <2>1. 1 \in DOMAIN mailbox /\ mailbox[1] = o
    BY <1>1, <1>2, HeadIsFirst, Zenon
  <2> QED
    BY <1>2, <2>1, TailShifts
<1>4. /\ OneMember(op) /\ ChanInv(op) /\ ArmInv(op) /\ MailInv(op)
      /\ \A t \in Callers : (Past(t)' <=> Past(t)) /\ (Holds(t)' <=> Holds(t))
  BY <1>2 DEF OpInv, Past, Holds
<1>5. \A j, k \in DOMAIN mailbox' : mailbox'[j] = op /\ mailbox'[k] = op => j = k
  <2>1. ASSUME NEW j \in DOMAIN mailbox', NEW k \in DOMAIN mailbox', mailbox'[j] = op, mailbox'[k] = op
        PROVE  j = k
    <3>1. j + 1 = k + 1
      BY <1>3, <1>4, <2>1 DEF MailInv
    <3> QED
      BY <1>3, <3>1
  <2> QED
    BY <2>1
<1>6. CASE Supervised(o) = {}
  <2>1. op # o
    BY <1>3, <1>4, <1>6 DEF MailInv, Supervised
  <2>2. UNCHANGED <<table, count>>
    BY <1>1, <1>6 DEF app_bt_sync_handle
  <2>3. \A c, l : Behind(op, c, l)' <=> Behind(op, c, l)
    BY <1>2, <1>4, <2>2 DEF Behind
  <2>4. OneMember(op)'
    BY <1>2, <1>4, <2>2 DEF OneMember
  <2>5. ChanInv(op)'
    BY <1>2, <1>4, <2>3 DEF ChanInv
  <2>6. ArmInv(op)'
    BY <1>2, <1>4, <2>3 DEF ArmInv
  <2>7. MailInv(op)'
    BY <1>2, <1>3, <1>4, <1>5, <2>2 DEF MailInv
  <2> QED
    BY <2>4, <2>5, <2>6, <2>7 DEF OpInv
<1>7. CASE Supervised(o) # {}
  <2>1. PICK k \in 1 .. count :
            /\ table[k].op = o /\ count' = count - 1 /\ count \in 0 .. CHANNEL_MAX
            /\ \A i \in 1 .. (count - 1) : table'[i] = IF i >= k THEN table[i + 1] ELSE table[i]
    BY <1>1, <1>7, Handling, Typed
  <2> DEFINE old(i) == IF i >= k THEN i + 1 ELSE i
  <2>2. \A i \in 1 .. count' : /\ old(i) \in 1 .. count /\ old(i) # k /\ table'[i] = table[old(i)]
    BY <2>1, Bounds
  <2>3. \A i, j \in 1 .. count' : old(i) = old(j) => i = j
    BY <2>1, Bounds
  <2>4. \A i \in 1 .. count : i # k => \E j \in 1 .. count' : old(j) = i
    <3>1. ASSUME NEW i \in 1 .. count, i # k PROVE \E j \in 1 .. count' : old(j) = i
      <4>1. CASE i < k
        <5>1. i \in 1 .. count' /\ old(i) = i
          BY <2>1, <4>1, Bounds
        <5> QED
          BY <5>1
      <4>2. CASE i > k
        <5>1. i - 1 \in 1 .. count' /\ old(i - 1) = i
          BY <2>1, <4>2, Bounds
        <5> QED
          BY <5>1
      <4> QED
        BY <2>1, <3>1, <4>1, <4>2, Bounds
    <3> QED
      BY <3>1
  <2> HIDE DEF old
  <2>5. OneMember(op)'
    <3>1. \A i, j \in 1 .. count' : table'[i].op = op /\ table'[j].op = op => i = j
      BY <1>4, <2>2, <2>3 DEF OneMember
    <3>2. \A t, u \in Callers :
              Past(t)' /\ Past(u)' /\ caller'[t].op = op /\ caller'[u].op = op => t = u
      BY <1>2, <1>4 DEF OneMember
    <3>3. \A i \in 1 .. count', t \in Callers :
              ~ (table'[i].op = op /\ Past(t)' /\ caller'[t].op = op)
      BY <1>2, <1>4, <2>2 DEF OneMember
    <3> QED
      BY <3>1, <3>2, <3>3 DEF OneMember
  <2>6. CASE op = o
    <3>1. \A j \in DOMAIN mailbox' : mailbox'[j] # op
      BY <1>3, <1>4, <2>6 DEF MailInv
    <3>2. \A c \in Channels : chan["master"][c].op = op =>
              ~chan["master"][c].used /\ ~ (chan["master"][c].left >= 0)
      BY <1>3, <1>4, <2>6 DEF MailInv
    <3>3. ChanInv(op)'
      BY <1>2, <3>2 DEF ChanInv
    <3>4. ArmInv(op)'
      BY <1>2, <1>3, <1>4, <2>6, MailAlone DEF ArmInv
    <3>5. MailInv(op)'
      BY <3>1 DEF MailInv
    <3> QED
      BY <2>5, <3>3, <3>4, <3>5 DEF OpInv
  <2>7. CASE op # o
    <3>1. ASSUME NEW i \in 1 .. count, table[i].op = op
          PROVE  \E j \in 1 .. count' : table'[j] = table[i]
      <4>1. i # k
        BY <2>1, <2>7, <3>1
      <4>2. PICK j \in 1 .. count' : old(j) = i
        BY <2>4, <4>1
      <4> QED
        BY <2>2, <4>2
    <3>2. ASSUME NEW c, NEW l, Behind(op, c, l) PROVE Behind(op, c, l)'
      <4>1. ASSUME NEW i \in 1 .. count, table[i].op = op, table[i].idx = c,
                   cmds[table[i].id].left = l
            PROVE  Behind(op, c, l)'
        BY <1>2, <3>1, <4>1 DEF Behind
      <4>2. ASSUME NEW t \in Callers, Holds(t), caller[t].op = op, caller[t].idx = c, l = DELAY
            PROVE  Behind(op, c, l)'
        BY <1>2, <1>4, <4>2 DEF Behind
      <4> QED
        BY <3>2, <4>1, <4>2 DEF Behind
    <3>3. ChanInv(op)'
      BY <1>2, <1>4, <3>2 DEF ChanInv
    <3>4. ArmInv(op)'
      BY <1>2, <1>4, <3>2 DEF ArmInv
    <3>5. (\E i \in 1 .. count : table[i].op = op /\ cmds[table[i].id].left <= 0) =>
              \E i \in 1 .. count' : table'[i].op = op /\ cmds'[table'[i].id].left <= 0
      BY <1>2, <3>1
    <3>6. MailInv(op)'
      BY <1>2, <1>3, <1>4, <1>5, <3>5 DEF MailInv
    <3> QED
      BY <2>5, <3>3, <3>4, <3>6 DEF OpInv
  <2> QED
    BY <2>6, <2>7
<1> QED
  BY <1>6, <1>7

(* All ticks that are left go down together.                                *)
LEMMA OpTick ==
    ASSUME TypeInv, RefInv, Tick, NEW op, OpInv(op)
    PROVE  OpInv(op)'
<1>1. /\ mailbox' = <<>> /\ UNCHANGED <<table, count, caller>>
      /\ \A t \in Callers : ~Past(t) /\ ~Past(t)' /\ ~Holds(t) /\ caller'[t].pc # "arm"
  BY DEF Tick, Past, Holds
<1>2. OneMember(op)'
  BY <1>1 DEF OpInv, OneMember
<1>3. ArmInv(op)' /\ MailInv(op)'
  BY <1>1 DEF ArmInv, MailInv
<1>4. ASSUME NEW c \in Channels, NEW l \in -1 .. DELAY, Behind(op, c, l)
      PROVE  \E m \in -1 .. DELAY : Behind(op, c, m)' /\ (l >= 0 => m = l - 1)
  <2>1. PICK i \in 1 .. count : table[i].op = op /\ table[i].idx = c /\ cmds[table[i].id].left = l
    BY <1>1, <1>4 DEF Behind
  <2>2. PICK n \in DOMAIN cmds : n = table[i].id
    BY DEF RefInv
  <2>3. PICK m : m = cmds'[n].left
    OBVIOUS
  <2>4. cmds'[n] \in Sent /\ (l >= 0 => m = l - 1)
    <3>1. cmds' \in Seq(Sent) /\ n \in DOMAIN cmds'
      BY <2>2, Ticking
    <3>2. cmds'[n] \in Sent
      BY <3>1
    <3>3. l >= 0 => m = l - 1
      BY <2>1, <2>2, <2>3, Ticking
    <3> QED
      BY <3>2, <3>3
  <2>5. m \in -1 .. DELAY
    BY <2>3, <2>4 DEF Sent
  <2>6. Behind(op, c, m)'
    BY <1>1, <2>1, <2>2, <2>3 DEF Behind
  <2> QED
    BY <2>4, <2>5, <2>6
<1>5. ASSUME NEW c \in Channels, chan'["master"][c].op = op
      PROVE  /\ chan'["master"][c].used => \E l \in -1 .. DELAY : Behind(op, c, l)'
             /\ chan'["master"][c].left >= 0 => Behind(op, c, chan["master"][c].left)'
  <2>1. /\ chan["master"][c].op = op /\ chan'["master"][c].used = chan["master"][c].used
        /\ chan["master"][c] \in Channel /\ chan'["master"][c] \in Channel
    BY <1>5, Ticking, Typed DEF Buds
  <2>2. chan'["master"][c].used => \E l \in -1 .. DELAY : Behind(op, c, l)'
    BY <1>4, <2>1 DEF OpInv, ChanInv
  <2>3. ASSUME chan'["master"][c].left >= 0 PROVE Behind(op, c, chan["master"][c].left)'
    <3>1. PICK l \in -1 .. DELAY, m \in -1 .. DELAY :
              l = chan["master"][c].left /\ m = chan'["master"][c].left
      BY <2>1 DEF Channel
    <3>2. l # 0 /\ (l > 0 => m = l - 1) /\ (l < 0 => m < 0)
      BY <3>1, Ticking DEF Buds
    <3>3. l >= 0 /\ m = l - 1
      BY <2>3, <3>1, <3>2, Bounds
    <3>4. Behind(op, c, l)
      BY <2>1, <3>1, <3>3 DEF OpInv, ChanInv
    <3>5. Behind(op, c, m)'
      BY <1>4, <3>3, <3>4
    <3> QED
      BY <3>1, <3>5
  <2> QED
    BY <2>2, <2>3
<1>6. ChanInv(op)'
  BY <1>5 DEF ChanInv
<1> QED
  BY <1>2, <1>3, <1>6 DEF OpInv

LEMMA MatchNext == TypeInv /\ RefInv /\ MatchInv /\ [Next]_vars => MatchInv'
<1> SUFFICES ASSUME TypeInv, RefInv, MatchInv, [Next]_vars, NEW op \in Ops, ~Overlapped(op)'
             PROVE  OpInv(op)'
  BY DEF MatchInv
<1>1. OpInv(op)
  BY StillOverlapped DEF MatchInv
<1>2. ~Tick => Keeps
  BY Keeping
<1>a. ASSUME Keeps, TableKept, HoldersKept, ChannelsKept, CallersKept, mailbox' = mailbox
      PROVE  OpInv(op)'
  BY <1>1, <1>a, OpKept DEF OpInv
<1>b. /\ UNCHANGED <<table, count>> => TableKept
      /\ UNCHANGED caller => HoldersKept /\ CallersKept
      /\ UNCHANGED chan => ChannelsKept
  BY DEF TableKept, HoldersKept, CallersKept, ChannelsKept, Holds, Past
<1>c. ASSUME NEW b \in Buds, NEW c \in Channels, Sets(b, c),
             b = "master" => /\ chan'[b][c].op = chan[b][c].op
                             /\ chan'[b][c].used => chan[b][c].used
                             /\ ~ (chan'[b][c].left >= 0)
      PROVE  ChannelsKept
  BY <1>c DEF Sets, ChannelsKept, Buds
<1>3. ASSUME Quiet PROVE OpInv(op)'
  <2>1. Keeps /\ TableKept /\ ChannelsKept
    BY <1>3, <1>b, QuietKeeps DEF Quiet, TableKept
  <2>2. HoldersKept /\ CallersKept
    BY <1>3 DEF Quiet, HoldersKept, CallersKept, Holds, Past
  <2> QED
    BY <1>3, <1>a, <2>1, <2>2 DEF Quiet
<1>4. ASSUME NEW t \in Callers, FindChannel(t), Keeps PROVE OpInv(op)'
  <2>1. caller[t].pc = "find" /\ UNCHANGED <<chan, table, count, mailbox>>
    BY <1>4 DEF FindChannel
  <2>2. HoldersKept /\ CallersKept
    <3>1. CASE caller' = [caller EXCEPT ![t] = NoCall]
      BY <2>1, <3>1, NoCallTyped, Typed DEF HoldersKept, CallersKept, Holds, Past
    <3>2. CASE Moves(t, "check")
      BY <2>1, <3>2 DEF HoldersKept, CallersKept, Holds, Past, Moves
    <3> QED
      BY <1>4, <3>1, <3>2, Finding
  <2> QED
    BY <1>4, <1>a, <1>b, <2>1, <2>2
<1>5. ASSUME CommandArrives, Keeps PROVE OpInv(op)'
  <2>1. UNCHANGED <<table, count, mailbox, caller>>
    BY <1>5 DEF CommandArrives
  <2>2. ChannelsKept
    <3>1. CASE chan' = chan
      BY <1>b, <3>1
    <3>2. ASSUME NEW c \in Channels, Sets("slave", c) PROVE ChannelsKept
      BY <1>c, <3>2 DEF Buds
    <3> QED
      BY <1>5, <3>1, <3>2, Arriving
  <2> QED
    BY <1>5, <1>a, <1>b, <2>1, <2>2
<1>6. ASSUME NEW b \in Buds, NEW c \in Channels, Triggered(b, c), Keeps PROVE OpInv(op)'
  <2>1. CASE b = "master"
    BY <1>1, <1>6, <2>1, OpTrigger
  <2>2. CASE b # "master"
    <3>1. ChannelsKept
      BY <1>6, <1>c, <2>2, Triggering
    <3>2. UNCHANGED <<table, count, mailbox, caller>>
      BY <1>6, <2>2 DEF Triggered
    <3> QED
      BY <1>6, <1>a, <1>b, <3>1, <3>2
  <2> QED
    BY <2>1, <2>2
<1>7. ASSUME NEW b \in Buds, NEW c \in Channels, TriggerLost(b, c), Keeps PROVE OpInv(op)'
  <2>1. /\ Sets(b, c) /\ chan'[b][c].op = chan[b][c].op
        /\ chan'[b][c].used = chan[b][c].used /\ chan'[b][c].left = -1
    BY <1>7, Losing
  <2>2. ~ (chan'[b][c].left >= 0)
    BY <2>1
  <2>3. ChannelsKept
    BY <1>c, <2>1, <2>2
  <2> QED
    BY <1>7, <1>a, <1>b, <2>3 DEF TriggerLost
<1>8. ASSUME LinkDown, Keeps PROVE OpInv(op)'
  BY <1>8, <1>a, <1>b DEF LinkDown
<1> QED
  BY <1>1, <1>2, <1>3, <1>4, <1>5, <1>6, <1>7, <1>8, QuietSteps, OpSend, OpTake, OpArm, OpAdd,
     OpTimeout, OpHandle, OpTick

-----------------------------------------------------------------------------
(* The inductive invariant: types, numbers and ticks, where each command    *)
(* is, and channels matched with supervisions.                              *)
THEOREM Invariance == Spec => []IInv
<1>1. Init => IInv
  BY TypeInit, RefInit, ActInit, MatchInit DEF IInv
<1>2. IInv /\ [Next]_vars => IInv'
  BY TypeNext, RefNext, ActNext, MatchNext DEF IInv
<1> QED
  BY <1>1, <1>2, PTL DEF Spec

(* Once the tick of a command is past, both buds have acted on it, or there *)
(* is one of the known reasons: Triggered on both, or what Excuse records.  *)
THEOREM BothAct == Spec => []BothActOrExcused
<1>1. ASSUME IInv PROVE BothActOrExcused
  <2>1. ASSUME NEW i \in DOMAIN cmds, cmds[i].left < 0 PROVE
               cmds[i].acted = Buds \/ cmds[i].excused \/ \E k \in DOMAIN toSlave : toSlave[k] = i
    <3>1. TypeInv /\ RefInv /\ Acts(i)
      BY <1>1 DEF IInv, ActInv
    <3>2. cmds[i].acted \subseteq Buds
      <4>1. cmds[i] \in Sent
        BY <3>1, Typed
      <4> QED
        BY <4>1 DEF Sent
    <3>3. \A t \in Callers : ~Early(t, i)
      <4>1. cmds[i].left # DELAY
        BY <2>1, Bounds
      <4> QED
        BY <3>1, <4>1 DEF RefInv, Early, Past
    <3>4. \A b \in Buds, c \in Channels : ~Armed(b, c, i)
      <4>1. ~ (cmds[i].left >= 0)
        <5>1. cmds[i] \in Sent
          BY <3>1, Typed
        <5>2. cmds[i].left \in -1 .. DELAY
          BY <5>1 DEF Sent
        <5> QED
          BY <2>1, <5>2, Bounds
      <4> QED
        BY <3>1, <4>1 DEF RefInv, Armed
    <3> QED
      BY <3>1, <3>2, <3>3, <3>4 DEF Acts, Coming, Buds
  <2> QED
    BY <2>1 DEF BothActOrExcused
<1> QED
  BY <1>1, Invariance, PTL

(* A channel the master is using will be triggered, or is supervised, or    *)
(* set up, unless operations overlapped: TakeChannel, AddSupervision and    *)
(* app_bt_sync_handle keep channels and entries matched.                    *)
THEOREM NoChannelLeaks == Spec => []NoLeak
<1>1. ASSUME IInv PROVE NoLeak
  <2>1. TypeOK /\ TypeInv /\ MatchInv
    BY <1>1 DEF IInv, TypeInv
  <2>2. ASSUME NEW c \in Channels, chan["master"][c].used, ~Overlapped(chan["master"][c].op)
        PROVE  \/ \E i \in 1 .. count : table[i].idx = c
               \/ \E t \in Callers : caller[t].idx = c /\ caller[t].pc \in {"arm", "add"}
    <3>1. PICK op \in Ops : op = chan["master"][c].op
      BY <2>1, Typed DEF Channel, Buds
    <3>2. \E l \in -1 .. DELAY : Behind(op, c, l)
      BY <2>1, <2>2, <3>1 DEF MatchInv, OpInv, ChanInv
    <3> QED
      BY <3>2 DEF Behind, Holds
  <2> QED
    BY <2>1, <2>2 DEF NoLeak
<1> QED
  BY <1>1, Invariance, PTL

(* A bud acts on a command at its tick and at no other time: the ticks left *)
(* of an armed channel are those of its command (Triggered).                *)
THEOREM ActOnTime == Spec => ActsOnTime
<1>1. ASSUME IInv, [Next]_vars, NEW i \in DOMAIN cmds, cmds'[i].acted # cmds[i].acted
      PROVE  cmds[i].left = 0
  <2>1. TypeInv /\ RefInv
    BY <1>1 DEF IInv
  <2>2. ASSUME NEW ids, cmds' = Excuse(ids) PROVE FALSE
    BY <1>1, <2>1, <2>2, Excusing
  <2>3. cmds' # cmds
    BY <1>1
  <2>4. ASSUME NEW b \in Buds, NEW c \in Channels, Triggered(b, c) PROVE cmds[i].left = 0
    BY <1>1, <2>1, <2>4, Triggering
  <2>5. ~Quiet
    BY <2>3 DEF Quiet
  <2>6. ASSUME NEW t \in Callers,
               \/ SendCommand(t) /\ link
               \/ FindChannel(t) \/ TakeChannel(t) \/ ArmTrigger(t)
               \/ AddSupervision(t)
        PROVE  FALSE
    BY <1>1, <2>1, <2>2, <2>3, <2>6, Sending, Finding, Taking, Arming DEF AddSupervision, Fail
  <2>7. ~CommandArrives
    BY <2>1, <2>2, Arriving
  <2>8. ASSUME NEW b \in Buds, NEW c \in Channels, TriggerLost(b, c) PROVE FALSE
    BY <2>1, <2>2, <2>8, Losing
  <2>9. ~TimedOut /\ ~app_bt_sync_handle
    BY <2>3 DEF TimedOut, app_bt_sync_handle
  <2>10. ~Tick
    BY <1>1, <2>1, Ticking
  <2>11. ~LinkDown
    BY <2>2 DEF LinkDown
  <2> QED
    BY <1>1, <2>1, <2>4, <2>5, <2>6, <2>7, <2>8, <2>9, <2>10, <2>11, QuietSteps
<1>2. IInv /\ [Next]_vars =>
          [\A i \in DOMAIN cmds : cmds'[i].acted # cmds[i].acted => cmds[i].left = 0]_vars
  BY <1>1
<1> QED
  BY <1>2, Invariance, PTL DEF Spec, ActsOnTime
===============================================================================
