--------------------------- MODULE NvRecordProofs ---------------------------
(***************************************************************************)
(* Proofs about NvRecord, for every set of records and every number of     *)
(* writers: the invariant IInv is inductive, the safety properties follow  *)
(* from it, and NvRecord implements NvStore.                               *)
(***************************************************************************)
EXTENDS NvRecord, SequenceTheorems, TLAPS

USE ValuesAssumption, SectorAssumption, TouchAssumption
    DEF Sectors, Contents, Clearing, nv_record_data_is_valid

(* The driver's buffer is a short sequence at every step; what appending   *)
(* to one gives.                                                           *)
LEMMA AppendToEmpty ==
    ASSUME NEW o \in Ops
    PROVE  Append(<<>>, o) = <<o>>
OBVIOUS

LEMMA AppendToOne ==
    ASSUME NEW a \in Ops, NEW o \in Ops
    PROVE  Append(<<a>>, o) = <<a, o>>
<1> DEFINE s == Append(<<a>>, o)
           t == <<a, o>>
<1>1. s \in Seq(Ops) /\ t \in Seq(Ops) /\ Len(s) = 2 /\ Len(t) = 2
  OBVIOUS
<1>2. s[1] = t[1] /\ s[2] = t[2]
  OBVIOUS
<1>3. \A i \in 1..Len(s) : s[i] = t[i]
  BY <1>1, <1>2
<1> HIDE DEF s, t
<1>4. s = t
  BY <1>1, <1>3, SeqEqual
<1> QED
  BY <1>4 DEF s, t

LEMMA AppendToTwo ==
    ASSUME NEW a \in Ops, NEW c \in Ops, NEW o \in Ops
    PROVE  Append(<<a, c>>, o) = <<a, c, o>>
<1> DEFINE s == Append(<<a, c>>, o)
           t == <<a, c, o>>
<1>1. s \in Seq(Ops) /\ t \in Seq(Ops) /\ Len(s) = 3 /\ Len(t) = 3
  OBVIOUS
<1>2. s[1] = t[1] /\ s[2] = t[2] /\ s[3] = t[3]
  OBVIOUS
<1>3. \A i \in 1..Len(s) : s[i] = t[i]
  BY <1>1, <1>2
<1> HIDE DEF s, t
<1>4. s = t
  BY <1>1, <1>3, SeqEqual
<1> QED
  BY <1>4 DEF s, t

LEMMA OpsTyped ==
    ASSUME TypeOK
    PROVE  \A s \in Sectors : Erase(s) \in Ops /\ Program(s, burn) \in Ops
BY DEF TypeOK, Ops, Erase, Program

(* Powered off, whatever the two sectors hold, the invariant holds.        *)
LEMMA InitIInv == ASSUME Init PROVE IInv
<1>1. TypeOK
  <2>1. formatted \in BOOLEAN
    BY Zenon DEF Init
  <2>2. queue \in Seq(Ops)
    BY DEF Init
  <2> QED
    BY <2>1, <2>2 DEF Init, TypeOK, NV_STATE, SYNC
<1>2. BufferInv
  BY DEF Init, BufferInv
<1>3. ThreadInv
  BY DEF Init, ThreadInv
<1>4. BurnInv
  BY DEF Init, BurnInv
<1>5. CopyInv
  BY DEF Init, CopyInv
<1>6. UpdateInv
  BY DEF Init, UpdateInv, NoLostUpdate
<1> QED
  BY <1>1, <1>2, <1>3, <1>4, <1>5, <1>6 DEF IInv

(* A start-up.                                                             *)
LEMMA BootIInv == ASSUME IInv, nv_record_extension_init PROVE IInv'
<1> USE DEF IInv, mirrorVars, flushVars, nv_record_extension_init
<1>1. TypeOK'
  BY DEF TypeOK, NV_STATE, SYNC
<1>2. BufferInv'
  BY DEF BufferInv, ThreadInv
<1>3. ThreadInv'
  BY DEF ThreadInv
<1>4. BurnInv'
  BY DEF BurnInv
<1>5. CopyInv'
  BY DEF CopyInv
<1>6. UpdateInv'
  BY DEF UpdateInv, NoLostUpdate, Carried
<1> QED
  BY <1>1, <1>2, <1>3, <1>4, <1>5, <1>6

(* A power cut: only the sector at work can be torn.                       *)
LEMMA PowerCutIInv == ASSUME IInv, PowerCut PROVE IInv'
<1> USE DEF IInv, mirrorVars, flushVars, PowerCut
<1>1. TypeOK'
  <2>1. flash' \in [Sectors -> Contents]
    BY DEF TypeOK
  <2>2. queue' \in Seq(Ops)
    OBVIOUS
  <2> QED
    BY <2>1, <2>2 DEF TypeOK, NV_STATE, SYNC
<1>2. BufferInv'
  BY DEF BufferInv
<1>3. ThreadInv'
  BY DEF ThreadInv
<1>4. BurnInv'
  BY DEF BurnInv
<1>5. CopyInv'
  BY DEF CopyInv, BufferInv, ThreadInv, BurnInv, TypeOK, NV_STATE, Busy, ErasePhase,
         ProgramPhase, AgainPhase, Erase, Program
<1>6. UpdateInv'
  BY DEF UpdateInv, NoLostUpdate
<1> QED
  BY <1>1, <1>2, <1>3, <1>4, <1>5, <1>6

(* A writer that touches inside the lock.                                  *)
LEMMA WriteLockedIInv == ASSUME IInv, NEW v \in Values, WriteLocked(v) PROVE IInv'
<1> USE DEF IInv, mirrorVars, flushVars, WriteLocked
<1>1. TypeOK'
  BY DEF TypeOK, NV_STATE, SYNC
<1>2. BufferInv'
  BY DEF BufferInv, ThreadInv, ErasePhase, ProgramPhase, AgainPhase
<1>3. ThreadInv'
  BY DEF ThreadInv
<1>4. BurnInv'
  BY DEF BurnInv
<1>5. CopyInv'
  BY DEF CopyInv
<1>6. UpdateInv'
  BY DEF UpdateInv, NoLostUpdate, Carried, TypeOK
<1> QED
  BY <1>1, <1>2, <1>3, <1>4, <1>5, <1>6

(* A writer that has yet to touch after the lock is released.              *)
LEMMA WriteThenTouchIInv == ASSUME IInv, NEW v \in Values, WriteThenTouch(v) PROVE IInv'
<1> USE DEF IInv, mirrorVars, flushVars, WriteThenTouch
<1>1. TypeOK'
  BY DEF TypeOK, NV_STATE, SYNC
<1>2. BufferInv'
  BY DEF BufferInv, ThreadInv, ErasePhase, ProgramPhase, AgainPhase
<1>3. ThreadInv'
  BY DEF ThreadInv
<1>4. BurnInv'
  BY DEF BurnInv
<1>5. CopyInv'
  BY DEF CopyInv
<1>6. UpdateInv'
  BY DEF UpdateInv, NoLostUpdate, Carried, TypeOK
<1> QED
  BY <1>1, <1>2, <1>3, <1>4, <1>5, <1>6

(* The late touch.                                                         *)
LEMMA TouchIInv == ASSUME IInv, nv_record_extension_update PROVE IInv'
<1> USE DEF IInv, mirrorVars, flushVars, nv_record_extension_update
<1>1. TypeOK'
  BY DEF TypeOK, NV_STATE, SYNC
<1>2. BufferInv'
  BY DEF BufferInv, ThreadInv, ErasePhase, ProgramPhase, AgainPhase
<1>3. ThreadInv'
  BY DEF ThreadInv
<1>4. BurnInv'
  BY DEF BurnInv
<1>5. CopyInv'
  BY DEF CopyInv
<1>6. UpdateInv'
  BY DEF UpdateInv, NoLostUpdate, Carried, TypeOK
<1> QED
  BY <1>1, <1>2, <1>3, <1>4, <1>5, <1>6

(* The frame of a flush step that leaves the mutex where it is.            *)
StageFrame == /\ on /\ ~Clearing
              /\ UNCHANGED <<on, mirrorVars, sync, flash, formatted>>
              /\ expired' \in BOOLEAN

(* The erase of main is requested.                                         *)
LEMMA EraseMainIInv ==
    ASSUME IInv, StageFrame, RequestErase("main", {"IDLE", "MAIN_ERASING"}, "MAIN_ERASED")
    PROVE  IInv'
<1> USE DEF IInv, mirrorVars, flushVars, StageFrame, RequestErase
<1>1. TypeOK'
  BY DEF TypeOK, NV_STATE, SYNC, Ops, Erase, Program
<1>2. BufferInv'
  BY OpsTyped, AppendToEmpty, AppendToOne, AppendToTwo
     DEF BufferInv, ThreadInv, ErasePhase
<1>3. ThreadInv'
  BY DEF ThreadInv, TypeOK
<1>4. BurnInv'
  BY DEF BurnInv, BufferInv, ThreadInv, TypeOK, ErasePhase, ProgramPhase, AgainPhase,
         Erase, Program
<1>5. CopyInv'
  BY DEF CopyInv
<1>6. UpdateInv'
  BY DEF UpdateInv, NoLostUpdate, Carried
<1> QED
  BY <1>1, <1>2, <1>3, <1>4, <1>5, <1>6

(* The mirror is copied to the burn buffer and is_update cleared.          *)
LEMMA SnapshotIInv == ASSUME IInv, StageFrame, SnapshotMirror PROVE IInv'
<1> USE DEF IInv, mirrorVars, flushVars, StageFrame, SnapshotMirror
<1>1. TypeOK'
  BY DEF TypeOK, NV_STATE, SYNC, Ops, Erase, Program
<1>2. BufferInv'
  BY DEF BufferInv, ThreadInv, TypeOK, NV_STATE, SYNC, ErasePhase, ProgramPhase,
         AgainPhase, Erase, Program
<1>3. ThreadInv'
  BY DEF ThreadInv, TypeOK
<1>4. BurnInv'
  BY DEF BurnInv, BufferInv, ThreadInv, TypeOK, ErasePhase, ProgramPhase, AgainPhase,
         Erase, Program
<1>5. CopyInv'
  BY DEF CopyInv, BufferInv, ThreadInv, TypeOK, ErasePhase, ProgramPhase, AgainPhase,
         Erase, Program
<1>6. UpdateInv'
  BY DEF UpdateInv, NoLostUpdate, Carried, BufferInv, ThreadInv, TypeOK, ErasePhase,
         ProgramPhase, AgainPhase, Erase, Program
<1> QED
  BY <1>1, <1>2, <1>3, <1>4, <1>5, <1>6

(* The program operation of main is requested.                             *)
LEMMA ProgramMainIInv ==
    ASSUME IInv, StageFrame, RequestProgram("main", "MAIN_WRITE_PENDING", "MAIN_WRITTEN")
    PROVE  IInv'
<1> USE DEF IInv, mirrorVars, flushVars, StageFrame, RequestProgram
<1>1. TypeOK'
  BY DEF TypeOK, NV_STATE, SYNC, Ops, Erase, Program
<1>2. BufferInv'
  BY OpsTyped, AppendToEmpty, AppendToOne, AppendToTwo
     DEF BufferInv, ThreadInv, ErasePhase, ProgramPhase
<1>3. ThreadInv'
  BY DEF ThreadInv, TypeOK
<1>4. BurnInv'
  BY DEF BurnInv, BufferInv, ThreadInv, TypeOK, ErasePhase, ProgramPhase, AgainPhase,
         Erase, Program
<1>5. CopyInv'
  BY DEF CopyInv, BufferInv, ThreadInv, TypeOK, ErasePhase, ProgramPhase, AgainPhase,
         Erase, Program
<1>6. UpdateInv'
  BY DEF UpdateInv, NoLostUpdate, Carried, BufferInv, ThreadInv, TypeOK, ErasePhase,
         ProgramPhase, AgainPhase, Erase, Program
<1> QED
  BY <1>1, <1>2, <1>3, <1>4, <1>5, <1>6

(* The wait for main ends: the buffer is empty, main is the burn buffer.   *)
LEMMA MainDrainedIInv ==
    ASSUME IInv, StageFrame, Drained("MAIN_WRITTEN", "MAIN_DONE")
    PROVE  IInv'
<1> USE DEF IInv, mirrorVars, flushVars, StageFrame, Drained
<1>1. TypeOK'
  BY DEF TypeOK, NV_STATE, SYNC, Ops, Erase, Program
<1>2. BufferInv'
  BY DEF BufferInv, ThreadInv, TypeOK, NV_STATE, SYNC, ErasePhase, ProgramPhase,
         AgainPhase, Erase, Program
<1>3. ThreadInv'
  BY DEF ThreadInv, TypeOK
<1>4. BurnInv'
  BY DEF BurnInv, BufferInv, ThreadInv, TypeOK, ErasePhase, ProgramPhase, AgainPhase,
         Erase, Program
<1>5. CopyInv'
  BY DEF CopyInv, BufferInv, ThreadInv, TypeOK, ErasePhase, ProgramPhase, AgainPhase,
         Erase, Program
<1>6. UpdateInv'
  BY DEF UpdateInv, NoLostUpdate, Carried, BufferInv, ThreadInv, TypeOK, ErasePhase,
         ProgramPhase, AgainPhase, Erase, Program
<1> QED
  BY <1>1, <1>2, <1>3, <1>4, <1>5, <1>6

(* The erase of bak is requested.                                          *)
LEMMA EraseBakIInv ==
    ASSUME IInv, StageFrame, RequestErase("bak", {"MAIN_DONE", "BAK_ERASING"}, "BAK_ERASED")
    PROVE  IInv'
<1> USE DEF IInv, mirrorVars, flushVars, StageFrame, RequestErase
<1>1. TypeOK'
  BY DEF TypeOK, NV_STATE, SYNC, Ops, Erase, Program
<1>2. BufferInv'
  BY OpsTyped, AppendToEmpty, AppendToOne, AppendToTwo
     DEF BufferInv, ThreadInv, ErasePhase
<1>3. ThreadInv'
  BY DEF ThreadInv, TypeOK
<1>4. BurnInv'
  BY DEF BurnInv, BufferInv, ThreadInv, TypeOK, ErasePhase, ProgramPhase, AgainPhase,
         Erase, Program
<1>5. CopyInv'
  BY DEF CopyInv, BufferInv, ThreadInv, TypeOK, ErasePhase, ProgramPhase, AgainPhase,
         Erase, Program
<1>6. UpdateInv'
  BY DEF UpdateInv, NoLostUpdate, Carried, BufferInv, ThreadInv, TypeOK, ErasePhase,
         ProgramPhase, AgainPhase, Erase, Program
<1> QED
  BY <1>1, <1>2, <1>3, <1>4, <1>5, <1>6

(* No operation on main is buffered while bak is worked on, so the driver  *)
(* reads main from the flash.                                              *)
LEMMA ReadMain ==
    ASSUME IInv, state \in {"BAK_ERASED", "BAK_WRITTEN"}, sync # "drain"
    PROVE  norflash_api_read("main") = flash["main"]
<1>1. \/ queue = <<>>
      \/ queue = <<Erase("bak")>>
      \/ queue = <<Program("bak", burn)>>
      \/ queue = <<Erase("bak"), Program("bak", burn)>>
  BY DEF IInv, BufferInv, ErasePhase, ProgramPhase
<1>2. \A i \in DOMAIN queue : queue[i].sec = "bak"
  BY <1>1 DEF Erase, Program
<1> QED
  BY <1>2 DEF norflash_api_read

(* Main is read back into the burn buffer.                                 *)
LEMMA CopyIInv ==
    ASSUME IInv, StageFrame, CopyMainToBurn({"BAK_ERASED", "BAK_WRITTEN"}),
           state = "BAK_WRITTEN" => sync = "flush"
    PROVE  IInv'
<1> USE DEF IInv, mirrorVars, flushVars, StageFrame, CopyMainToBurn
<1>1. TypeOK'
  BY ReadMain DEF TypeOK, NV_STATE, SYNC, ThreadInv
<1>2. BufferInv'
  BY ReadMain DEF BufferInv, BurnInv, ThreadInv, TypeOK, SYNC, ErasePhase, ProgramPhase
<1>3. ThreadInv'
  BY DEF ThreadInv, TypeOK
<1>4. BurnInv'
  BY ReadMain DEF BurnInv, ThreadInv
<1>5. CopyInv'
  BY ReadMain DEF CopyInv
<1>6. UpdateInv'
  BY ReadMain DEF UpdateInv, NoLostUpdate, Carried
<1> QED
  BY <1>1, <1>2, <1>3, <1>4, <1>5, <1>6

(* The hook requests the program operation of bak.                         *)
LEMMA ProgramBakIInv ==
    ASSUME IInv, StageFrame, RequestProgram("bak", "BAK_WRITE_PENDING", "BAK_WRITTEN"), sync = "none"
    PROVE  IInv'
<1> USE DEF IInv, mirrorVars, flushVars, StageFrame, RequestProgram
<1>1. TypeOK'
  BY DEF TypeOK, NV_STATE, SYNC, Ops, Erase, Program
<1>2. BufferInv'
  BY OpsTyped, AppendToEmpty, AppendToOne, AppendToTwo
     DEF BufferInv, ThreadInv, ErasePhase, ProgramPhase
<1>3. ThreadInv'
  BY DEF ThreadInv, TypeOK
<1>4. BurnInv'
  BY DEF BurnInv, BufferInv, ThreadInv, TypeOK, ErasePhase, ProgramPhase, AgainPhase,
         Erase, Program
<1>5. CopyInv'
  BY DEF CopyInv, BufferInv, ThreadInv, TypeOK, ErasePhase, ProgramPhase, AgainPhase,
         Erase, Program
<1>6. UpdateInv'
  BY DEF UpdateInv, NoLostUpdate, Carried, BufferInv, ThreadInv, TypeOK, ErasePhase,
         ProgramPhase, AgainPhase, Erase, Program
<1> QED
  BY <1>1, <1>2, <1>3, <1>4, <1>5, <1>6

(* The hook finds the buffer empty: the flush ends.                        *)
LEMMA BakDrainedIInv ==
    ASSUME IInv, StageFrame, Drained("BAK_WRITTEN", "IDLE"), sync = "none"
    PROVE  IInv'
<1> USE DEF IInv, mirrorVars, flushVars, StageFrame, Drained
<1>1. TypeOK'
  BY DEF TypeOK, NV_STATE, SYNC, Ops, Erase, Program
<1>2. BufferInv'
  BY DEF BufferInv, ThreadInv, TypeOK, NV_STATE, SYNC, ErasePhase, ProgramPhase,
         AgainPhase, Erase, Program
<1>3. ThreadInv'
  BY DEF ThreadInv, TypeOK
<1>4. BurnInv'
  BY DEF BurnInv, BufferInv, ThreadInv, TypeOK, ErasePhase, ProgramPhase, AgainPhase,
         Erase, Program
<1>5. CopyInv'
  BY DEF CopyInv, BufferInv, BurnInv, ProgramPhase, AgainPhase
<1>6. UpdateInv'
  BY DEF UpdateInv, NoLostUpdate, Carried, BufferInv, ThreadInv, TypeOK, ErasePhase,
         ProgramPhase, AgainPhase, Erase, Program
<1> QED
  BY <1>1, <1>2, <1>3, <1>4, <1>5, <1>6

(* The hook meets a full buffer.                                           *)
LEMMA AsyncBufferFullIInv == ASSUME IInv, AsyncBufferFull PROVE IInv'
<1> USE DEF IInv, mirrorVars, flushVars, AsyncBufferFull, AsyncFrame,
            nv_record_flash_flush_in_sleep
<1>1. TypeOK'
  BY DEF TypeOK, NV_STATE, SYNC
<1>2. BufferInv'
  BY DEF BufferInv, ThreadInv, TypeOK, NV_STATE, SYNC, ErasePhase, ProgramPhase,
         AgainPhase, Erase, Program
<1>3. ThreadInv'
  BY DEF ThreadInv, TypeOK
<1>4. BurnInv'
  BY DEF BurnInv, BufferInv, ThreadInv, TypeOK, ErasePhase, ProgramPhase, AgainPhase,
         Erase, Program
<1>5. CopyInv'
  BY DEF CopyInv, BufferInv, ThreadInv, TypeOK, ErasePhase, ProgramPhase, AgainPhase,
         Erase, Program
<1>6. UpdateInv'
  BY DEF UpdateInv, NoLostUpdate, Carried, BufferInv, ThreadInv, TypeOK, ErasePhase,
         ProgramPhase, AgainPhase, Erase, Program
<1> QED
  BY <1>1, <1>2, <1>3, <1>4, <1>5, <1>6

(* The hook has nothing to do or has to wait.                              *)
LEMMA AsyncNothingIInv == ASSUME IInv, AsyncNothing PROVE IInv'
<1> USE DEF IInv, mirrorVars, flushVars, AsyncNothing, AsyncFrame,
            nv_record_flash_flush_in_sleep
<1>1. TypeOK'
  BY DEF TypeOK, NV_STATE, SYNC
<1>2. BufferInv'
  BY DEF BufferInv, ThreadInv, ErasePhase, ProgramPhase, AgainPhase
<1>3. ThreadInv'
  BY DEF ThreadInv
<1>4. BurnInv'
  BY DEF BurnInv
<1>5. CopyInv'
  BY DEF CopyInv
<1>6. UpdateInv'
  BY DEF UpdateInv, NoLostUpdate, Carried, TypeOK
<1> QED
  BY <1>1, <1>2, <1>3, <1>4, <1>5, <1>6

(* The checkpoint timer expires.                                           *)
LEMMA TimerExpiresIInv == ASSUME IInv, TimerExpires PROVE IInv'
<1> USE DEF IInv, mirrorVars, flushVars, TimerExpires
<1>1. TypeOK'
  BY DEF TypeOK, NV_STATE, SYNC
<1>2. BufferInv'
  BY DEF BufferInv, ThreadInv, ErasePhase, ProgramPhase, AgainPhase
<1>3. ThreadInv'
  BY DEF ThreadInv
<1>4. BurnInv'
  BY DEF BurnInv
<1>5. CopyInv'
  BY DEF CopyInv
<1>6. UpdateInv'
  BY DEF UpdateInv, NoLostUpdate, Carried, TypeOK
<1> QED
  BY <1>1, <1>2, <1>3, <1>4, <1>5, <1>6

(* A thread takes the mutex for a synchronous flush.                       *)
LEMMA FlushIInv == ASSUME IInv, nv_record_flash_flush PROVE IInv'
<1> USE DEF IInv, mirrorVars, flushVars, nv_record_flash_flush, SyncFrame
<1>1. TypeOK'
  BY DEF TypeOK, NV_STATE, SYNC
<1>2. BufferInv'
  BY DEF BufferInv, ThreadInv, ErasePhase, ProgramPhase, AgainPhase
<1>3. ThreadInv'
  BY DEF ThreadInv
<1>4. BurnInv'
  BY DEF BurnInv
<1>5. CopyInv'
  BY DEF CopyInv
<1>6. UpdateInv'
  BY DEF UpdateInv, NoLostUpdate, Carried, TypeOK
<1> QED
  BY <1>1, <1>2, <1>3, <1>4, <1>5, <1>6

(* The thread requests the program operation of bak, perhaps again.        *)
LEMMA SyncProgramBakIInv ==
    ASSUME IInv, on, sync = "flush",
           RequestProgram("bak", "BAK_WRITE_PENDING", "BAK_WRITTEN"), sync' = "drain", SyncFrame
    PROVE  IInv'
<1> USE DEF IInv, mirrorVars, flushVars, RequestProgram, SyncFrame
<1>1. TypeOK'
  BY DEF TypeOK, NV_STATE, SYNC, Ops, Erase, Program
<1>2. BufferInv'
  <2>1. ErasePhase("bak") \/ ProgramPhase("bak")
    BY DEF BufferInv
  <2>2. CASE ErasePhase("bak")
    <3>1. ProgramPhase("bak")'
      BY <2>2, OpsTyped, AppendToEmpty, AppendToOne DEF ErasePhase, ProgramPhase
    <3> QED
      BY <3>1 DEF BufferInv
  <2>3. CASE ProgramPhase("bak")
    <3> DEFINE e == Erase("bak")
               p == Program("bak", burn)
    <3>1. e \in Ops /\ p \in Ops
      BY OpsTyped
    <3>2. Append(<<e, p>>, p) = <<e, p, p>> /\ Append(<<p>>, p) = <<p, p>>
          /\ Append(<<>>, p) = <<p>>
      BY <3>1, AppendToEmpty, AppendToOne, AppendToTwo
    <3>3. UNCHANGED <<burn, flash>> /\ queue' = Append(queue, p)
      OBVIOUS
    <3>4. (ProgramPhase("bak") \/ AgainPhase("bak"))'
      BY <2>3, <3>2, <3>3 DEF ProgramPhase, AgainPhase
    <3> QED
      BY <3>4 DEF BufferInv
  <2> QED
    BY <2>1, <2>2, <2>3
<1>3. ThreadInv'
  BY DEF ThreadInv, TypeOK
<1>4. BurnInv'
  BY DEF BurnInv, BufferInv, ThreadInv, TypeOK, ErasePhase, ProgramPhase, AgainPhase,
         Erase, Program
<1>5. CopyInv'
  BY DEF CopyInv, BufferInv, ThreadInv, TypeOK, ErasePhase, ProgramPhase, AgainPhase,
         Erase, Program
<1>6. UpdateInv'
  BY DEF UpdateInv, NoLostUpdate, Carried, BufferInv, ThreadInv, TypeOK, ErasePhase,
         ProgramPhase, AgainPhase, Erase, Program
<1> QED
  BY <1>1, <1>2, <1>3, <1>4, <1>5, <1>6

(* The wait of the synchronous flush for bak ends.                         *)
LEMMA SyncBakDrainedIInv == ASSUME IInv, SyncBakDrained PROVE IInv'
<1> USE DEF IInv, mirrorVars, flushVars, SyncBakDrained, Drained, SyncFrame
<1>1. TypeOK'
  BY DEF TypeOK, NV_STATE, SYNC
<1>2. BufferInv'
  BY DEF BufferInv, ThreadInv, TypeOK, NV_STATE, SYNC, ErasePhase, ProgramPhase,
         AgainPhase, Erase, Program
<1>3. ThreadInv'
  BY DEF ThreadInv, TypeOK
<1>4. BurnInv'
  BY DEF BurnInv, BufferInv, ThreadInv, TypeOK, ErasePhase, ProgramPhase, AgainPhase,
         Erase, Program
<1>5. CopyInv'
  BY DEF CopyInv, BufferInv, BurnInv, ProgramPhase, AgainPhase
<1>6. UpdateInv'
  BY DEF UpdateInv, NoLostUpdate, Carried, BufferInv, ThreadInv, TypeOK, ErasePhase,
         ProgramPhase, AgainPhase, Erase, Program
<1> QED
  BY <1>1, <1>2, <1>3, <1>4, <1>5, <1>6

(* The synchronous flush returns.                                          *)
LEMMA SyncReturnIInv == ASSUME IInv, SyncReturn PROVE IInv'
<1> USE DEF IInv, mirrorVars, flushVars, SyncReturn
<1>1. TypeOK'
  BY DEF TypeOK, NV_STATE, SYNC
<1>2. BufferInv'
  BY DEF BufferInv, ThreadInv, ErasePhase, ProgramPhase, AgainPhase
<1>3. ThreadInv'
  BY DEF ThreadInv
<1>4. BurnInv'
  BY DEF BurnInv
<1>5. CopyInv'
  BY DEF CopyInv
<1>6. UpdateInv'
  BY DEF UpdateInv, NoLostUpdate, Carried, TypeOK
<1> QED
  BY <1>1, <1>2, <1>3, <1>4, <1>5, <1>6

(* The deliberate erase begins.                                            *)
LEMMA RebuildIInv == ASSUME IInv, nv_record_sector_clear PROVE IInv'
<1> USE DEF IInv, mirrorVars, flushVars, nv_record_sector_clear
<1>1. TypeOK'
  BY DEF TypeOK, NV_STATE, SYNC
<1>2. BufferInv'
  BY DEF BufferInv, ThreadInv, ErasePhase, ProgramPhase, AgainPhase
<1>3. ThreadInv'
  BY DEF ThreadInv, CopyInv
<1>4. BurnInv'
  BY DEF BurnInv
<1>5. CopyInv'
  BY DEF CopyInv
<1>6. UpdateInv'
  BY DEF UpdateInv, NoLostUpdate, Carried, TypeOK
<1> QED
  BY <1>1, <1>2, <1>3, <1>4, <1>5, <1>6

(* The deliberate erase of main is done.                                   *)
LEMMA SectorClearMainIInv == ASSUME IInv, SectorClearMain PROVE IInv'
<1> USE DEF IInv, mirrorVars, flushVars, SectorClearMain
<1>1. TypeOK'
  BY DEF TypeOK, NV_STATE, SYNC
<1>2. BufferInv'
  BY DEF BufferInv, ThreadInv, ErasePhase, ProgramPhase, AgainPhase
<1>3. ThreadInv'
  BY DEF ThreadInv, TypeOK
<1>4. BurnInv'
  BY DEF BurnInv, ThreadInv
<1>5. CopyInv'
  BY DEF CopyInv, ThreadInv
<1>6. UpdateInv'
  BY DEF UpdateInv, NoLostUpdate, Carried, TypeOK
<1> QED
  BY <1>1, <1>2, <1>3, <1>4, <1>5, <1>6

(* The deliberate erase of bak is done and the mirror is updated.          *)
LEMMA SectorClearBakIInv == ASSUME IInv, NEW v \in Values, SectorClearBak(v) PROVE IInv'
<1> USE DEF IInv, mirrorVars, flushVars, SectorClearBak
<1>1. TypeOK'
  BY DEF TypeOK, NV_STATE, SYNC
<1>2. BufferInv'
  BY DEF BufferInv, ThreadInv, ErasePhase, ProgramPhase, AgainPhase
<1>3. ThreadInv'
  BY DEF ThreadInv
<1>4. BurnInv'
  BY DEF BurnInv, ThreadInv, TypeOK
<1>5. CopyInv'
  BY DEF CopyInv, ThreadInv, TypeOK
<1>6. UpdateInv'
  BY DEF UpdateInv, NoLostUpdate, Carried, TypeOK
<1> QED
  BY <1>1, <1>2, <1>3, <1>4, <1>5, <1>6

(* The driver finishes the oldest operation: only the three phases that    *)
(* have one buffered are concerned.                                        *)
LEMMA ProgressTypeOK == ASSUME IInv, NorflashProgress PROVE TypeOK'
<1> USE DEF IInv, NorflashProgress, mirrorVars, flushVars
<1>1. Head(queue) \in Ops /\ queue' \in Seq(Ops)
  BY HeadTailProperties DEF TypeOK
<1>2. Result(Head(queue), flash[Head(queue).sec]) \in Contents
  BY <1>1 DEF Result, Ops
<1>3. flash' \in [Sectors -> Contents]
  BY <1>1, <1>2 DEF TypeOK, Ops
<1>4. formatted' \in BOOLEAN
  BY DEF TypeOK
<1> QED
  BY <1>1, <1>3, <1>4 DEF TypeOK

(* Which sector the oldest operation is on and what it leaves there, for   *)
(* every buffer the invariant admits.                                      *)
LEMMA ProgressShape ==
    ASSUME IInv, NorflashProgress, NEW s \in Sectors, NEW u \in Sectors, s # u
    PROVE  /\ ErasePhase(s) => ErasePhase(s)' /\ flash'[u] = flash[u] /\ queue' = <<>>
           /\ ProgramPhase(s) => /\ ProgramPhase(s)' /\ flash'[u] = flash[u]
                                 /\ queue' # <<>> => flash'[s] = Erased
           /\ AgainPhase(s) => (ProgramPhase(s) \/ AgainPhase(s))' /\ flash'[u] = flash[u]
           /\ ProgramPhase(s) => Head(queue).sec = s
           /\ ErasePhase(s) \/ ProgramPhase(s) \/ AgainPhase(s)
                => flash'[s] \in {Erased, burn}
<1> DEFINE e == Erase(s)
           p == Program(s, burn)
<1>1. /\ Head(<<e>>) = e /\ Tail(<<e>>) = <<>>
      /\ Head(<<p>>) = p /\ Tail(<<p>>) = <<>>
      /\ Head(<<e, p>>) = e /\ Tail(<<e, p>>) = <<p>>
      /\ Head(<<p, p>>) = p /\ Tail(<<p, p>>) = <<p>>
      /\ Head(<<e, p, p>>) = e /\ Tail(<<e, p, p>>) = <<p, p>>
  OBVIOUS
<1>2. /\ \A x : Result(e, x) = Erased
      /\ \A x \in {Erased, burn} : Result(p, x) = burn
      /\ e.sec = s /\ p.sec = s
  BY DEF Result, Erase, Program
<1>3. /\ queue # <<>> /\ queue' = Tail(queue) /\ burn' = burn
      /\ flash' = [flash EXCEPT ![Head(queue).sec] = Result(Head(queue), flash[Head(queue).sec])]
      /\ flash \in [Sectors -> Contents]
  BY DEF NorflashProgress, flushVars, IInv, TypeOK
<1> HIDE DEF e, p
<1>4. ASSUME Head(queue) = e PROVE flash'[s] = Erased /\ flash'[u] = flash[u]
  BY <1>2, <1>3, <1>4
<1>5. ASSUME Head(queue) = p, flash[s] \in {Erased, burn}
      PROVE  flash'[s] = burn /\ flash'[u] = flash[u]
  BY <1>2, <1>3, <1>5
<1>6. ErasePhase(s) => ErasePhase(s)' /\ flash'[u] = flash[u] /\ queue' = <<>>
  BY <1>1, <1>3, <1>4 DEF ErasePhase, e
<1>7. ASSUME ProgramPhase(s)
      PROVE  /\ ProgramPhase(s)' /\ flash'[u] = flash[u]
             /\ queue' # <<>> => flash'[s] = Erased
  <2>1. queue = <<e, p>> \/ (queue = <<p>> /\ flash[s] \in {Erased, burn})
    BY <1>3, <1>7 DEF ProgramPhase, e, p
  <2>2. CASE queue = <<e, p>>
    <3>1. flash'[s] = Erased /\ flash'[u] = flash[u] /\ queue' = <<p>>
      BY <1>1, <1>3, <1>4, <2>2
    <3> QED
      BY <1>3, <3>1 DEF ProgramPhase, p
  <2>3. CASE queue = <<p>> /\ flash[s] \in {Erased, burn}
    <3>1. flash'[s] = burn /\ flash'[u] = flash[u] /\ queue' = <<>>
      BY <1>1, <1>3, <1>5, <2>3
    <3> QED
      BY <1>3, <3>1 DEF ProgramPhase
  <2> QED
    BY <2>1, <2>2, <2>3
<1>8. ASSUME AgainPhase(s)
      PROVE  (ProgramPhase(s) \/ AgainPhase(s))' /\ flash'[u] = flash[u]
  <2>1. queue = <<e, p, p>> \/ (queue = <<p, p>> /\ flash[s] \in {Erased, burn})
    BY <1>3, <1>8 DEF AgainPhase, e, p
  <2>2. CASE queue = <<e, p, p>>
    <3>1. flash'[s] = Erased /\ flash'[u] = flash[u] /\ queue' = <<p, p>>
      BY <1>1, <1>3, <1>4, <2>2
    <3> QED
      BY <1>3, <3>1 DEF AgainPhase, p
  <2>3. CASE queue = <<p, p>> /\ flash[s] \in {Erased, burn}
    <3>1. flash'[s] = burn /\ flash'[u] = flash[u] /\ queue' = <<p>>
      BY <1>1, <1>3, <1>5, <2>3
    <3> QED
      BY <1>3, <3>1 DEF ProgramPhase, p
  <2> QED
    BY <2>1, <2>2, <2>3
<1>9. ProgramPhase(s) => Head(queue).sec = s
  BY <1>1, <1>2, <1>3 DEF ProgramPhase, e, p
<1>10. ErasePhase(s) \/ ProgramPhase(s) \/ AgainPhase(s)
         => Head(queue) = e \/ (Head(queue) = p /\ flash[s] \in {Erased, burn})
  BY <1>1, <1>3 DEF ErasePhase, ProgramPhase, AgainPhase, e, p
<1> QED
  BY <1>4, <1>5, <1>6, <1>7, <1>8, <1>9, <1>10

LEMMA ProgressIInv == ASSUME IInv, NorflashProgress PROVE IInv'
<1> USE DEF IInv, mirrorVars, flushVars
<1>1. TypeOK'
  BY ProgressTypeOK
<1>2. UNCHANGED <<on, ram, touches, is_update, state, burn, sync>> /\ queue # <<>> /\ on
  BY DEF NorflashProgress
<1>3. state \in {"MAIN_ERASED", "MAIN_WRITE_PENDING", "MAIN_WRITTEN", "BAK_ERASED",
                 "BAK_WRITE_PENDING", "BAK_WRITTEN"}
  BY <1>2 DEF BufferInv, TypeOK, NV_STATE
<1>4. CASE state \in {"MAIN_ERASED", "MAIN_WRITE_PENDING"}
  <2>1. ErasePhase("main")' /\ flash'["bak"] = flash["bak"] /\ queue' = <<>>
    BY <1>4, ProgressShape DEF BufferInv
  <2>2. flash'["main"] = Erased
    BY <2>1 DEF ErasePhase, Erase
  <2>3. formatted' = formatted
    BY <2>2, <1>4 DEF NorflashProgress, TypeOK
  <2> QED
    BY <1>1, <1>2, <1>4, <2>1, <2>2, <2>3
       DEF BufferInv, ThreadInv, BurnInv, CopyInv, UpdateInv, NoLostUpdate, Carried
<1>5. CASE state = "MAIN_WRITTEN"
  <2>1. ProgramPhase("main")' /\ flash'["bak"] = flash["bak"] /\ Head(queue).sec = "main"
        /\ (queue' # <<>> => flash'["main"] = Erased)
    BY <1>5, ProgressShape DEF BufferInv
  <2>2. CASE queue' = <<>>
    <3>1. flash'["main"] = burn /\ burn \in Values
      BY <1>2, <1>5, <2>1, <2>2 DEF ProgramPhase, BurnInv
    <3>2. formatted'
      BY <2>1, <3>1 DEF NorflashProgress
    <3> QED
      BY <1>1, <1>2, <1>5, <2>1, <2>2, <3>1, <3>2
         DEF BufferInv, ThreadInv, BurnInv, CopyInv, UpdateInv, NoLostUpdate, Carried
  <2>3. CASE queue' # <<>>
    <3>1. formatted' = formatted /\ flash'["main"] = Erased
      BY <2>1, <2>3 DEF NorflashProgress, TypeOK
    <3> QED
      BY <1>1, <1>2, <1>5, <2>1, <3>1
         DEF BufferInv, ThreadInv, BurnInv, CopyInv, UpdateInv, NoLostUpdate, Carried
  <2> QED
    BY <2>2, <2>3
<1>6. CASE state \in {"BAK_ERASED", "BAK_WRITE_PENDING", "BAK_WRITTEN"}
  <2>1. flash'["main"] = flash["main"] /\ BufferInv'
    BY <1>2, <1>6, ProgressShape DEF BufferInv
  <2>2. formatted /\ formatted'
    BY <1>2, <1>6 DEF CopyInv, BurnInv, ThreadInv, NorflashProgress
  <2> QED
    BY <1>1, <1>2, <1>6, <2>1, <2>2
       DEF ThreadInv, BurnInv, CopyInv, UpdateInv, NoLostUpdate, Carried
<1> QED
  BY <1>3, <1>4, <1>5, <1>6

-----------------------------------------------------------------------------
(* A step of the hook or of a synchronous flush is one of the steps above. *)
LEMMA AsyncStepIInv == ASSUME IInv, AsyncStep PROVE IInv'
<1>1. StageFrame
  BY DEF AsyncStep, AsyncFrame, StageFrame, nv_record_flash_flush_in_sleep
<1>2. sync = "none"
  BY DEF AsyncStep, nv_record_flash_flush_in_sleep
<1>3. CASE CopyMainToBurn({"BAK_ERASED"})
  BY <1>1, <1>3, CopyIInv DEF CopyMainToBurn
<1> QED
  BY <1>1, <1>2, <1>3, EraseMainIInv, SnapshotIInv, ProgramMainIInv, MainDrainedIInv,
     EraseBakIInv, ProgramBakIInv, BakDrainedIInv
     DEF AsyncStep, flush_main

LEMMA SyncIInv == ASSUME IInv, Sync PROVE IInv'
<1>1. CASE SyncMain
  <2>1. StageFrame
    BY <1>1 DEF SyncMain, SyncFrame, StageFrame, IInv, TypeOK
  <2> QED
    BY <1>1, <2>1, EraseMainIInv, SnapshotIInv, ProgramMainIInv, MainDrainedIInv
       DEF SyncMain, flush_main
<1>2. CASE SyncBak
  <2>1. sync' = sync => StageFrame
    BY <1>2 DEF SyncBak, SyncFrame, StageFrame, IInv, TypeOK
  <2> QED
    BY <1>2, <2>1, EraseBakIInv, CopyIInv, SyncProgramBakIInv DEF SyncBak
<1> QED
  BY <1>1, <1>2, SyncBakDrainedIInv, SyncReturnIInv DEF Sync

LEMMA StutterIInv == ASSUME IInv, UNCHANGED vars PROVE IInv'
BY DEF IInv, vars, mirrorVars, flushVars, TypeOK, BufferInv, ThreadInv, BurnInv, CopyInv,
       UpdateInv, NoLostUpdate, Carried, ErasePhase, ProgramPhase, AgainPhase

(* One step per action: IInv is preserved by every step.                   *)
LEMMA NextIInv == ASSUME IInv, [Next]_vars PROVE IInv'
<1>1. CASE Writers
  BY <1>1, WriteLockedIInv, WriteThenTouchIInv DEF Writers
<1>2. CASE Async
  BY <1>2, AsyncStepIInv, AsyncBufferFullIInv, AsyncNothingIInv DEF Async
<1>3. CASE Clear
  BY <1>3, SectorClearMainIInv, SectorClearBakIInv DEF Clear
<1> QED
  BY <1>1, <1>2, <1>3, BootIInv, PowerCutIInv, TouchIInv, TimerExpiresIInv, FlushIInv,
     SyncIInv, RebuildIInv, ProgressIInv, StutterIInv
     DEF Next

(* The invariant that ties the flush state to the driver's buffer and to   *)
(* the two sectors holds for every set of records.                         *)
THEOREM InductiveInvariant == Spec => []IInv
BY InitIInv, NextIInv, PTL DEF Spec

(* nv_record_extension_init finds a valid record after a power cut at any  *)
(* point, once one was stored.                                             *)
THEOREM OneGoodCopyHolds == Spec => []OneGoodCopy
<1>1. IInv => OneGoodCopy
  BY DEF IInv, CopyInv, OneGoodCopy
<1> QED
  BY <1>1, InductiveInvariant, PTL

(* No write of the mirror is forgotten by the handshake over is_update.    *)
THEOREM NoLostUpdateHolds == Spec => []NoLostUpdate
<1>1. IInv => NoLostUpdate
  BY DEF IInv, UpdateInv
<1> QED
  BY <1>1, InductiveInvariant, PTL

(* The driver never has operations on both sectors, and works on bak only  *)
(* while main is whole.                                                    *)
THEOREM OneSectorHolds == Spec => []OneSectorAtATime
<1>1. ASSUME IInv PROVE OneSectorAtATime
  <2>1. ASSUME NEW s \in Sectors, ErasePhase(s) \/ ProgramPhase(s) \/ AgainPhase(s)
        PROVE  \A i \in DOMAIN queue : queue[i].sec = s
    BY <2>1 DEF ErasePhase, ProgramPhase, AgainPhase, Erase, Program
  <2>2. CASE queue = <<>>
    BY <2>2 DEF OneSectorAtATime
  <2>3. CASE queue # <<>> /\ state \in {"MAIN_ERASED", "MAIN_WRITE_PENDING", "MAIN_WRITTEN"}
    BY <1>1, <2>1, <2>3 DEF IInv, BufferInv, OneSectorAtATime
  <2>4. CASE queue # <<>> /\ state \in {"BAK_ERASED", "BAK_WRITE_PENDING", "BAK_WRITTEN"}
    BY <1>1, <2>1, <2>4 DEF IInv, BufferInv, BurnInv, OneSectorAtATime
  <2> QED
    BY <1>1, <2>2, <2>3, <2>4 DEF IInv, BufferInv, TypeOK, NV_STATE
<1> QED
  BY <1>1, InductiveInvariant, PTL

(* A flush that ends leaves the same whole record in both sectors.         *)
THEOREM FlushEndsEqualHolds == Spec => FlushEndsEqual
<1> DEFINE A == (on /\ on' /\ state # "IDLE" /\ state' = "IDLE")
                  => flash["main"] = flash["bak"] /\ nv_record_data_is_valid("main")
<1>1. ASSUME IInv, [Next]_vars, on, on', state # "IDLE", state' = "IDLE"
      PROVE  state = "BAK_WRITTEN" /\ queue = <<>>
  BY <1>1
     DEF Next, vars, Writers, Async, Sync, Clear, nv_record_extension_init, PowerCut,
         WriteLocked, WriteThenTouch, nv_record_extension_update, AsyncStep,
         AsyncBufferFull, AsyncNothing, TimerExpires, nv_record_flash_flush, SyncMain,
         SyncBak, SyncBakDrained, SyncReturn, nv_record_sector_clear, SectorClearMain,
         SectorClearBak, NorflashProgress, flush_main, RequestErase, RequestProgram,
         SnapshotMirror, CopyMainToBurn, Drained, flushVars, SyncFrame, AsyncFrame
<1>2. ASSUME IInv, [Next]_vars PROVE A
  BY <1>1, <1>2 DEF IInv, BufferInv, BurnInv, ProgramPhase, AgainPhase
<1>3. IInv /\ [Next]_vars => [A]_vars
  BY <1>2
<1> QED
  BY <1>3, InductiveInvariant, PTL DEF Spec, FlushEndsEqual

(* nv_record_flash_flush returns with main equal to the mirror.            *)
THEOREM SyncFlushDurableHolds == Spec => SyncFlushDurable
<1> DEFINE A == (on /\ on' /\ sync = "flush" /\ sync' = "none" /\ touches = 0)
                  => flash["main"] = ram
<1>1. ASSUME IInv, [Next]_vars, on, on', sync = "flush", sync' = "none"
      PROVE  state = "IDLE" /\ ~is_update
  BY <1>1
     DEF Next, vars, Writers, Async, Sync, Clear, nv_record_extension_init, PowerCut,
         WriteLocked, WriteThenTouch, nv_record_extension_update, AsyncStep,
         AsyncBufferFull, AsyncNothing, TimerExpires, nv_record_flash_flush, SyncMain,
         SyncBak, SyncBakDrained, SyncReturn, nv_record_sector_clear, SectorClearMain,
         SectorClearBak, NorflashProgress, SyncFrame, AsyncFrame
<1>2. ASSUME IInv, [Next]_vars PROVE A
  BY <1>1, <1>2 DEF IInv, UpdateInv, NoLostUpdate, Carried
<1>3. IInv /\ [Next]_vars => [A]_vars
  BY <1>2
<1> QED
  BY <1>3, InductiveInvariant, PTL DEF Spec, SyncFlushDurable

-----------------------------------------------------------------------------
(* The refinement: one lemma per kind of step.                             *)

LEMMA StoreInit == ASSUME Init PROVE Store!Init
BY DEF Init, Store!Init, Durable, Spare, InFlight

(* What depends only on the sectors is unchanged when they are.            *)
LEMMA SameSectors ==
    ASSUME UNCHANGED flash
    PROVE  Durable' = Durable /\ Spare' = Spare
BY DEF Durable, Spare

LEMMA StoreBoot == ASSUME IInv, nv_record_extension_init PROVE Store!Boot
<1>1. ram' = Durable /\ on' /\ ~on /\ UNCHANGED flash
  BY DEF nv_record_extension_init, Durable
<1>2. InFlight' = InFlight /\ Clearing' = Clearing
  BY DEF nv_record_extension_init, InFlight, IInv, ThreadInv
<1> QED
  BY <1>1, <1>2, SameSectors DEF Store!Boot, nv_record_extension_init, IInv, TypeOK

LEMMA StorePowerCut == ASSUME IInv, PowerCut PROVE Store!PowerCut
<1>1. on /\ ~on' /\ UNCHANGED ram /\ InFlight' = Erased /\ ~Clearing'
  BY DEF PowerCut, InFlight, IInv, TypeOK
<1>2. PICK cut \in {"before", "during"} :
         flash' = [s \in Sectors |-> IF Busy(s) /\ cut = "during" THEN Torn ELSE flash[s]]
  BY DEF PowerCut
<1>3. Busy("bak") /\ ~Clearing => flash["main"] \in Values
  BY DEF Busy, IInv, BufferInv, BurnInv, ErasePhase, ProgramPhase, AgainPhase, Erase,
         Program, TypeOK, NV_STATE
<1>4. ~(Busy("main") /\ Busy("bak"))
  BY DEF Busy, IInv, ThreadInv, BufferInv
<1>5. /\ flash'["main"] = IF Busy("main") /\ cut = "during" THEN Torn ELSE flash["main"]
      /\ flash'["bak"] = IF Busy("bak") /\ cut = "during" THEN Torn ELSE flash["bak"]
  BY <1>2
<1>6. CASE Clearing
  <2>1. sync = "clear_bak" => flash["main"] = Erased
    BY DEF IInv, ThreadInv
  <2>2. Busy("main") <=> sync = "clear_main"
    BY <1>6 DEF Busy, IInv, ThreadInv, BufferInv
  <2>3. Busy("bak") <=> sync = "clear_bak"
    BY <1>6 DEF Busy, IInv, ThreadInv, BufferInv
  <2> QED
    BY <1>1, <1>5, <1>6, <2>1, <2>2, <2>3 DEF Store!PowerCut, Durable, Spare, PowerCut
<1>7. CASE ~Clearing
  <2>1. Busy("main") => (flash["main"] \notin Values \/ flash["bak"] \in Values)
    BY <1>7 DEF Busy, IInv, CopyInv, BufferInv, BurnInv, ErasePhase, ProgramPhase,
                AgainPhase, Erase, Program, TypeOK, NV_STATE, PowerCut
  <2>2. Durable' \in {Durable, Spare} /\ Spare' \in {Durable, Spare}
    BY <1>3, <1>4, <1>5, <1>7, <2>1 DEF Durable, Spare
  <2> QED
    BY <1>1, <2>2 DEF Store!PowerCut
<1> QED
  BY <1>6, <1>7

(* The steps of a flush move the record in flight and nothing else.        *)
LEMMA StoreStage ==
    ASSUME IInv, StageFrame,
           \/ flush_main
           \/ RequestErase("bak", {"MAIN_DONE", "BAK_ERASING"}, "BAK_ERASED")
           \/ CopyMainToBurn({"BAK_ERASED", "BAK_WRITTEN"})
           \/ RequestProgram("bak", "BAK_WRITE_PENDING", "BAK_WRITTEN")
           \/ Drained("BAK_WRITTEN", "IDLE")
    PROVE  [Store!Next]_(Store!vars)
<1>1. /\ Durable' = Durable /\ Spare' = Spare /\ on /\ on' = on /\ ram' = ram
      /\ Clearing' = Clearing
  BY SameSectors DEF StageFrame, mirrorVars
<1>2. InFlight' \in {InFlight, ram, Erased}
  BY DEF flush_main, RequestErase, RequestProgram, SnapshotMirror, CopyMainToBurn,
         Drained, InFlight
<1> QED
  BY <1>1, <1>2 DEF Store!Next, Store!vars, Store!Snapshot, Store!Settle

LEMMA StoreAsync == ASSUME IInv, Async PROVE [Store!Next]_(Store!vars)
<1>1. CASE AsyncStep
  <2>1. StageFrame
    BY <1>1 DEF AsyncStep, AsyncFrame, StageFrame, nv_record_flash_flush_in_sleep
  <2> QED
    BY <1>1, <2>1, StoreStage DEF AsyncStep, CopyMainToBurn
<1>2. CASE AsyncBufferFull \/ AsyncNothing
  <2>1. UNCHANGED <<on, ram, flash, sync, burn>> /\ InFlight' = InFlight
    BY <1>2 DEF AsyncBufferFull, AsyncNothing, AsyncFrame, mirrorVars, flushVars, InFlight
  <2> QED
    BY <2>1, SameSectors DEF Store!vars
<1> QED
  BY <1>1, <1>2 DEF Async

LEMMA StoreSync == ASSUME IInv, Sync PROVE [Store!Next]_(Store!vars)
<1>1. CASE SyncMain
  <2>1. StageFrame
    BY <1>1 DEF SyncMain, SyncFrame, StageFrame, IInv, TypeOK
  <2> QED
    BY <1>1, <2>1, StoreStage DEF SyncMain
<1>2. CASE SyncBak \/ SyncBakDrained \/ SyncReturn
  <2>1. UNCHANGED <<on, ram, flash>> /\ ~Clearing /\ ~Clearing' /\ InFlight' = InFlight
    BY <1>2 DEF SyncBak, SyncBakDrained, SyncReturn, SyncFrame, mirrorVars, flushVars,
                InFlight, RequestErase, CopyMainToBurn, RequestProgram, Drained
  <2> QED
    BY <2>1, SameSectors DEF Store!vars
<1> QED
  BY <1>1, <1>2 DEF Sync

LEMMA StoreClear == ASSUME IInv, Clear PROVE Store!Next
<1>1. CASE SectorClearMain
  <2>1. /\ flash' = [flash EXCEPT !["main"] = Erased] /\ flash \in [Sectors -> Contents]
        /\ UNCHANGED <<on, ram>> /\ on /\ Clearing /\ Clearing' /\ InFlight' = InFlight
    BY <1>1 DEF SectorClearMain, mirrorVars, flushVars, InFlight, IInv, TypeOK
  <2>2. flash["bak"] \in Values \/ flash["main"] \notin Values
    BY <1>1 DEF SectorClearMain, IInv, ThreadInv
  <2>3. Durable' = Spare /\ Spare' = Spare
    BY <2>1, <2>2 DEF Durable, Spare
  <2> QED
    BY <2>1, <2>3 DEF Store!Next, Store!Fallback
<1>2. ASSUME NEW v \in Values, SectorClearBak(v) PROVE Store!Forget
  <2>1. /\ flash'["main"] = Erased /\ flash'["bak"] = Erased
        /\ UNCHANGED on /\ on /\ ram' \in Values /\ Clearing /\ ~Clearing'
        /\ InFlight' = InFlight
    BY <1>2 DEF SectorClearBak, mirrorVars, flushVars, InFlight, IInv, TypeOK, ThreadInv
  <2> QED
    BY <2>1 DEF Store!Forget, Durable, Spare
<1> QED
  BY <1>1, <1>2 DEF Clear, Store!Next

(* Erasing main falls back to bak, programming it commits the record in    *)
(* flight; both operations on bak make main its own spare.                 *)
LEMMA StoreProgress == ASSUME IInv, NorflashProgress PROVE [Store!Next]_(Store!vars)
<1>1. /\ UNCHANGED <<on, ram, state, burn, sync>> /\ on /\ queue # <<>>
      /\ InFlight' = InFlight
  BY DEF NorflashProgress, mirrorVars, flushVars, InFlight
<1>2. IInv'
  BY ProgressIInv
<1>3. CASE state \in {"MAIN_ERASED", "MAIN_WRITE_PENDING"}
  <2>1. flash'["bak"] = flash["bak"] /\ flash'["main"] = Erased
    BY <1>3, ProgressShape DEF IInv, BufferInv, ErasePhase, Erase
  <2>2. flash["bak"] \in Values \/ flash["main"] \notin Values
    BY <1>1, <1>3 DEF IInv, CopyInv, ThreadInv
  <2>3. Durable' = Spare /\ Spare' = Spare
    BY <2>1, <2>2 DEF Durable, Spare
  <2> QED
    BY <1>1, <2>3 DEF Store!Next, Store!Fallback
<1>4. CASE state = "MAIN_WRITTEN"
  <2>1. /\ flash'["bak"] = flash["bak"] /\ ProgramPhase("main")'
        /\ (queue' # <<>> => flash'["main"] = Erased)
    BY <1>4, ProgressShape DEF IInv, BufferInv
  <2>2. InFlight = burn /\ burn \in Values
    BY <1>4 DEF InFlight, IInv, BurnInv
  <2>3. CASE queue' # <<>>
    <3>1. flash["bak"] \in Values \/ flash["main"] \notin Values
      BY <1>1, <1>4 DEF IInv, CopyInv, ThreadInv
    <3>2. Durable' = Spare /\ Spare' = Spare
      BY <2>1, <2>3, <3>1 DEF Durable, Spare
    <3> QED
      BY <1>1, <3>2 DEF Store!Next, Store!Fallback
  <2>4. CASE queue' = <<>>
    <3>1. flash'["main"] = burn
      BY <1>1, <2>1, <2>4 DEF ProgramPhase
    <3>2. Durable' = burn /\ Spare' \in {Spare, burn}
      BY <2>1, <2>2, <3>1 DEF Durable, Spare
    <3> QED
      BY <1>1, <2>2, <3>2 DEF Store!Next, Store!Commit
  <2> QED
    BY <2>3, <2>4
<1>5. CASE state \in {"BAK_ERASED", "BAK_WRITE_PENDING", "BAK_WRITTEN"}
  <2>1. flash'["main"] = flash["main"] /\ flash["main"] \in Values
    BY <1>1, <1>5, ProgressShape DEF IInv, BufferInv, BurnInv
  <2>2. flash'["bak"] \in {Erased, flash["main"]}
    <3>1. CASE state = "BAK_ERASED"
      BY <3>1, ProgressShape DEF IInv, BufferInv, ErasePhase, Erase
    <3>2. CASE state # "BAK_ERASED"
      BY <1>5, <3>2, ProgressShape DEF IInv, BufferInv, BurnInv
    <3> QED
      BY <3>1, <3>2
  <2>3. Durable' = Durable /\ Spare' = Durable
    BY <2>1, <2>2 DEF Durable, Spare
  <2> QED
    BY <1>1, <2>3 DEF Store!Next, Store!Mirror
<1> QED
  BY <1>1, <1>3, <1>4, <1>5 DEF IInv, BufferInv, TypeOK, NV_STATE

LEMMA StoreNext == ASSUME IInv, [Next]_vars PROVE [Store!Next]_(Store!vars)
<1>1. CASE Writers
  <2>1. ram' \in Values /\ UNCHANGED <<on, flash, state, burn, sync>> /\ on
    BY <1>1 DEF Writers, WriteLocked, WriteThenTouch, flushVars
  <2> QED
    BY <2>1, SameSectors DEF InFlight, Store!Next, Store!Write
<1>2. CASE nv_record_extension_update \/ TimerExpires \/ UNCHANGED vars
  <2>1. UNCHANGED <<on, ram, flash, state, burn, sync>>
    BY <1>2 DEF nv_record_extension_update, TimerExpires, vars, mirrorVars, flushVars
  <2> QED
    BY <2>1, SameSectors DEF InFlight, Store!vars
<1>3. CASE nv_record_flash_flush
  <2>1. UNCHANGED <<on, ram, flash, state, burn>> /\ ~Clearing /\ ~Clearing'
    BY <1>3 DEF nv_record_flash_flush, SyncFrame, mirrorVars, flushVars
  <2> QED
    BY <2>1, SameSectors DEF InFlight, Store!vars
<1>4. CASE nv_record_sector_clear
  <2>1. UNCHANGED <<on, ram, flash, state, burn>> /\ on /\ ~Clearing /\ Clearing'
    BY <1>4 DEF nv_record_sector_clear, mirrorVars, flushVars
  <2> QED
    BY <2>1, SameSectors DEF InFlight, Store!Next, Store!EraseAll
<1> QED
  BY <1>1, <1>2, <1>3, <1>4, StoreBoot, StorePowerCut, StoreAsync, StoreSync, StoreClear,
     StoreProgress DEF Next, Store!Next

(* NvRecord implements NvStore, for every set of records.                  *)
THEOREM Refinement == Spec => StoreRefined
<1>1. Init => Store!Init
  BY StoreInit
<1>2. IInv /\ [Next]_vars => [Store!Next]_(Store!vars)
  BY StoreNext
<1> QED
  BY <1>1, <1>2, InductiveInvariant, PTL DEF Spec, StoreRefined, Store!Spec
=============================================================================
