----------------------------- MODULE SleepProofs -----------------------------
(***************************************************************************)
(* Proofs about the frequency manager (SysFreq), about the applications'   *)
(* requests to it (AppSysFreq) and about the sleep manager and idle thread *)
(* on top of it (Sleep), for any users, frequencies, locks and handlers    *)
(* and both values of the build options.                                   *)
(*                                                                         *)
(* First the frequency manager.  The scan of its table is a CHOOSE:        *)
(* TopOfIsMax shows that what it looks for exists, from the principle that *)
(* a set of naturals has a least element.  The invariant IInv is then      *)
(* shown action by action.                                                 *)
(*                                                                         *)
(* Then the applications' requests (AppSysFreq), for any number of QoS     *)
(* users: the sum of what they want is a number (ArithmeticTheorems), and  *)
(* the scan of the table finds the least frequency that covers it.         *)
(*                                                                         *)
(* Then the sleep.  Every step of it is a step of the frequency manager or *)
(* leaves that alone, so that the manager's invariant carries over; the    *)
(* rest of the invariant is about the floor, the power unit, the units     *)
(* that are stopped and what the entry has found out.                      *)
(***************************************************************************)
EXTENDS Sleep, AppSysFreq, ArithmeticTheorems, SequenceTheorems, TLAPS

-----------------------------------------------------------------------------
(* The frequency manager.                                                  *)

(* The scan of hal_sysfreq_req ends at a user, and nobody asks for more.   *)
LEMMA TopOfIsMax ==
    ASSUME NEW table \in [Users -> Freqs]
    PROVE  /\ TopOf(table) \in Users
           /\ \A v \in Users : table[v] <= table[TopOf(table)]
<1> USE QtyAssumption DEF Users, Freqs
<1> DEFINE Slack == {FREQ_QTY - table[u] : u \in Users}
<1>1. 0 \in Users
  OBVIOUS
<1>2. Slack \in SUBSET Nat /\ Slack # {}
  BY <1>1
<1>3. PICK m \in Slack : \A k \in Slack : m <= k
  BY <1>2, LeastNat
<1>4. PICK a \in Users : m = FREQ_QTY - table[a]
  BY <1>3
<1>5. \A v \in Users : FREQ_QTY - table[v] \in Slack
  OBVIOUS
<1>6. \A v \in Users : FREQ_QTY - table[a] <= FREQ_QTY - table[v]
  BY <1>3, <1>4, <1>5
<1>7. \A v \in Users : table[v] <= table[a]
  BY <1>6
<1> DEFINE Best == {u \in Users : table[u] = table[a]}
<1>8a. a \in Best
  BY <1>4
<1>8b. Best \in SUBSET Nat
  OBVIOUS
<1>8. Best \in SUBSET Nat /\ Best # {}
  BY <1>8a, <1>8b
<1>9. PICK u \in Best : \A k \in Best : u <= k
  BY <1>8, LeastNat
<1>10. u \in Users /\ table[u] = table[a]
  BY <1>9
<1>11. \A v \in Users : table[v] <= table[u]
  BY <1>7, <1>10
<1>12. \A v \in Users : v < u => table[v] # table[u]
  BY <1>9, <1>10
<1>13. \A v \in Users : v < u => table[v] < table[u]
  BY <1>11, <1>12, <1>10
<1>14. \E x \in Users : \A v \in Users : /\ table[v] <= table[x]
                                         /\ v < x => table[v] < table[x]
  BY <1>10, <1>11, <1>13
<1> HIDE DEF Users, Freqs
<1> QED
  BY <1>14 DEF TopOf

-----------------------------------------------------------------------------
(* A frequency that is revised is one of the chip's, and no less than the  *)
(* floor, than 26M for "nothing", and than itself.                         *)
LEMMA ReviseBounds ==
    ASSUME NEW f \in Freqs, NEW m \in Freqs
    PROVE  /\ Revise(f, m) \in Freqs
           /\ Revise(f, m) >= m
           /\ Revise(f, m) >= f
           /\ f >= FREQ_26M /\ f >= m => Revise(f, m) = f
BY QtyAssumption, FreqAssumption DEF Revise, Freqs, FREQ_32K

(* Under the floors there are, a revised frequency needs the PLL exactly   *)
(* when the frequency itself does.                                         *)
LEMMA ReviseKeepsSide ==
    ASSUME NEW f \in Freqs, NEW m \in Floors
    PROVE  Revise(f, m) > FREQ_52M <=> f > FREQ_52M
BY QtyAssumption, FreqAssumption DEF Revise, Freqs, Floors, FREQ_32K

LEMMA FloorsAreFreqs == Floors \subseteq Freqs
BY QtyAssumption, FreqAssumption DEF Floors, Freqs, FREQ_32K

LEMMA InitIInv == Init => IInv
<1> SUFFICES ASSUME Init PROVE IInv
  OBVIOUS
<1> USE QtyAssumption, FreqAssumption DEF Init
<1>1. TypeOK
  <2>1. /\ top_user \in 0 .. USER_QTY
        /\ min_sysfreq \in Floors
        /\ clk \in Freqs /\ pmu \in Freqs /\ real_cur_freq \in Freqs
    BY DEF Freqs, Floors, FREQ_32K
  <2>2. sysfreq_per_user \in [Users -> Freqs]
    BY DEF Freqs, FREQ_32K
  <2>3. pll \in BOOLEAN /\ phase \in Phases
    BY DEF Phases
  <2> QED
    BY <2>1, <2>2, <2>3 DEF TypeOK
<1>2. TopIsMax
  BY DEF TopIsMax, hal_sysfreq_busy
<1>3. ClockServesAll
  BY DEF ClockServesAll, hal_sysfreq_get_hw_freq, Users, Freqs, FREQ_32K
<1>4. WriteInv
  BY DEF WriteInv
<1>5. PllMatches
  BY DEF PllMatches
<1> QED
  BY <1>1, <1>2, <1>3, <1>4, <1>5 DEF IInv

-----------------------------------------------------------------------------
(* With no write to make, the clock runs at what is asked for and nobody   *)
(* asks for more.                                                          *)
LEMMA AtRest ==
    ASSUME IInv, phase = "none"
    PROVE  /\ hal_sysfreq_get \in Freqs
           /\ top_user < USER_QTY =>
                 top_user \in Users /\ hal_sysfreq_get = sysfreq_per_user[top_user]
           /\ top_user >= USER_QTY => top_user = USER_QTY /\ hal_sysfreq_get = clk
           /\ clk = Revise(hal_sysfreq_get, min_sysfreq)
           /\ \A v \in Users : sysfreq_per_user[v] <= hal_sysfreq_get
<1> USE QtyAssumption, FreqAssumption
<1>1. /\ hal_sysfreq_get \in Freqs
      /\ top_user < USER_QTY =>
            top_user \in Users /\ hal_sysfreq_get = sysfreq_per_user[top_user]
      /\ top_user >= USER_QTY => top_user = USER_QTY /\ hal_sysfreq_get = clk
  BY DEF IInv, TypeOK, hal_sysfreq_get, Users
<1>2. min_sysfreq \in Freqs
  BY FloorsAreFreqs DEF IInv, TypeOK
<1>3. clk = Revise(hal_sysfreq_get, min_sysfreq)
  BY <1>1, <1>2, ReviseBounds
     DEF IInv, TypeOK, ClockServesAll, WriteInv, hal_sysfreq_get_hw_freq,
         hal_sysfreq_revise_freq
<1>4. \A v \in Users : sysfreq_per_user[v] <= hal_sysfreq_get
  <2>1. CASE top_user < USER_QTY
    BY <1>1, <2>1 DEF IInv, TopIsMax
  <2>2. CASE top_user >= USER_QTY
    BY <1>1, <2>2 DEF IInv, TypeOK, TopIsMax, hal_sysfreq_busy, FREQ_32K, Freqs
  <2> QED
    BY <2>1, <2>2 DEF IInv, TypeOK
<1> QED
  BY <1>1, <1>3, <1>4

(* The branches of hal_sysfreq_req.  In each the table changes in one      *)
(* place, top_user names a maximum of the new table, and the writes that   *)
(* are started are in the order for the direction of the change.           *)
LEMMA RequestServes ==
    ASSUME IInv, NEW user \in Users, NEW freq \in Freqs, hal_sysfreq_req(user, freq),
           NEW table, table = [sysfreq_per_user EXCEPT ![user] = freq],
           NEW cur, cur = hal_sysfreq_get
    PROVE  /\ sysfreq_per_user' = table
           /\ table \in [Users -> Freqs]
           /\ phase = "none" /\ UNCHANGED <<min_sysfreq, clk, pmu, pll>>
           /\ top_user' \in Users
           /\ \A v \in Users : table[v] <= table[top_user']
           /\ phase' \in {"none", "raise_pmu", "lower_clk"}
           /\ phase' = "none" =>
                 /\ Revise(table[top_user'], min_sysfreq) = Revise(cur, min_sysfreq)
                 /\ real_cur_freq' = real_cur_freq
           /\ phase' # "none" => real_cur_freq' = Revise(cur, min_sysfreq)
           /\ phase' = "raise_pmu" => table[top_user'] >= cur
           /\ phase' = "lower_clk" => table[top_user'] <= cur
<1> USE QtyAssumption, FreqAssumption
<1>1. /\ sysfreq_per_user' = table
      /\ table \in [Users -> Freqs]
      /\ phase = "none" /\ UNCHANGED <<min_sysfreq, hwClock>>
      /\ \A v \in Users : table[v] = IF v = user THEN freq ELSE sysfreq_per_user[v]
  BY DEF hal_sysfreq_req, Serve, ReqEqual, ReqMore, ReqLessTop, ReqLessFirst,
         ReqLessOther, IInv, TypeOK
<1>1a. UNCHANGED <<clk, pmu, pll>> /\ min_sysfreq' = min_sysfreq
  BY <1>1 DEF hwClock
<1>2. /\ cur \in Freqs
      /\ top_user < USER_QTY => top_user \in Users /\ cur = sysfreq_per_user[top_user]
      /\ top_user >= USER_QTY => top_user = USER_QTY /\ cur = clk
  BY <1>1, AtRest
<1>4. \A v \in Users : sysfreq_per_user[v] <= cur
  BY <1>1, AtRest
<1>5. /\ top_user' \in Users
      /\ \A v \in Users : table[v] <= table[top_user']
      /\ phase' \in {"none", "raise_pmu", "lower_clk"}
      /\ phase' = "none" =>
            /\ Revise(table[top_user'], min_sysfreq) = Revise(cur, min_sysfreq)
            /\ real_cur_freq' = real_cur_freq
      /\ phase' # "none" => real_cur_freq' = Revise(cur, min_sysfreq)
      /\ phase' = "raise_pmu" => table[top_user'] >= cur
      /\ phase' = "lower_clk" => table[top_user'] <= cur
  <2>1. CASE ReqEqual(user, freq)
    BY <1>1, <1>2, <1>4, <2>1 DEF ReqEqual, IInv, TypeOK, Freqs, writeVars
  <2>2. CASE ReqMore(user, freq)
    BY <1>1, <1>2, <1>4, <2>2
       DEF ReqMore, Retarget, hal_sysfreq_revise_freq, IInv, TypeOK, Freqs, writeVars
  <2>3. CASE ReqLessTop(user, freq)
    <3>1. /\ top_user' \in Users
          /\ \A v \in Users : table[v] <= table[top_user']
      BY <1>1, <2>3, TopOfIsMax DEF ReqLessTop
    <3>2. \A v \in Users : table[v] <= cur
      BY <1>1, <1>2, <1>4, <2>3 DEF ReqLessTop, IInv, TypeOK, Freqs
    <3> QED
      BY <1>1, <2>3, <3>1, <3>2
         DEF ReqLessTop, Retarget, hal_sysfreq_revise_freq, writeVars
  <2>4. CASE ReqLessFirst(user, freq)
    <3>1. \A v \in Users : sysfreq_per_user[v] = 0
      BY <2>4, <1>1 DEF ReqLessFirst, IInv, TypeOK, TopIsMax, hal_sysfreq_busy, FREQ_32K
    <3> QED
      BY <1>1, <1>2, <2>4, <3>1
         DEF ReqLessFirst, Retarget, hal_sysfreq_revise_freq, IInv, TypeOK, Freqs, writeVars
  <2>5. CASE ReqLessOther(user, freq)
    <3>1. /\ top_user \in Users /\ top_user # user /\ top_user' = top_user
          /\ phase' = phase /\ real_cur_freq' = real_cur_freq
      BY <2>5, <1>2 DEF ReqLessOther, IInv, TypeOK, Users, writeVars
    <3>2. table[top_user] = cur /\ freq <= cur
      BY <2>5, <3>1, <1>1, <1>2 DEF ReqLessOther, Users, Freqs
    <3> QED
      BY <1>1, <1>4, <3>1, <3>2 DEF IInv, TypeOK, Freqs
  <2> QED
    BY <2>1, <2>2, <2>3, <2>4, <2>5 DEF hal_sysfreq_req, Serve
<1> QED
  BY <1>1, <1>1a, <1>5

LEMMA RequestIInv ==
    ASSUME IInv, NEW user \in Users, NEW freq \in Freqs, hal_sysfreq_req(user, freq)
    PROVE  IInv'
<1> USE QtyAssumption, FreqAssumption
<1>a. PICK table : table = [sysfreq_per_user EXCEPT ![user] = freq]
  OBVIOUS
<1>b. PICK cur : cur = hal_sysfreq_get
  OBVIOUS
<1>1. /\ sysfreq_per_user' = table
      /\ table \in [Users -> Freqs]
      /\ phase = "none"
  BY <1>a, <1>b, RequestServes
<1>1a. UNCHANGED <<clk, pmu, pll>> /\ min_sysfreq' = min_sysfreq
  BY <1>a, <1>b, RequestServes
<1>1b. min_sysfreq \in Floors /\ min_sysfreq \in Freqs
  BY FloorsAreFreqs DEF IInv, TypeOK
<1>2. cur \in Freqs
  BY <1>1, <1>b, AtRest
<1>3. clk = Revise(cur, min_sysfreq)
  BY <1>1, <1>b, AtRest
<1>5. /\ top_user' \in Users
      /\ \A v \in Users : table[v] <= table[top_user']
      /\ phase' \in {"none", "raise_pmu", "lower_clk"}
      /\ phase' = "none" =>
            /\ Revise(table[top_user'], min_sysfreq) = Revise(cur, min_sysfreq)
            /\ real_cur_freq' = real_cur_freq
      /\ phase' # "none" => real_cur_freq' = Revise(cur, min_sysfreq)
      /\ phase' = "raise_pmu" => table[top_user'] >= cur
      /\ phase' = "lower_clk" => table[top_user'] <= cur
  BY <1>a, <1>b, RequestServes
<1>6. TypeOK'
  BY <1>1, <1>1a, <1>3, <1>5 DEF IInv, TypeOK, Users, Phases
<1>7. top_user' < USER_QTY
  BY <1>5 DEF Users
<1>8. TopIsMax'
  BY <1>1, <1>5, <1>7 DEF TopIsMax
<1>9. ClockServesAll'
  <2> SUFFICES ASSUME phase' = "none"
               PROVE  /\ clk' = hal_sysfreq_get_hw_freq'
                      /\ clk' >= min_sysfreq'
                      /\ \A u \in Users : clk' >= sysfreq_per_user'[u]
    BY DEF ClockServesAll
  <2>1. clk = Revise(table[top_user'], min_sysfreq)
    BY <1>3, <1>5
  <2>2. clk' = hal_sysfreq_get_hw_freq'
    BY <1>1, <1>1a, <1>7, <2>1 DEF hal_sysfreq_get_hw_freq, hal_sysfreq_revise_freq
  <2>3. table[top_user'] \in Freqs /\ min_sysfreq \in Freqs
    BY <1>1, <1>1b, <1>5
  <2>4. clk >= min_sysfreq /\ clk >= table[top_user']
    BY <2>1, <2>3, ReviseBounds
  <2>5. \A u \in Users : clk >= table[u]
    BY <2>4, <2>3, <1>1, <1>5 DEF IInv, TypeOK, Freqs
  <2> QED
    BY <1>1, <1>1a, <2>2, <2>4, <2>5
<1>10. /\ clk > FREQ_52M <=> cur > FREQ_52M
       /\ hal_sysfreq_get_hw_freq' > FREQ_52M <=> table[top_user'] > FREQ_52M
  <2>1. table[top_user'] \in Freqs
    BY <1>1, <1>5
  <2>2. hal_sysfreq_get_hw_freq' = Revise(table[top_user'], min_sysfreq)
    BY <1>1, <1>1a, <1>7 DEF hal_sysfreq_get_hw_freq, hal_sysfreq_revise_freq
  <2> QED
    BY <1>1b, <1>2, <1>3, <2>1, <2>2, ReviseKeepsSide
<1>11. pll <=> clk > FREQ_52M
  BY <1>1 DEF IInv, PllMatches
<1>12. PllMatches'
  BY <1>1a, <1>11 DEF PllMatches
<1>13. /\ phase' = "raise_pmu" => (clk > FREQ_52M => hal_sysfreq_get_hw_freq' > FREQ_52M)
       /\ phase' = "lower_clk" => (hal_sysfreq_get_hw_freq' > FREQ_52M => clk > FREQ_52M)
  <2>1. table[top_user'] \in Freqs
    BY <1>1, <1>5
  <2> QED
    BY <1>2, <1>5, <1>10, <2>1 DEF Freqs
<1>14. WriteInv'
  BY <1>1a, <1>3, <1>5, <1>7, <1>11, <1>13 DEF WriteInv
<1> QED
  BY <1>6, <1>8, <1>9, <1>12, <1>14 DEF IInv

-----------------------------------------------------------------------------
(* The writes that end a request.                                          *)
LEMMA ClockWriteIInv ==
    ASSUME IInv, ClockWrite
    PROVE  IInv'
<1> USE QtyAssumption, FreqAssumption
<1>1. /\ UNCHANGED <<reqVars, min_sysfreq>>
      /\ phase # "none"
  BY DEF ClockWrite, hal_cmu_sys_set_freq, pmu_sys_freq_config,
         hal_cmu_low_freq_mode_disable, hal_cmu_low_freq_mode_enable, WriteThen
<1>2. top_user \in Users /\ top_user < USER_QTY
  BY <1>1 DEF IInv, TypeOK, WriteInv, Users
<1> DEFINE real == Revise(sysfreq_per_user[top_user], min_sysfreq)
<1>3. /\ hal_sysfreq_get_hw_freq = real
      /\ hal_sysfreq_get_hw_freq' = real
  BY <1>1, <1>2 DEF hal_sysfreq_get_hw_freq, hal_sysfreq_revise_freq, reqVars
<1>4. /\ real \in Freqs
      /\ real >= min_sysfreq
      /\ \A u \in Users : real >= sysfreq_per_user[u]
  <2>1. /\ sysfreq_per_user[top_user] \in Freqs
        /\ min_sysfreq \in Freqs
    BY <1>2, FloorsAreFreqs DEF IInv, TypeOK
  <2>2. real \in Freqs /\ real >= min_sysfreq /\ real >= sysfreq_per_user[top_user]
    BY <2>1, ReviseBounds
  <2> HIDE DEF real
  <2> QED
    BY <1>2, <2>1, <2>2 DEF IInv, TypeOK, TopIsMax, Freqs
<1> HIDE DEF real
<1>5. TopIsMax'
  BY <1>1 DEF IInv, TopIsMax, hal_sysfreq_busy, reqVars
<1>6. ASSUME TypeOK', phase' \in {"none", "lower_pll", "lower_pmu"} => clk' = real,
             PllMatches', WriteInv'
      PROVE  IInv'
  <2>1. ClockServesAll'
    BY <1>1, <1>3, <1>4, <1>6 DEF ClockServesAll, reqVars
  <2> QED
    BY <1>5, <1>6, <2>1 DEF IInv
<1>7. CASE hal_cmu_sys_set_freq
  <2>1. /\ clk' = real /\ pmu' = pmu /\ pll' = pll
        /\ phase = "raise_clk" => phase' = "none" /\ real_cur_freq' = FREQ_32K
        /\ phase = "lower_clk" => phase' = "lower_pll" /\ real_cur_freq' = real_cur_freq
        /\ phase \in {"raise_clk", "lower_clk"}
    BY <1>3, <1>7 DEF hal_cmu_sys_set_freq, WriteThen
  <2>2. TypeOK'
    BY <1>1, <1>4, <2>1 DEF IInv, TypeOK, Phases, FREQ_32K, Freqs, reqVars
  <2>3. PllMatches'
    BY <1>3, <2>1 DEF IInv, TypeOK, WriteInv, PllMatches, Freqs
  <2>4. WriteInv'
    BY <1>1, <1>2, <1>3, <2>1 DEF IInv, WriteInv, reqVars
  <2> QED
    BY <1>6, <2>1, <2>2, <2>3, <2>4
<1>8. CASE pmu_sys_freq_config
  <2>1. /\ clk' = clk /\ pmu' = real /\ pll' = pll
        /\ phase = "raise_pmu" => phase' = "raise_pll" /\ real_cur_freq' = real_cur_freq
        /\ phase = "lower_pmu" => phase' = "none" /\ real_cur_freq' = FREQ_32K
        /\ phase \in {"raise_pmu", "lower_pmu"}
    BY <1>3, <1>8 DEF pmu_sys_freq_config, WriteThen
  <2>2. TypeOK'
    BY <1>1, <1>4, <2>1 DEF IInv, TypeOK, Phases, FREQ_32K, Freqs, reqVars
  <2>3. PllMatches'
    BY <1>3, <2>1 DEF IInv, WriteInv, PllMatches
  <2>4. WriteInv'
    BY <1>1, <1>2, <1>3, <2>1 DEF IInv, WriteInv, reqVars
  <2>5. phase' \in {"none", "lower_pll", "lower_pmu"} => clk' = real
    BY <1>3, <2>1 DEF IInv, WriteInv
  <2> QED
    BY <1>6, <2>2, <2>3, <2>4, <2>5
<1>9. CASE hal_cmu_low_freq_mode_disable
  <2>1. /\ clk' = clk /\ pmu' = pmu /\ real_cur_freq' = real_cur_freq
        /\ phase = "raise_pll" /\ phase' = "raise_clk"
        /\ pll' = IF real_cur_freq <= FREQ_52M /\ real > FREQ_52M THEN TRUE ELSE pll
    BY <1>3, <1>9 DEF hal_cmu_low_freq_mode_disable, WriteThen
  <2>2. /\ pll <=> clk > FREQ_52M
        /\ real_cur_freq = clk
        /\ clk > FREQ_52M => real > FREQ_52M
    BY <1>3, <2>1 DEF IInv, WriteInv
  <2>3. clk \in Nat /\ real \in Nat
    BY <1>4 DEF IInv, TypeOK, Freqs
  <2>4. pll' <=> real > FREQ_52M
    BY <2>1, <2>2, <2>3
  <2>5. TypeOK'
    BY <1>1, <2>1 DEF IInv, TypeOK, Phases, reqVars
  <2>6. PllMatches'
    BY <2>1, <2>2, <2>4 DEF PllMatches
  <2>7. WriteInv'
    BY <1>1, <1>2, <1>3, <2>1, <2>2, <2>4 DEF WriteInv, reqVars
  <2> QED
    BY <1>6, <2>1, <2>5, <2>6, <2>7
<1>10. CASE hal_cmu_low_freq_mode_enable
  <2>1. /\ clk' = clk /\ pmu' = pmu /\ real_cur_freq' = real_cur_freq
        /\ phase = "lower_pll" /\ phase' = "lower_pmu"
        /\ pll' = IF real_cur_freq > FREQ_52M /\ real <= FREQ_52M THEN FALSE ELSE pll
    BY <1>3, <1>10 DEF hal_cmu_low_freq_mode_enable, WriteThen
  <2>2. /\ pll <=> real_cur_freq > FREQ_52M
        /\ clk = real
        /\ real > FREQ_52M => real_cur_freq > FREQ_52M
    BY <1>3, <2>1 DEF IInv, WriteInv
  <2>3. real_cur_freq \in Nat /\ real \in Nat
    BY <1>4 DEF IInv, TypeOK, Freqs
  <2>4. pll' <=> real > FREQ_52M
    BY <2>1, <2>2, <2>3
  <2>5. TypeOK'
    BY <1>1, <2>1 DEF IInv, TypeOK, Phases, reqVars
  <2>6. PllMatches'
    BY <2>1, <2>2, <2>4 DEF PllMatches
  <2>7. WriteInv'
    BY <1>1, <1>2, <1>3, <2>1, <2>2, <2>4 DEF WriteInv, reqVars
  <2> QED
    BY <1>6, <2>1, <2>2, <2>5, <2>6, <2>7
<1> QED
  BY <1>7, <1>8, <1>9, <1>10 DEF ClockWrite

-----------------------------------------------------------------------------
(* A new floor.                                                            *)
LEMMA SetMinIInv ==
    ASSUME IInv, NEW freq \in Floors, hal_sysfreq_set_min_freq(freq)
    PROVE  IInv'
<1> DEFINE cur == hal_sysfreq_get
           real == Revise(cur, freq)
<1> USE QtyAssumption, FreqAssumption
<1>1b. min_sysfreq \in Floors /\ min_sysfreq \in Freqs /\ freq \in Freqs
  BY FloorsAreFreqs DEF IInv, TypeOK
<1>1. /\ UNCHANGED <<reqVars, pmu, pll, writeVars>> /\ phase = "none" /\ min_sysfreq' = freq
      /\ clk' = IF Revise(cur, min_sysfreq) # real THEN real ELSE clk
  BY DEF hal_sysfreq_set_min_freq, hal_sysfreq_revise_freq
<1>2. /\ cur \in Freqs
      /\ top_user < USER_QTY => top_user \in Users /\ cur = sysfreq_per_user[top_user]
      /\ top_user >= USER_QTY => top_user = USER_QTY /\ cur = clk
  BY <1>1, AtRest
<1>3. clk = Revise(cur, min_sysfreq)
  BY <1>1, AtRest
<1>4. clk' = real
  BY <1>1, <1>3
<1>5. real \in Freqs /\ real >= freq /\ real >= cur
  BY <1>1b, <1>2, ReviseBounds
<1>5a. clk' > FREQ_52M <=> clk > FREQ_52M
  BY <1>1b, <1>2, <1>3, <1>4, ReviseKeepsSide
<1>6. \A v \in Users : sysfreq_per_user[v] <= cur
  BY <1>1, AtRest
<1> HIDE DEF cur, real
<1>7. TypeOK'
  BY <1>1, <1>4, <1>5 DEF IInv, TypeOK, reqVars, writeVars
<1>8. TopIsMax'
  BY <1>1 DEF IInv, TopIsMax, hal_sysfreq_busy, reqVars
<1>9. clk' = hal_sysfreq_get_hw_freq'
  BY <1>1, <1>2, <1>4 DEF hal_sysfreq_get_hw_freq, hal_sysfreq_revise_freq, reqVars, real
<1>10. \A u \in Users : clk' >= sysfreq_per_user[u]
  BY <1>2, <1>4, <1>5, <1>6 DEF IInv, TypeOK, Freqs
<1>11. ClockServesAll'
  BY <1>1, <1>4, <1>5, <1>9, <1>10 DEF ClockServesAll, reqVars
<1>11a. PllMatches'
  BY <1>1, <1>5a DEF IInv, PllMatches, writeVars
<1>12. WriteInv'
  <2>1. top_user = USER_QTY => clk' >= clk
    BY <1>2, <1>4, <1>5
  <2> QED
    BY <1>1, <2>1, <1>5, <1>4 DEF IInv, WriteInv, TypeOK, Freqs, reqVars, writeVars
<1> QED
  BY <1>7, <1>8, <1>11, <1>11a, <1>12 DEF IInv

LEMMA StutterIInv ==
    ASSUME IInv, UNCHANGED vars
    PROVE  IInv'
BY DEF IInv, TypeOK, TopIsMax, ClockServesAll, PllMatches, WriteInv, hal_sysfreq_busy,
       hal_sysfreq_get_hw_freq, hal_sysfreq_revise_freq, vars, reqVars, hwClock, writeVars

-----------------------------------------------------------------------------
LEMMA NextIInv == IInv /\ [Next]_vars => IInv'
<1> SUFFICES ASSUME IInv, [Next]_vars PROVE IInv'
  OBVIOUS
<1>1. CASE \E user \in 0 .. USER_QTY, freq \in 0 .. FREQ_QTY : hal_sysfreq_req(user, freq)
  <2>1. PICK user \in 0 .. USER_QTY, freq \in 0 .. FREQ_QTY : hal_sysfreq_req(user, freq)
    BY <1>1
  <2>2. user \in Users /\ freq \in Freqs
    BY <2>1, QtyAssumption DEF hal_sysfreq_req, Users, Freqs
  <2> QED
    BY <2>1, <2>2, RequestIInv
<1>2. CASE ClockWrite
  BY <1>2, ClockWriteIInv
<1>3. CASE \E freq \in Floors : hal_sysfreq_set_min_freq(freq)
  BY <1>3, SetMinIInv
<1>4. CASE \E freq \in Floors : hal_sysfreq_inc_min_freq(freq)
  <2>1. PICK freq \in Floors : hal_sysfreq_inc_min_freq(freq)
    BY <1>4
  <2> QED
    BY <2>1, SetMinIInv, StutterIInv DEF hal_sysfreq_inc_min_freq
<1>5. CASE UNCHANGED vars
  BY <1>5, StutterIInv
<1> QED
  BY <1>1, <1>2, <1>3, <1>4, <1>5 DEF Next

(* IInv holds in every state the frequency manager reaches, for any number *)
(* of users and frequencies and any order of calls.                        *)
THEOREM InductiveInvariant == Spec => []IInv
<1>1. Init => IInv
  BY InitIInv
<1>2. IInv /\ [Next]_vars => IInv'
  BY NextIInv
<1> QED
  BY <1>1, <1>2, PTL DEF Spec

(* hal_sysfreq_req never loses the maximum of the requests.                *)
THEOREM TopIsMaxHolds == Spec => []TopIsMax
<1>1. IInv => TopIsMax
  BY DEF IInv
<1> QED
  BY <1>1, InductiveInvariant, PTL

(* The clock runs at what hal_sysfreq_get_hw_freq reports, and no user and *)
(* no floor has less than it asked for.                                    *)
THEOREM ClockServesAllHolds == Spec => []ClockServesAll
<1>1. IInv => ClockServesAll
  BY DEF IInv
<1> QED
  BY <1>1, InductiveInvariant, PTL

(* No clock above 52M runs without the PLL, at any step of a request, and  *)
(* no PLL without such a clock once the request is over.                   *)
THEOREM PllMatchesHolds == Spec => []PllMatches
<1>1. IInv => PllMatches
  BY DEF IInv
<1> QED
  BY <1>1, InductiveInvariant, PTL

-----------------------------------------------------------------------------
(* The applications' requests.  ChipAssumption, which fixes the table of   *)
(* frequencies, is cited here and nowhere else.                            *)

(* The tables of frequencies, entry by entry.                              *)
LEMMA FreqMapEntries ==
    /\ freq_map(0) = 0 /\ freq_map(1) = 0 /\ freq_map(2) = 0 /\ freq_map(3) = 26
    /\ freq_map(4) = 52 /\ freq_map(5) = 78 /\ freq_map(6) = 104 /\ freq_map(7) = 0
    /\ freq_map(8) = 208
BY DEF freq_map

(* What the clock gives, for the frequencies an application can name.      *)
LEMMA RealMHzEntries ==
    /\ RealMHz(0) = 0 /\ RealMHz(3) = 26 /\ RealMHz(4) = 52 /\ RealMHz(5) = 78
    /\ RealMHz(6) = 104 /\ RealMHz(8) = 208
BY DEF RealMHz

(* Where an application can name a frequency, the table is right.          *)
LEMMA MapIsReal ==
    ASSUME NEW f \in AppFreqs
    PROVE  freq_map(f) = RealMHz(f) /\ freq_map(f) \in 0 .. 208
BY FreqMapEntries, RealMHzEntries DEF AppFreqs

(* Its sums are those of what the clock really gives.                      *)
LEMMA SumIsReal ==
    ASSUME NEW wants \in [QosUsers -> AppFreqs]
    PROVE  /\ max_qos_freq(wants) \in Nat
           /\ max_qos_freq(wants) = SumFunction([q \in QosUsers |-> RealMHz(wants[q])])
<1> DEFINE g == [q \in QosUsers |-> freq_map(wants[q])]
           h == [q \in QosUsers |-> RealMHz(wants[q])]
<1>1. \A q \in QosUsers : wants[q] \in AppFreqs
  OBVIOUS
<1>2. \A q \in QosUsers : freq_map(wants[q]) = RealMHz(wants[q]) /\ freq_map(wants[q]) \in 0 .. 208
  BY <1>1, MapIsReal
<1>3. g = h
  BY <1>2, Zenon
<1>4. SumFunction(g) = SumOver(g, QosUsers)
  <2>1. DOMAIN g = QosUsers
    OBVIOUS
  <2> QED
    BY <2>1, SumFunctionIsSum, Zenon
<1>5. \A q \in QosUsers : g[q] \in 0 .. 208
  BY <1>2
<1>6. SumOver(g, QosUsers) \in Nat
  <2> HIDE DEF g
  <2>1. IsFiniteSet(QosUsers)
    BY UserAssumption
  <2> QED
    BY <1>5, <2>1, SumBound
<1> QED
  BY <1>3, <1>4, <1>6, Zenon DEF max_qos_freq

(* Nobody who asks for nothing adds anything.                              *)
LEMMA SumOfNothing == max_qos_freq([q \in QosUsers |-> FREQ_32K]) = 0
<1> DEFINE g == [q \in QosUsers |-> freq_map([p \in QosUsers |-> FREQ_32K][q])]
<1>1. \A q \in QosUsers : g[q] \in 0 .. 0
  BY FreqMapEntries DEF FREQ_32K
<1>2. SumFunction(g) = SumOver(g, QosUsers)
  <2>1. DOMAIN g = QosUsers
    OBVIOUS
  <2> QED
    BY <2>1, SumFunctionIsSum, Zenon
<1>3. SumOver(g, QosUsers) = 0
  <2> HIDE DEF g
  <2>1. IsFiniteSet(QosUsers) /\ Cardinality(QosUsers) \in Nat
    BY UserAssumption, FS_CardinalityType
  <2>2. SumOver(g, QosUsers) \in Nat /\ SumOver(g, QosUsers) <= 0 * Cardinality(QosUsers)
    BY <1>1, <2>1, SumBound
  <2> QED
    BY <2>1, <2>2
<1> QED
  BY <1>2, <1>3, Zenon DEF max_qos_freq

(* The scan of freq_map, for a sum of mhz: although the entry of 144M is a *)
(* hole in the table, it ends at the least frequency an application can    *)
(* name that covers the sum.                                               *)
Enough(mhz) == {f \in AppFreqs : RealMHz(f) >= mhz}

LEMMA ScanIsLeast ==
    ASSUME NEW mhz \in Nat
    PROVE  /\ qos_freq_num(mhz) = IF Enough(mhz) = {} THEN FREQ_QTY - 1 ELSE Min(Enough(mhz))
           /\ qos_freq_num(mhz) \in Freqs
<1>1. Freqs = {0, 1, 2, 3, 4, 5, 6, 7, 8} /\ FREQ_QTY - 1 = 8
  BY ChipAssumption DEF Freqs
<1>2. /\ 0 \in Covering(mhz) <=> mhz = 0
      /\ 1 \notin Covering(mhz) /\ 2 \notin Covering(mhz) /\ 7 \notin Covering(mhz)
      /\ 3 \in Covering(mhz) <=> 0 < mhz /\ mhz <= 26
      /\ 4 \in Covering(mhz) <=> 26 < mhz /\ mhz <= 52
      /\ 5 \in Covering(mhz) <=> 52 < mhz /\ mhz <= 78
      /\ 6 \in Covering(mhz) <=> 78 < mhz /\ mhz <= 104
      /\ 8 \in Covering(mhz) <=> 0 < mhz /\ mhz <= 208
  BY <1>1, FreqMapEntries DEF Covering
<1>3. Covering(mhz) \subseteq {0, 3, 4, 5, 6, 8}
  BY <1>1, <1>2 DEF Covering
<1>4. /\ Enough(mhz) \subseteq {0, 3, 4, 5, 6, 8}
      /\ 0 \in Enough(mhz) <=> mhz = 0
      /\ 3 \in Enough(mhz) <=> mhz <= 26
      /\ 4 \in Enough(mhz) <=> mhz <= 52
      /\ 5 \in Enough(mhz) <=> mhz <= 78
      /\ 6 \in Enough(mhz) <=> mhz <= 104
      /\ 8 \in Enough(mhz) <=> mhz <= 208
  BY RealMHzEntries DEF Enough, AppFreqs
<1>5. CASE mhz > 208
  <2>1. Covering(mhz) = {} /\ Enough(mhz) = {}
    BY <1>2, <1>3, <1>4, <1>5
  <2> QED
    BY <1>1, <2>1 DEF qos_freq_num
<1>6. CASE mhz <= 208
  <2>1. \E m \in {0, 3, 4, 5, 6, 8} :
          /\ m \in Covering(mhz) /\ \A k \in Covering(mhz) : m <= k
          /\ m \in Enough(mhz) /\ \A k \in Enough(mhz) : m <= k
    <3>1. CASE mhz = 0
      <4>1. 0 \in Covering(mhz) /\ 0 \in Enough(mhz)
        BY <1>2, <1>4, <3>1
      <4>2. \A k \in {0, 3, 4, 5, 6, 8} : 0 <= k
        OBVIOUS
      <4> QED
        BY <1>3, <1>4, <4>1, <4>2
    <3>2. CASE 0 < mhz /\ mhz <= 26
      <4>1. 3 \in Covering(mhz) /\ 3 \in Enough(mhz) /\ 0 \notin Covering(mhz) /\ 0 \notin Enough(mhz)
        BY <1>2, <1>4, <3>2
      <4> QED
        BY <1>3, <1>4, <4>1
    <3>3. CASE 26 < mhz /\ mhz <= 52
      <4>1. /\ 4 \in Covering(mhz) /\ Covering(mhz) \cap {0, 3} = {}
            /\ 4 \in Enough(mhz) /\ Enough(mhz) \cap {0, 3} = {}
        BY <1>2, <1>4, <3>3
      <4> QED
        BY <1>3, <1>4, <4>1
    <3>4. CASE 52 < mhz /\ mhz <= 78
      <4>1. /\ 5 \in Covering(mhz) /\ Covering(mhz) \cap {0, 3, 4} = {}
            /\ 5 \in Enough(mhz) /\ Enough(mhz) \cap {0, 3, 4} = {}
        BY <1>2, <1>4, <3>4
      <4> QED
        BY <1>3, <1>4, <4>1
    <3>5. CASE 78 < mhz /\ mhz <= 104
      <4>1. /\ 6 \in Covering(mhz) /\ Covering(mhz) \cap {0, 3, 4, 5} = {}
            /\ 6 \in Enough(mhz) /\ Enough(mhz) \cap {0, 3, 4, 5} = {}
        BY <1>2, <1>4, <3>5
      <4> QED
        BY <1>3, <1>4, <4>1
    <3>6. CASE 104 < mhz
      <4>1. /\ 8 \in Covering(mhz) /\ Covering(mhz) \cap {0, 3, 4, 5, 6} = {}
            /\ 8 \in Enough(mhz) /\ Enough(mhz) \cap {0, 3, 4, 5, 6} = {}
        BY <1>2, <1>4, <1>6, <3>6
      <4> QED
        BY <1>3, <1>4, <4>1
    <3> QED
      BY <1>6, <3>1, <3>2, <3>3, <3>4, <3>5, <3>6
  <2>2. PICK m \in {0, 3, 4, 5, 6, 8} :
          /\ m \in Covering(mhz) /\ \A k \in Covering(mhz) : m <= k
          /\ m \in Enough(mhz) /\ \A k \in Enough(mhz) : m <= k
    BY <2>1, Zenon
  <2>3. Covering(mhz) \in SUBSET Nat /\ Enough(mhz) \in SUBSET Nat
    BY <1>3, <1>4
  <2>4. Min(Covering(mhz)) = m /\ Min(Enough(mhz)) = m
    BY <2>2, <2>3, MinIs
  <2>5. Covering(mhz) # {} /\ Enough(mhz) # {} /\ m \in Freqs
    BY <1>1, <2>2
  <2> QED
    BY <2>4, <2>5, Zenon DEF qos_freq_num
<1> QED
  BY <1>5, <1>6

-----------------------------------------------------------------------------
(* What the applications' requests keep, besides the manager's invariant.  *)
Asked == sysfreq_per_user[USER_QOS] = qos_freq_num(max_qos_freq(qos_freqs_map))
Wishes == qos_freqs_map \in [QosUsers -> AppFreqs]

AppIInv == IInv /\ Wishes /\ Asked

(* A request that is served writes its user's entry of the table.          *)
LEMMA RequestWrites ==
    ASSUME IInv, NEW user \in Users, NEW freq \in Freqs, hal_sysfreq_req(user, freq)
    PROVE  sysfreq_per_user' = [sysfreq_per_user EXCEPT ![user] = freq]
BY Zenon DEF hal_sysfreq_req, Serve, ReqEqual, ReqMore, ReqLessTop, ReqLessFirst, ReqLessOther

(* The manager's requests are steps of it.                                 *)
LEMMA RequestIsNext ==
    ASSUME NEW user \in 0 .. USER_QTY, NEW freq \in 0 .. FREQ_QTY, hal_sysfreq_req(user, freq)
    PROVE  Next
BY Zenon DEF Next

(* Nobody else writes the entry of the pseudo user.                        *)
LEMMA RequestOfOther ==
    ASSUME AppIInv, NEW user \in (0 .. USER_QTY) \ {USER_QOS}, NEW freq \in 0 .. FREQ_QTY,
           hal_sysfreq_req(user, freq)
    PROVE  Next /\ sysfreq_per_user'[USER_QOS] = sysfreq_per_user[USER_QOS]
<1>1. user \in Users /\ freq \in Freqs
  BY QtyAssumption DEF hal_sysfreq_req, Users, Freqs
<1>2. sysfreq_per_user' = [sysfreq_per_user EXCEPT ![user] = freq]
  BY <1>1, RequestWrites DEF AppIInv
<1>3. sysfreq_per_user \in [Users -> Freqs] /\ USER_QOS \in Users
  BY UserAssumption DEF AppIInv, IInv, TypeOK
<1>4. sysfreq_per_user'[USER_QOS] = sysfreq_per_user[USER_QOS]
  BY <1>1, <1>2, <1>3
<1> QED
  BY <1>4, RequestIsNext

(* A QoS user asks: the pseudo user's entry follows the new sum.           *)
LEMMA QosRequest ==
    ASSUME AppIInv, NEW q \in QosUsers, NEW freq \in AppFreqs \cup {FREQ_QTY},
           app_qosfreq_req(q, freq)
    PROVE  Next /\ Wishes' /\ Asked'
<1>1. freq \in AppFreqs
  BY ChipAssumption DEF app_qosfreq_req
<1>2. Wishes'
  BY <1>1 DEF app_qosfreq_req, AppIInv, Wishes
<1>3. PICK f : f = qos_freq_num(max_qos_freq(qos_freqs_map'))
  OBVIOUS
<1>4. f \in Freqs
  <2>1. max_qos_freq(qos_freqs_map') \in Nat
    BY <1>2, SumIsReal DEF Wishes
  <2> QED
    BY <1>3, <2>1, ScanIsLeast
<1>5. hal_sysfreq_req(USER_QOS, f)
  BY <1>3, Zenon DEF app_qosfreq_req
<1>6. sysfreq_per_user' = [sysfreq_per_user EXCEPT ![USER_QOS] = f]
  BY <1>4, <1>5, UserAssumption, RequestWrites DEF AppIInv
<1>7. sysfreq_per_user \in [Users -> Freqs] /\ USER_QOS \in Users
  BY UserAssumption DEF AppIInv, IInv, TypeOK
<1>8. sysfreq_per_user'[USER_QOS] = f
  BY <1>6, <1>7
<1>9. Asked'
  BY <1>3, <1>8, Zenon DEF Asked
<1>10. USER_QOS \in 0 .. USER_QTY /\ f \in 0 .. FREQ_QTY
  BY <1>4, <1>7, QtyAssumption DEF Users, Freqs
<1> QED
  BY <1>2, <1>5, <1>9, <1>10, RequestIsNext

(* At the start nobody asks for anything.                                  *)
LEMMA InitApp == AppInit => Init /\ AppIInv
<1> SUFFICES ASSUME AppInit PROVE Init /\ AppIInv
  OBVIOUS
<1>1. Init /\ IInv /\ qos_freqs_map = [q \in QosUsers |-> FREQ_32K]
  BY InitIInv DEF AppInit
<1>2. Wishes
  BY <1>1 DEF Wishes, AppFreqs, FREQ_32K
<1>3. sysfreq_per_user[USER_QOS] = 0
  BY <1>1, UserAssumption DEF Init, FREQ_32K
<1>4. qos_freq_num(0) = 0
  <2>1. RealMHz(0) >= 0 /\ Enough(0) \in SUBSET Nat /\ 0 \in Enough(0)
    BY RealMHzEntries DEF Enough, AppFreqs
  <2>2. \A k \in Enough(0) : 0 <= k
    BY <2>1
  <2>3. Min(Enough(0)) = 0
    BY <2>1, <2>2, MinIs
  <2> QED
    BY <2>1, <2>3, ScanIsLeast
<1>5. Asked
  BY <1>1, <1>3, <1>4, SumOfNothing DEF Asked
<1> QED
  BY <1>1, <1>2, <1>5 DEF AppIInv

(* Every step is one of the frequency manager and keeps all of it.         *)
LEMMA NextApp == AppIInv /\ [AppNext]_appVars => [Next]_vars /\ AppIInv'
<1> SUFFICES ASSUME AppIInv, [AppNext]_appVars PROVE [Next]_vars /\ AppIInv'
  OBVIOUS
<1>1. CASE \E q \in QosUsers, freq \in AppFreqs \cup {FREQ_QTY} : app_qosfreq_req(q, freq)
  BY <1>1, QosRequest, NextIInv DEF AppIInv
<1>2. ASSUME UNCHANGED qos_freqs_map, [Next]_vars,
             sysfreq_per_user'[USER_QOS] = sysfreq_per_user[USER_QOS]
      PROVE  [Next]_vars /\ AppIInv'
  BY <1>2, NextIInv, Zenon DEF AppIInv, Wishes, Asked
<1>3. CASE \E user \in Users \ {USER_QOS}, freq \in AppFreqs : app_sysfreq_req(user, freq)
  <2>1. PICK user \in Users \ {USER_QOS}, freq \in AppFreqs : app_sysfreq_req(user, freq)
    BY <1>3
  <2>2. user \in (0 .. USER_QTY) \ {USER_QOS} /\ freq \in 0 .. FREQ_QTY
    BY QtyAssumption, ChipAssumption DEF Users, AppFreqs
  <2> QED
    BY <1>2, <2>1, <2>2, RequestOfOther DEF app_sysfreq_req
<1>4. CASE DriverNext /\ UNCHANGED qos_freqs_map
  <2>1. CASE \E user \in (0 .. USER_QTY) \ {USER_QOS}, freq \in 0 .. FREQ_QTY : hal_sysfreq_req(user, freq)
    BY <1>2, <1>4, <2>1, RequestOfOther
  <2>2. CASE \E freq \in Floors : hal_sysfreq_set_min_freq(freq) \/ hal_sysfreq_inc_min_freq(freq)
    <3>1. Next
      BY <2>2, Zenon DEF Next
    <3>2. UNCHANGED sysfreq_per_user
      BY <2>2, Zenon DEF hal_sysfreq_set_min_freq, hal_sysfreq_inc_min_freq, reqVars, vars
    <3> QED
      BY <1>2, <1>4, <3>1, <3>2, Zenon
  <2> QED
    BY <1>4, <2>1, <2>2, Zenon DEF DriverNext
<1>5. CASE ClockWrite /\ UNCHANGED qos_freqs_map
  <2>1. UNCHANGED sysfreq_per_user
    BY <1>5, Zenon DEF ClockWrite, hal_cmu_sys_set_freq, pmu_sys_freq_config, WriteThen, reqVars,
                       hal_cmu_low_freq_mode_disable, hal_cmu_low_freq_mode_enable
  <2> QED
    BY <1>2, <1>5, <2>1, Zenon DEF Next
<1>6. CASE UNCHANGED appVars
  BY <1>2, <1>6, Zenon DEF appVars, vars, reqVars
<1> QED
  BY <1>1, <1>3, <1>4, <1>5, <1>6, Zenon DEF AppNext

(* The pseudo user's request in app_qosfreq_req is the least frequency an  *)
(* application can name that covers the sum of what the QoS users want, or *)
(* the highest one, for any number of QoS users and however their requests *)
(* and those of the others are mixed.                                      *)
THEOREM QosLeastHolds == AppSpec => []QosLeast
<1>1. AppIInv => QosLeast
  <2> SUFFICES ASSUME AppIInv PROVE QosLeast
    OBVIOUS
  <2>1. AppTypeOK
    BY DEF AppIInv, IInv, Wishes, AppTypeOK
  <2>2. max_qos_freq(qos_freqs_map) \in Nat /\ max_qos_freq(qos_freqs_map) = Wanted
    BY SumIsReal, Zenon DEF AppIInv, Wishes, Wanted
  <2>3. sysfreq_per_user[USER_QOS] = IF Enough(Wanted) = {} THEN FREQ_QTY - 1 ELSE Min(Enough(Wanted))
    BY <2>2, ScanIsLeast DEF AppIInv, Asked
  <2> QED
    BY <2>1, <2>3, Zenon DEF QosLeast, Enough
<1> QED
  BY <1>1, InitApp, NextApp, PTL DEF AppSpec

(* app_utils.c uses the frequency manager as its interface allows: every   *)
(* behaviour is one of SysFreq, so that all that is proved of it holds.    *)
THEOREM AppImplementsFrequency == AppSpec => Spec
BY InitApp, NextApp, PTL DEF AppSpec, Spec

-----------------------------------------------------------------------------
(* Sleep.                                                                  *)

InSleep == pc \in {"stop", "asleep", "wake"}

Floor == IF IDLE_SYS_FREQ_52M THEN FREQ_52M ELSE FREQ_32K

CoreUnits == {"dma", "uart", "cache", "norflash", "spi", "fast_timer"}
Units == Handlers \cup AnalogUnits \cup CoreUnits

(* The main core's users ask for nothing or for 26M and more; the boot has *)
(* the first of them ask for 52M.  The clock is only written while the     *)
(* core boots or runs.                                                     *)
RequestInv ==
    /\ \A u \in Users : sysfreq_per_user[u] = FREQ_32K \/ sysfreq_per_user[u] >= FREQ_26M
    /\ pc = "boot" => phase = "none" /\ top_user = USER_QTY /\ clk = FREQ_26M
    /\ pc # "boot" => top_user < USER_QTY
    /\ pc = "boot_min" => top_user = 0 /\ sysfreq_per_user[0] = FREQ_52M
    /\ pc = "light" \/ InSleep => phase = "none"

(* The floor is moved at the end of the boot and around a deep sleep.      *)
FloorInv ==
    /\ pc \in {"boot", "boot_min"} => min_sysfreq = FREQ_32K
    /\ Awake \/ pc = "light" => min_sysfreq = Floor
    /\ InSleep => /\ old_min_freq = Floor
                  /\ min_sysfreq = IF SLEEP_SYS_FREQ_52M THEN FREQ_52M ELSE Floor

(* The power unit is set for the clock, for the one a request raises it to *)
(* and, in a deep sleep, for the one the end of the sleep returns to.      *)
PmuInv ==
    /\ ~InSleep => pmu >= clk
    /\ InSleep => pmu >= Revise(hal_sysfreq_get, Floor)
    /\ phase \in {"raise_pmu", "raise_pll", "raise_clk"} => hal_sysfreq_get_hw_freq >= clk
    /\ phase \in {"raise_pll", "raise_clk"} => pmu >= hal_sysfreq_get_hw_freq
    /\ phase = "lower_clk" => hal_sysfreq_get_hw_freq <= clk

(* What is stopped is a beginning of the list of units to stop.            *)
UnitInv ==
    /\ down \in Seq(Units)
    /\ InSleep => \A i \in 1 .. Len(down) : i <= Len(StopList) /\ down[i] = StopList[i]
    /\ pc = "asleep" => Len(down) = Len(StopList) /\ woken = 0
    /\ pc = "wake" => woken \in Nat /\ Len(down) + woken = Len(StopList)
    /\ ~InSleep => down = <<>>

(* What the entry has found holds until the sleep is over.                 *)
EntryInv ==
    InSleep =>
        /\ cpu_wake_lock_map = {} /\ sys_wake_lock_map = {}
        /\ ~hal_sysfreq_busy /\ ~dma
        /\ chip_wake_lock_map # {} => mode \in {"SYS", "SYS_32K_CORE_PD"}

SleepIInv ==
    /\ IInv /\ SleepTypeOK
    /\ RequestInv /\ FloorInv /\ PmuInv /\ UnitInv /\ EntryInv

-----------------------------------------------------------------------------
(* The lists of units.                                                     *)

(* s is t backwards.                                                       *)
Mirrors(s, t) ==
    /\ Len(s) = Len(t)
    /\ \A i \in 1 .. Len(s) : s[i] = t[Len(s) - i + 1]

LEMMA MirrorsConcat ==
    ASSUME NEW S, NEW a \in Seq(S), NEW b \in Seq(S), NEW c \in Seq(S), NEW d \in Seq(S),
           Mirrors(a, c), Mirrors(b, d)
    PROVE  Mirrors(a \o b, d \o c)
<1>1. PICK ab \in Seq(S) : ab = a \o b
  BY ConcatProperties
<1>2. PICK dc \in Seq(S) : dc = d \o c
  BY ConcatProperties
<1>3. /\ Len(ab) = Len(a) + Len(b)
      /\ \A i \in 1 .. Len(a) : ab[i] = a[i]
      /\ \A i \in 1 .. Len(b) : ab[Len(a) + i] = b[i]
  BY <1>1, ConcatProperties
<1>4. /\ Len(dc) = Len(d) + Len(c)
      /\ \A i \in 1 .. Len(d) : dc[i] = d[i]
      /\ \A i \in 1 .. Len(c) : dc[Len(d) + i] = c[i]
  BY <1>2, ConcatProperties
<1>5. /\ Len(a) \in Nat /\ Len(b) \in Nat /\ Len(a) = Len(c) /\ Len(b) = Len(d)
      /\ \A i \in 1 .. Len(a) : a[i] = c[Len(a) - i + 1]
      /\ \A i \in 1 .. Len(b) : b[i] = d[Len(b) - i + 1]
  BY DEF Mirrors
<1>6. Mirrors(ab, dc)
  <2>1. ASSUME NEW i \in 1 .. Len(ab)
        PROVE  ab[i] = dc[Len(ab) - i + 1]
    <3>1. CASE i <= Len(a)
      <4>1. i \in 1 .. Len(a) /\ Len(a) - i + 1 \in 1 .. Len(c)
        BY <1>5, <3>1
      <4>2. ab[i] = c[Len(a) - i + 1]
        BY <1>3, <1>5, <4>1
      <4>3. dc[Len(d) + (Len(a) - i + 1)] = c[Len(a) - i + 1]
        BY <1>4, <4>1
      <4>4. Len(d) + (Len(a) - i + 1) = Len(ab) - i + 1
        BY <1>3, <1>5
      <4> QED
        BY <4>2, <4>3, <4>4
    <3>2. CASE i > Len(a)
      <4>1. i - Len(a) \in 1 .. Len(b) /\ Len(ab) - i + 1 \in 1 .. Len(d)
            /\ Len(a) + (i - Len(a)) = i /\ Len(b) - (i - Len(a)) + 1 = Len(ab) - i + 1
        BY <1>3, <1>5, <3>2
      <4>2. ab[i] = b[i - Len(a)]
        BY <1>3, <4>1
      <4>3. b[i - Len(a)] = d[Len(ab) - i + 1]
        BY <1>5, <4>1
      <4> QED
        BY <1>4, <4>1, <4>2, <4>3
    <3> QED
      BY <1>5, <3>1, <3>2
  <2> QED
    BY <1>3, <1>4, <1>5, <2>1 DEF Mirrors
<1> QED
  BY <1>1, <1>2, <1>6

(* The wake-up list is the list of the units to stop, backwards; both are  *)
(* lists of units, without the analog side when a chip lock is held.       *)
LEMMA Lists ==
    ASSUME pm_notif \in Seq(Handlers)
    PROVE  /\ StopList \in Seq(Units)
           /\ WakeList \in Seq(Units)
           /\ Mirrors(WakeList, StopList)
           /\ chip_wake_lock_map # {} => StopList \in Seq(Handlers \cup CoreUnits)
<1> DEFINE analog == IF chip_wake_lock_map = {} THEN <<"analog", "gpadc", "pmu">> ELSE <<>>
           back == IF chip_wake_lock_map = {} THEN <<"pmu", "gpadc", "analog">> ELSE <<>>
           stop == <<"dma", "uart", "cache", "norflash", "spi", "fast_timer">>
           start == <<"fast_timer", "spi", "norflash", "cache", "uart", "dma">>
<1>1. analog \in Seq(Units) /\ back \in Seq(Units) /\ Mirrors(back, analog)
  <2>1. CASE chip_wake_lock_map = {}
    <3>1. analog = <<"analog", "gpadc", "pmu">> /\ back = <<"pmu", "gpadc", "analog">>
      BY <2>1
    <3> HIDE DEF analog, back
    <3> QED
      BY <3>1 DEF Mirrors, Units, AnalogUnits
  <2>2. CASE chip_wake_lock_map # {}
    <3>1. analog = <<>> /\ back = <<>>
      BY <2>2
    <3> HIDE DEF analog, back
    <3> QED
      BY <3>1 DEF Mirrors
  <2> QED
    BY <2>1, <2>2
<1>2. stop \in Seq(CoreUnits) /\ start \in Seq(CoreUnits) /\ Mirrors(start, stop)
  BY DEF Mirrors, CoreUnits
<1>3. Reverse(pm_notif) \in Seq(Handlers) /\ Mirrors(pm_notif, Reverse(pm_notif))
  BY DEF Mirrors, Reverse
<1>4. chip_wake_lock_map # {} => analog = <<>>
  OBVIOUS
<1> DEFINE rev == Reverse(pm_notif)
<1>5. StopList = (rev \o analog) \o stop /\ WakeList = (start \o back) \o pm_notif
  BY DEF StopList, WakeList
<1> HIDE DEF analog, back, stop, start, rev
<1>6. /\ rev \in Seq(Units) /\ pm_notif \in Seq(Units)
      /\ stop \in Seq(Units) /\ start \in Seq(Units)
  BY <1>2, <1>3, SeqMonotonic DEF Units, rev
<1>7. /\ rev \o analog \in Seq(Units) /\ start \o back \in Seq(Units)
      /\ back \o pm_notif \in Seq(Units)
  BY <1>1, <1>6, ConcatProperties
<1>8. StopList \in Seq(Units) /\ WakeList \in Seq(Units)
  BY <1>5, <1>6, <1>7, ConcatProperties
<1>9. Mirrors(back \o pm_notif, rev \o analog)
  BY <1>1, <1>3, <1>6, MirrorsConcat DEF rev
<1>10. Mirrors(start \o (back \o pm_notif), (rev \o analog) \o stop)
  BY <1>2, <1>6, <1>7, <1>9, MirrorsConcat
<1>11. (start \o back) \o pm_notif = start \o (back \o pm_notif)
  BY <1>1, <1>6
<1>12. Mirrors(WakeList, StopList)
  BY <1>5, <1>10, <1>11
<1>13. ASSUME chip_wake_lock_map # {} PROVE StopList \in Seq(Handlers \cup CoreUnits)
  <2>1. rev \o analog = rev
    BY <1>4, <1>6, <1>13, ConcatEmptySeq
  <2>2. rev \in Seq(Handlers \cup CoreUnits) /\ stop \in Seq(Handlers \cup CoreUnits)
    BY <1>2, <1>3, SeqMonotonic DEF rev
  <2> QED
    BY <1>5, <2>1, <2>2, ConcatProperties
<1> QED
  BY <1>8, <1>12, <1>13

-----------------------------------------------------------------------------
(* The frequency manager under the sleep.                                  *)

LEMMA FloorFacts ==
    /\ Floor \in Floors /\ FREQ_52M \in Floors /\ FREQ_32K \in Floors
    /\ Floor <= FREQ_52M /\ FREQ_32K <= Floor
    /\ Floor \in Freqs /\ FREQ_52M \in Freqs
BY QtyAssumption, FreqAssumption DEF Floor, Floors, Freqs, FREQ_32K

(* Among the frequencies of the main core the revision keeps the order.    *)
LEMMA ReviseMonotone ==
    ASSUME NEW f \in Freqs, NEW g \in Freqs, NEW m \in Freqs, f <= g,
           g = FREQ_32K \/ g >= FREQ_26M
    PROVE  Revise(f, m) <= Revise(g, m)
BY QtyAssumption, FreqAssumption DEF Revise, Freqs, FREQ_32K

(* The clock under a new floor.                                            *)
LEMMA SetMinClock ==
    ASSUME IInv, NEW freq \in Floors, hal_sysfreq_set_min_freq(freq)
    PROVE  /\ phase = "none" /\ phase' = "none" /\ min_sysfreq' = freq
           /\ UNCHANGED <<sysfreq_per_user, top_user, pmu>>
           /\ clk' = Revise(hal_sysfreq_get, freq)
<1>1. /\ phase = "none" /\ phase' = "none" /\ min_sysfreq' = freq
      /\ UNCHANGED <<sysfreq_per_user, top_user, pmu>>
      /\ clk' = IF Revise(hal_sysfreq_get, min_sysfreq) # Revise(hal_sysfreq_get, freq)
                THEN Revise(hal_sysfreq_get, freq) ELSE clk
  BY DEF hal_sysfreq_set_min_freq, hal_sysfreq_revise_freq, reqVars, writeVars
<1>2. clk = Revise(hal_sysfreq_get, min_sysfreq)
  BY <1>1, AtRest
<1> QED
  BY <1>1, <1>2

(* The steps that leave the frequencies alone, by what they do to the      *)
(* place of the idle thread.                                               *)
QuietMove ==
    /\ UNCHANGED vars /\ old_min_freq' = old_min_freq
    /\ \/ pc' = pc
       \/ /\ phase = "none"
          /\ pc \in {"run", "suspended", "light"} /\ pc' \in {"run", "suspended", "light"}
       \/ InSleep /\ InSleep'

LEMMA Moves ==
    ASSUME SleepIInv, [SleepNext]_allVars
    PROVE  \/ BootRequest \/ BootWrite \/ BootMin \/ Request
           \/ hal_sleep_enter_sleep \/ ReturnFromSleep
           \/ QuietMove
<1>1. pc = "light" => phase = "none"
  BY DEF SleepIInv, RequestInv
<1>2. CASE Boot
  BY <1>2 DEF Boot
<1>3. CASE Running
  BY <1>3 DEF Running, WakeLock, hal_pm_notif_register, hal_pm_notif_deregister,
              hal_sleep_power_down_enable, DmaStart, AwakeFrame, sleepVars, QuietMove
<1>4. CASE Hardware \/ IrqServe
  BY <1>4 DEF Hardware, DmaEnd, IrqArrives, IrqServe, sleepVars, QuietMove
<1>5. CASE hal_sleep_light_sleep \/ LightWake \/ EnterRefused \/ EnterLight
  BY <1>1, <1>5 DEF hal_sleep_light_sleep, LightWake, EnterRefused, EnterLight, QuietMove
<1>6. CASE StopUnit \/ hal_cmu_lpu_sleep \/ DeepWake \/ WakeUnit
  BY <1>6 DEF StopUnit, hal_cmu_lpu_sleep, DeepWake, WakeUnit, QuietMove, InSleep
<1>7. CASE UNCHANGED allVars
  BY <1>7 DEF allVars, sleepVars, QuietMove
<1> QED
  BY <1>2, <1>3, <1>4, <1>5, <1>6, <1>7 DEF SleepNext, Idle

(* Every step is one of the frequency manager, or none for it.             *)
LEMMA FrequencyStep ==
    ASSUME SleepIInv, [SleepNext]_allVars
    PROVE  [Next]_vars
<1> USE QtyAssumption, FreqAssumption
<1>1. CASE BootRequest
  <2>1. 0 \in 0 .. USER_QTY /\ FREQ_52M \in 0 .. FREQ_QTY
    OBVIOUS
  <2> QED
    BY <1>1, <2>1 DEF BootRequest, Next
<1>2. CASE BootWrite
  BY <1>2 DEF BootWrite, Next
<1>3. CASE BootMin
  BY <1>3, FloorFacts DEF BootMin, Next
<1>4. CASE Request
  <2>1. CASE ClockWrite
    BY <2>1 DEF Next
  <2>2. ASSUME NEW user \in Users, NEW freq \in {FREQ_32K} \cup (FREQ_26M .. FREQ_QTY - 1),
               hal_sysfreq_req(user, freq)
        PROVE  Next
    <3>1. user \in 0 .. USER_QTY /\ freq \in 0 .. FREQ_QTY
      BY DEF Users, FREQ_32K
    <3> QED
      BY <2>2, <3>1 DEF Next
  <2> QED
    BY <1>4, <2>1, <2>2 DEF Request
<1>5. CASE hal_sleep_enter_sleep
  BY <1>5, FloorFacts DEF hal_sleep_enter_sleep, EnterDeep, Next
<1>6. CASE ReturnFromSleep
  <2>1. old_min_freq \in Floors
    BY <1>6, FloorFacts DEF ReturnFromSleep, SleepIInv, FloorInv, InSleep
  <2> QED
    BY <1>6, <2>1 DEF ReturnFromSleep, Next
<1>7. CASE QuietMove
  BY <1>7 DEF QuietMove
<1> QED
  BY <1>1, <1>2, <1>3, <1>4, <1>5, <1>6, <1>7, Moves

(* A request of the main core starts the writes in the direction that the  *)
(* clock goes.                                                             *)
LEMMA RequestPart ==
    ASSUME SleepIInv, NEW user \in Users, NEW freq \in Freqs,
           freq = FREQ_32K \/ freq >= FREQ_26M, hal_sysfreq_req(user, freq)
    PROVE  /\ \A u \in Users : sysfreq_per_user'[u] = FREQ_32K \/ sysfreq_per_user'[u] >= FREQ_26M
           /\ top_user' \in Users
           /\ UNCHANGED <<min_sysfreq, clk, pmu>>
           /\ phase' \in {"none", "raise_pmu", "lower_clk"}
           /\ phase' = "raise_pmu" => hal_sysfreq_get_hw_freq' >= clk'
           /\ phase' = "lower_clk" => hal_sysfreq_get_hw_freq' <= clk'
<1> USE QtyAssumption, FreqAssumption
<1>a. PICK table : table = [sysfreq_per_user EXCEPT ![user] = freq]
  OBVIOUS
<1>b. PICK cur : cur = hal_sysfreq_get
  OBVIOUS
<1>c. IInv
  BY DEF SleepIInv
<1>1. /\ sysfreq_per_user' = table /\ table \in [Users -> Freqs] /\ phase = "none"
      /\ UNCHANGED <<min_sysfreq, clk, pmu>> /\ top_user' \in Users
      /\ phase' \in {"none", "raise_pmu", "lower_clk"}
      /\ phase' = "raise_pmu" => table[top_user'] >= cur
      /\ phase' = "lower_clk" => table[top_user'] <= cur
  <2>1. sysfreq_per_user' = table /\ table \in [Users -> Freqs] /\ phase = "none"
    BY <1>a, <1>b, <1>c, RequestServes
  <2>2. UNCHANGED <<min_sysfreq, clk, pmu>> /\ top_user' \in Users
    BY <1>a, <1>b, <1>c, RequestServes
  <2>3. /\ phase' \in {"none", "raise_pmu", "lower_clk"}
        /\ phase' = "raise_pmu" => table[top_user'] >= cur
        /\ phase' = "lower_clk" => table[top_user'] <= cur
    BY <1>a, <1>b, <1>c, RequestServes
  <2> QED
    BY <2>1, <2>2, <2>3
<1>2. \A u \in Users : table[u] = FREQ_32K \/ table[u] >= FREQ_26M
  BY <1>a, <1>c DEF SleepIInv, RequestInv, IInv, TypeOK
<1>3. cur \in Freqs /\ clk = Revise(cur, min_sysfreq)
  BY <1>1, <1>b, <1>c, AtRest
<1>4. cur = FREQ_32K \/ cur >= FREQ_26M
  <2>1. CASE top_user < USER_QTY
    BY <1>1, <1>b, <1>c, <2>1, AtRest DEF SleepIInv, RequestInv
  <2>2. CASE top_user >= USER_QTY
    BY <1>1, <1>b, <1>c, <2>2, AtRest DEF IInv, WriteInv
  <2> QED
    BY <1>c, <2>1, <2>2 DEF IInv, TypeOK
<1>5. min_sysfreq \in Freqs /\ table[top_user'] \in Freqs
  BY <1>1, <1>c, FloorsAreFreqs DEF IInv, TypeOK
<1>6. hal_sysfreq_get_hw_freq' = Revise(table[top_user'], min_sysfreq)
  BY <1>1 DEF hal_sysfreq_get_hw_freq, hal_sysfreq_revise_freq, Users
<1>7. phase' = "raise_pmu" => Revise(cur, min_sysfreq) <= Revise(table[top_user'], min_sysfreq)
  <2>1. phase' = "raise_pmu" => cur <= table[top_user']
    BY <1>1, <1>3, <1>5 DEF Freqs
  <2> QED
    BY <1>1, <1>2, <1>3, <1>5, <2>1, ReviseMonotone
<1>8. phase' = "lower_clk" => Revise(table[top_user'], min_sysfreq) <= Revise(cur, min_sysfreq)
  BY <1>1, <1>3, <1>4, <1>5, ReviseMonotone
<1>9. Revise(cur, min_sysfreq) \in Freqs /\ Revise(table[top_user'], min_sysfreq) \in Freqs
  BY <1>3, <1>5, ReviseBounds
<1>10. /\ phase' = "raise_pmu" => hal_sysfreq_get_hw_freq' >= clk'
       /\ phase' = "lower_clk" => hal_sysfreq_get_hw_freq' <= clk'
  BY <1>1, <1>3, <1>6, <1>7, <1>8, <1>9 DEF Freqs
<1> QED
  BY <1>1, <1>2, <1>10

(* The writes of a request keep the power unit ahead of the clock.         *)
LEMMA WritePart ==
    ASSUME SleepIInv, ClockWrite, ~InSleep
    PROVE  /\ UNCHANGED <<sysfreq_per_user, top_user, min_sysfreq>>
           /\ phase # "none" /\ top_user < USER_QTY
           /\ pmu' >= clk'
           /\ phase' \in {"raise_pmu", "raise_pll", "raise_clk"} => hal_sysfreq_get_hw_freq' >= clk'
           /\ phase' \in {"raise_pll", "raise_clk"} => pmu' >= hal_sysfreq_get_hw_freq'
           /\ phase' = "lower_clk" => hal_sysfreq_get_hw_freq' <= clk'
<1> USE QtyAssumption, FreqAssumption
<1>1. /\ UNCHANGED <<sysfreq_per_user, top_user, min_sysfreq>>
      /\ phase # "none"
  BY DEF ClockWrite, hal_cmu_sys_set_freq, pmu_sys_freq_config,
         hal_cmu_low_freq_mode_disable, hal_cmu_low_freq_mode_enable, WriteThen, reqVars
<1>2. top_user < USER_QTY
  BY <1>1 DEF SleepIInv, IInv, WriteInv, TypeOK
<1>3. PICK real : real = hal_sysfreq_get_hw_freq
  OBVIOUS
<1>4. hal_sysfreq_get_hw_freq' = real
  BY <1>1, <1>2, <1>3 DEF hal_sysfreq_get_hw_freq, hal_sysfreq_revise_freq
<1>5. /\ pmu >= clk
      /\ phase \in {"raise_pmu", "raise_pll", "raise_clk"} => real >= clk
      /\ phase \in {"raise_pll", "raise_clk"} => pmu >= real
      /\ phase = "lower_clk" => real <= clk
      /\ phase \in {"lower_pll", "lower_pmu"} => clk = real
  BY <1>3 DEF SleepIInv, PmuInv, IInv, WriteInv
<1>6. clk \in Nat /\ pmu \in Nat
  BY DEF SleepIInv, IInv, TypeOK, Freqs
<1>6a. real \in Nat
  <2>1. real = Revise(sysfreq_per_user[top_user], min_sysfreq)
    BY <1>2, <1>3 DEF hal_sysfreq_get_hw_freq, hal_sysfreq_revise_freq
  <2>2. sysfreq_per_user[top_user] \in Freqs /\ min_sysfreq \in Freqs
    BY <1>2, FloorsAreFreqs DEF SleepIInv, IInv, TypeOK, Users
  <2>3. Revise(sysfreq_per_user[top_user], min_sysfreq) \in Freqs
    BY <2>2, ReviseBounds
  <2> QED
    BY <2>1, <2>3 DEF Freqs
<1> DEFINE Goal == /\ pmu' >= clk'
                   /\ phase' \in {"raise_pmu", "raise_pll", "raise_clk"} => real >= clk'
                   /\ phase' \in {"raise_pll", "raise_clk"} => pmu' >= real
                   /\ phase' = "lower_clk" => real <= clk'
<1>7. ASSUME hal_cmu_sys_set_freq PROVE Goal
  BY <1>3, <1>5, <1>6, <1>6a, <1>7 DEF hal_cmu_sys_set_freq, WriteThen
<1>8. ASSUME pmu_sys_freq_config PROVE Goal
  BY <1>3, <1>5, <1>6, <1>6a, <1>8 DEF pmu_sys_freq_config, WriteThen
<1>9. ASSUME hal_cmu_low_freq_mode_disable PROVE Goal
  BY <1>3, <1>5, <1>6, <1>6a, <1>9 DEF hal_cmu_low_freq_mode_disable, WriteThen
<1>10. ASSUME hal_cmu_low_freq_mode_enable PROVE Goal
  BY <1>3, <1>5, <1>6, <1>6a, <1>10 DEF hal_cmu_low_freq_mode_enable, WriteThen
<1>11. Goal
  BY <1>7, <1>8, <1>9, <1>10 DEF ClockWrite
<1> QED
  BY <1>1, <1>2, <1>4, <1>11

(* The power unit is set for the clock that a floor of Floor gives, as     *)
(* long as no write is under way.                                          *)
LEMMA PmuAtFloor ==
    ASSUME SleepIInv, phase = "none", pmu >= clk, min_sysfreq = Floor
    PROVE  pmu >= Revise(hal_sysfreq_get, Floor)
BY AtRest DEF SleepIInv

LEMMA FrequencyPart ==
    ASSUME SleepIInv, [SleepNext]_allVars
    PROVE  RequestInv' /\ FloorInv' /\ PmuInv'
<1> USE QtyAssumption, FreqAssumption
<1>0. IInv /\ RequestInv /\ FloorInv /\ PmuInv
  BY DEF SleepIInv
<1>1. CASE BootRequest
  <2>1. pc = "boot" /\ pc' = "boot_min" /\ hal_sysfreq_req(0, FREQ_52M)
        /\ 0 \in Users /\ FREQ_52M \in Freqs /\ FREQ_52M >= FREQ_26M
    BY <1>1 DEF BootRequest, Users, Freqs
  <2>2. hal_sysfreq_get = FREQ_26M /\ top_user = USER_QTY
    BY <1>0, <2>1 DEF RequestInv, hal_sysfreq_get
  <2>3. ReqMore(0, FREQ_52M)
    BY <2>1, <2>2 DEF hal_sysfreq_req, Serve, ReqEqual, ReqLessTop, ReqLessFirst, ReqLessOther
  <2>4. top_user' = 0 /\ sysfreq_per_user'[0] = FREQ_52M
    BY <1>0, <2>1, <2>3 DEF ReqMore, IInv, TypeOK
  <2>5. RequestInv'
    BY <2>1, <2>4, RequestPart DEF RequestInv, InSleep
  <2>6. FloorInv'
    BY <1>0, <2>1, RequestPart DEF FloorInv, InSleep, Awake
  <2>7. PmuInv'
    BY <1>0, <2>1, RequestPart DEF PmuInv, InSleep
  <2> QED
    BY <2>5, <2>6, <2>7
<1>2. CASE BootWrite
  <2>1. pc = "boot_min" /\ pc' = pc /\ ClockWrite /\ ~InSleep
    BY <1>2 DEF BootWrite, sleepVars, InSleep
  <2>2. RequestInv' /\ FloorInv'
    BY <1>0, <2>1, WritePart DEF RequestInv, FloorInv, InSleep, Awake
  <2>3. PmuInv'
    BY <1>0, <2>1, WritePart DEF PmuInv, InSleep
  <2> QED
    BY <2>2, <2>3
<1>3. CASE BootMin
  <2>1. pc = "boot_min" /\ pc' = "run" /\ phase = "none" /\ min_sysfreq = FREQ_32K
        /\ top_user = 0 /\ sysfreq_per_user[0] = FREQ_52M /\ hal_sysfreq_get = FREQ_52M
        /\ pmu >= clk /\ clk = Revise(FREQ_52M, FREQ_32K)
    BY <1>0, <1>3, AtRest DEF BootMin, RequestInv, FloorInv, PmuInv, InSleep, hal_sysfreq_get
  <2>2. Revise(FREQ_52M, FREQ_32K) = FREQ_52M /\ Revise(FREQ_52M, FREQ_52M) = FREQ_52M
        /\ FREQ_52M > FREQ_32K /\ FREQ_52M \in Floors
    BY DEF Revise, FREQ_32K, Floors
  <2>3. CASE IDLE_SYS_FREQ_52M
    <3>1. hal_sysfreq_set_min_freq(FREQ_52M)
      BY <1>3, <2>1, <2>2, <2>3 DEF BootMin, hal_sysfreq_inc_min_freq
    <3>2. /\ phase' = "none" /\ min_sysfreq' = FREQ_52M
          /\ UNCHANGED <<sysfreq_per_user, top_user, pmu>> /\ clk' = clk
      BY <1>0, <2>1, <2>2, <3>1, SetMinClock
    <3> QED
      BY <1>0, <2>1, <2>3, <3>2 DEF RequestInv, FloorInv, PmuInv, InSleep, Awake, Floor
  <2>4. CASE ~IDLE_SYS_FREQ_52M
    <3>1. UNCHANGED <<sysfreq_per_user, top_user, pmu, clk, phase, min_sysfreq>>
      BY <1>3, <2>4 DEF BootMin, vars, reqVars, hwClock, writeVars
    <3> QED
      BY <1>0, <2>1, <2>4, <3>1 DEF RequestInv, FloorInv, PmuInv, InSleep, Awake, Floor
  <2> QED
    BY <2>3, <2>4
<1>4. CASE Request
  <2>1. pc \in {"run", "suspended"} /\ pc' = pc /\ old_min_freq' = old_min_freq /\ ~InSleep
    BY <1>4 DEF Request, AwakeFrame, sleepVars, Awake, InSleep
  <2>2. CASE ClockWrite
    <3>1. RequestInv' /\ FloorInv'
      BY <1>0, <2>1, <2>2, WritePart DEF RequestInv, FloorInv, InSleep, Awake
    <3>2. PmuInv'
      BY <1>0, <2>1, <2>2, WritePart DEF PmuInv, InSleep
    <3> QED
      BY <3>1, <3>2
  <2>3. ASSUME NEW user \in Users, NEW freq \in {FREQ_32K} \cup (FREQ_26M .. FREQ_QTY - 1),
               hal_sysfreq_req(user, freq)
        PROVE  RequestInv' /\ FloorInv' /\ PmuInv'
    <3>1. freq \in Freqs /\ (freq = FREQ_32K \/ freq >= FREQ_26M)
      BY DEF Freqs, FREQ_32K
    <3>2. RequestInv'
      BY <2>1, <2>3, <3>1, RequestPart DEF RequestInv, InSleep, Users
    <3>3. FloorInv'
      BY <1>0, <2>1, <2>3, <3>1, RequestPart DEF FloorInv, InSleep, Awake
    <3>4. PmuInv'
      BY <1>0, <2>1, <2>3, <3>1, RequestPart DEF PmuInv, InSleep
    <3> QED
      BY <3>2, <3>3, <3>4
  <2> QED
    BY <1>4, <2>2, <2>3 DEF Request
<1>5. CASE hal_sleep_enter_sleep
  <2>1. pc = "suspended" /\ pc' = "stop" /\ phase = "none" /\ min_sysfreq = Floor
        /\ old_min_freq' = Floor /\ pmu >= clk /\ top_user < USER_QTY
    BY <1>0, <1>5 DEF hal_sleep_enter_sleep, EnterDeep, FloorInv, PmuInv, RequestInv, InSleep, Awake
  <2>2. pmu >= Revise(hal_sysfreq_get, Floor)
    BY <2>1, PmuAtFloor
  <2>3. /\ UNCHANGED <<sysfreq_per_user, top_user, pmu, phase>>
        /\ min_sysfreq' = IF SLEEP_SYS_FREQ_52M THEN FREQ_52M ELSE Floor
    <3>1. CASE SLEEP_SYS_FREQ_52M /\ FREQ_52M > min_sysfreq
      BY <1>0, <1>5, <3>1, FloorFacts, SetMinClock
         DEF hal_sleep_enter_sleep, EnterDeep, hal_sysfreq_inc_min_freq
    <3>2. CASE SLEEP_SYS_FREQ_52M /\ ~(FREQ_52M > min_sysfreq)
      <4>1. Floor = FREQ_52M
        BY <2>1, <3>2, FloorFacts DEF Floor, FREQ_32K
      <4> QED
        BY <1>5, <2>1, <3>2, <4>1 DEF hal_sleep_enter_sleep, EnterDeep, hal_sysfreq_inc_min_freq,
           vars, reqVars, hwClock, writeVars
    <3>3. CASE ~SLEEP_SYS_FREQ_52M
      BY <1>5, <2>1, <3>3 DEF hal_sleep_enter_sleep, EnterDeep, vars, reqVars, hwClock, writeVars
    <3> QED
      BY <3>1, <3>2, <3>3
  <2>4. hal_sysfreq_get' = hal_sysfreq_get
    BY <2>1, <2>3 DEF hal_sysfreq_get
  <2>5. RequestInv' /\ FloorInv'
    BY <1>0, <2>1, <2>3 DEF RequestInv, FloorInv, InSleep, Awake
  <2>6. PmuInv'
    BY <2>1, <2>2, <2>3, <2>4 DEF PmuInv, InSleep
  <2> QED
    BY <2>5, <2>6
<1>6. CASE ReturnFromSleep
  <2>1. pc = "wake" /\ pc' = "run" /\ phase = "none" /\ top_user < USER_QTY
        /\ old_min_freq = Floor /\ pmu >= Revise(hal_sysfreq_get, Floor)
        /\ min_sysfreq = IF SLEEP_SYS_FREQ_52M THEN FREQ_52M ELSE Floor
    BY <1>0, <1>6 DEF ReturnFromSleep, FloorInv, PmuInv, RequestInv, InSleep
  <2>2. /\ UNCHANGED <<sysfreq_per_user, top_user, pmu, phase>>
        /\ min_sysfreq' = Floor /\ clk' = Revise(hal_sysfreq_get, Floor)
    <3>1. CASE SLEEP_SYS_FREQ_52M
      BY <1>0, <1>6, <2>1, <3>1, FloorFacts, SetMinClock DEF ReturnFromSleep
    <3>2. CASE ~SLEEP_SYS_FREQ_52M
      <4>1. clk = Revise(hal_sysfreq_get, Floor)
        BY <1>0, <2>1, <3>2, AtRest
      <4> QED
        BY <1>6, <2>1, <3>2, <4>1 DEF ReturnFromSleep, vars, reqVars, hwClock, writeVars
    <3> QED
      BY <3>1, <3>2
  <2>3. RequestInv' /\ FloorInv'
    BY <1>0, <2>1, <2>2 DEF RequestInv, FloorInv, InSleep, Awake
  <2>4. PmuInv'
    BY <2>1, <2>2 DEF PmuInv, InSleep
  <2> QED
    BY <2>3, <2>4
<1>7. CASE QuietMove
  <2>1. /\ UNCHANGED <<sysfreq_per_user, top_user, min_sysfreq, clk, pmu, phase>>
        /\ old_min_freq' = old_min_freq
    BY <1>7 DEF QuietMove, vars, reqVars, hwClock, writeVars
  <2>2. UNCHANGED <<hal_sysfreq_get, hal_sysfreq_get_hw_freq>>
    BY <2>1 DEF hal_sysfreq_get, hal_sysfreq_get_hw_freq, hal_sysfreq_revise_freq
  <2>3. RequestInv' /\ FloorInv'
    BY <1>0, <1>7, <2>1 DEF QuietMove, RequestInv, FloorInv, InSleep, Awake
  <2>4. PmuInv'
    BY <1>0, <1>7, <2>1, <2>2 DEF QuietMove, PmuInv, InSleep
  <2> QED
    BY <2>3, <2>4
<1> QED
  BY <1>1, <1>2, <1>3, <1>4, <1>5, <1>6, <1>7, Moves

-----------------------------------------------------------------------------
(* What the sleep works on.                                                *)

(* The steps by what they do to the sleep: the entry, the steps in it, the *)
(* end, and all the others, which leave it alone and are taken outside or  *)
(* by the hardware.                                                        *)
Aside ==
    /\ UNCHANGED <<mode, down, woken, old_min_freq>>
    /\ \/ ~InSleep /\ ~InSleep'
       \/ /\ UNCHANGED <<pc, sysfreq_per_user, lockVars, pm_notif>>
          /\ dma' = dma \/ dma' = FALSE

LEMMA Stages ==
    ASSUME [SleepNext]_allVars
    PROVE  \/ hal_sleep_enter_sleep \/ StopUnit \/ hal_cmu_lpu_sleep \/ DeepWake
           \/ WakeUnit \/ ReturnFromSleep \/ Aside
<1>1. CASE Boot
  BY <1>1 DEF Boot, BootRequest, BootWrite, BootMin, sleepVars, InSleep, Aside
<1>2. CASE Running
  BY <1>2 DEF Running, WakeLock, hal_pm_notif_register, hal_pm_notif_deregister,
              hal_sleep_power_down_enable, Request, DmaStart, AwakeFrame, sleepVars,
              Open, Awake, InSleep, Aside
<1>3. CASE Hardware \/ IrqServe
  BY <1>3 DEF Hardware, DmaEnd, IrqArrives, IrqServe, vars, reqVars, sleepVars, Aside
<1>4. CASE hal_sleep_light_sleep \/ LightWake \/ EnterRefused \/ EnterLight
  BY <1>4 DEF hal_sleep_light_sleep, LightWake, EnterRefused, EnterLight, InSleep, Aside
<1>5. CASE UNCHANGED allVars
  BY <1>5 DEF allVars, vars, reqVars, sleepVars, hwVars, Aside
<1> QED
  BY <1>1, <1>2, <1>3, <1>4, <1>5 DEF SleepNext, Idle

LEMMA ModeOfSleep ==
    /\ SleepMode \in {"SYS_32K_CORE_PD", "POWER_DOWN", "SYS", "CHIP"}
    /\ chip_wake_lock_map # {} => SleepMode \in {"SYS", "SYS_32K_CORE_PD"}
<1>1. CASE power_down_en /\ chip_wake_lock_map # {}
  <2>1. SleepMode = "SYS_32K_CORE_PD"
    BY <1>1, Zenon DEF SleepMode
  <2> QED
    BY <2>1
<1>2. CASE power_down_en /\ chip_wake_lock_map = {}
  <2>1. SleepMode = "POWER_DOWN"
    BY <1>2, Zenon DEF SleepMode
  <2> QED
    BY <1>2, <2>1
<1>3. CASE ~power_down_en /\ chip_wake_lock_map # {}
  <2>1. SleepMode = "SYS"
    BY <1>3, Zenon DEF SleepMode
  <2> QED
    BY <2>1
<1>4. CASE ~power_down_en /\ chip_wake_lock_map = {}
  <2>1. SleepMode = "CHIP"
    BY <1>4, Zenon DEF SleepMode
  <2> QED
    BY <1>4, <2>1
<1> QED
  BY <1>1, <1>2, <1>3, <1>4

(* In a sleep the table of requests stays as it is.                        *)
LEMMA TableKept ==
    ASSUME SleepIInv, hal_sleep_enter_sleep
    PROVE  sysfreq_per_user' = sysfreq_per_user
BY DEF hal_sleep_enter_sleep, EnterDeep, hal_sysfreq_inc_min_freq, hal_sysfreq_set_min_freq,
       vars, reqVars

LEMMA EntryPart ==
    ASSUME SleepIInv, [SleepNext]_allVars
    PROVE  EntryInv'
<1>0. EntryInv
  BY DEF SleepIInv
<1>1. CASE hal_sleep_enter_sleep
  <2>1. UNCHANGED <<lockVars, dma, sysfreq_per_user>> /\ mode' = SleepMode
    BY <1>1, TableKept DEF hal_sleep_enter_sleep, EnterDeep, SleepFrame, hwVars
  <2>2. cpu_wake_lock_map = {} /\ sys_wake_lock_map = {} /\ ~hal_sysfreq_busy /\ ~dma
    BY <1>1 DEF hal_sleep_enter_sleep, MayDeep, LightOnly
  <2> QED
    BY <2>1, <2>2, ModeOfSleep DEF EntryInv, hal_sysfreq_busy, lockVars
<1>2. CASE StopUnit \/ hal_cmu_lpu_sleep \/ DeepWake \/ WakeUnit
  <2>1. InSleep /\ UNCHANGED <<lockVars, dma, sysfreq_per_user, mode>>
    BY <1>2 DEF StopUnit, hal_cmu_lpu_sleep, DeepWake, WakeUnit, SleepFrame, hwVars,
                vars, reqVars, InSleep
  <2> QED
    BY <1>0, <2>1 DEF EntryInv, hal_sysfreq_busy, lockVars
<1>3. CASE ReturnFromSleep
  BY <1>3 DEF ReturnFromSleep, EntryInv, InSleep
<1>4. CASE Aside
  <2>1. CASE ~InSleep'
    BY <2>1 DEF EntryInv
  <2>2. CASE UNCHANGED <<pc, sysfreq_per_user, lockVars>> /\ (dma' = dma \/ dma' = FALSE)
    BY <1>0, <1>4, <2>2 DEF Aside, EntryInv, hal_sysfreq_busy, lockVars, InSleep
  <2> QED
    BY <1>4, <2>1, <2>2 DEF Aside
<1> QED
  BY <1>1, <1>2, <1>3, <1>4, Stages

(* To wake the unit that was stopped last is to take it off the end.       *)
LEMMA TakenOff ==
    ASSUME down \in Seq(Units), Len(down) > 0
    PROVE  /\ DownWithout(down[Len(down)]) = Front(down)
           /\ Front(down) \in Seq(Units)
           /\ Len(Front(down)) = Len(down) - 1
           /\ \A i \in 1 .. Len(down) - 1 : Front(down)[i] = down[i]
<1>1. PICK n \in Nat : n = Len(down)
  OBVIOUS
<1>2. PICK at : at = {i \in 1 .. n : down[i] = down[n]}
  OBVIOUS
<1>3. n \in at /\ \A i \in at : i <= n /\ i \in Nat
  BY <1>1, <1>2
<1>4. Max(at) = n
  <2>1. \A x \in at : (\A y \in at : x >= y) => x = n
    BY <1>3
  <2>2. n \in at /\ \A y \in at : n >= y
    BY <1>3
  <2> QED
    BY <2>1, <2>2, Zenon DEF Max
<1>5. DownWithout(down[n]) = RemoveAt(down, n)
  BY <1>1, <1>2, <1>3, <1>4 DEF DownWithout
<1>6. \A i \in 1 .. n : down[i] \in Units
  BY <1>1
<1>6a. n - 1 \in Int /\ 1 \in Int /\ \A i \in 1 .. n - 1 : down[i] \in Units
  BY <1>6
<1>7. PICK front \in Seq(Units) : front = SubSeq(down, 1, n - 1)
  BY <1>6a, SubSeqProperties
<1>8. Len(front) = n - 1 /\ \A i \in 1 .. n - 1 : front[i] = down[i]
  BY <1>1, <1>7
<1>9. SubSeq(down, n + 1, n) = <<>>
  BY <1>1, SubSeqEmpty
<1>10. front \o <<>> = front
  BY ConcatEmptySeq
<1>11. RemoveAt(down, n) = front
  BY <1>1, <1>7, <1>9, <1>10 DEF RemoveAt
<1>12. Front(down) = front
  BY <1>1, <1>7 DEF Front
<1> QED
  BY <1>1, <1>5, <1>8, <1>11, <1>12

(* The step of WakeUnit takes the last stopped unit.                       *)
LEMMA WakesLast ==
    ASSUME SleepIInv, WakeUnit
    PROVE  /\ down \in Seq(Units) /\ Len(down) > 0
           /\ down' = Front(down)
           /\ woken \in Nat /\ Len(down) + woken = Len(StopList)
<1>1. /\ pm_notif \in Seq(Handlers) /\ down \in Seq(Units) /\ pc = "wake"
      /\ woken \in Nat /\ Len(down) + woken = Len(StopList) /\ woken < Len(WakeList)
      /\ \A i \in 1 .. Len(down) : down[i] = StopList[i]
  BY DEF SleepIInv, SleepTypeOK, UnitInv, WakeUnit, InSleep
<1>2. PICK stop \in Seq(Units) : stop = StopList
  BY <1>1, Lists
<1>3. PICK wake \in Seq(Units) : wake = WakeList
  BY <1>1, Lists
<1>4. Len(wake) = Len(stop) /\ \A i \in 1 .. Len(wake) : wake[i] = stop[Len(wake) - i + 1]
  BY <1>1, <1>2, <1>3, Lists DEF Mirrors
<1>5. Len(down) \in Nat /\ Len(down) + woken = Len(stop) /\ Len(down) > 0
      /\ woken + 1 \in 1 .. Len(wake) /\ Len(down) \in 1 .. Len(down)
  BY <1>1, <1>2, <1>3, <1>4
<1>6. Len(wake) - (woken + 1) + 1 = Len(down)
  BY <1>1, <1>4, <1>5
<1>7. wake[woken + 1] = down[Len(down)]
  BY <1>1, <1>2, <1>4, <1>5, <1>6
<1>8. down' = DownWithout(down[Len(down)])
  BY <1>3, <1>7 DEF WakeUnit
<1> QED
  BY <1>1, <1>5, <1>8, TakenOff

LEMMA UnitPart ==
    ASSUME SleepIInv, [SleepNext]_allVars
    PROVE  UnitInv'
<1>0. UnitInv /\ pm_notif \in Seq(Handlers)
  BY DEF SleepIInv, SleepTypeOK
<1>1. PICK stop \in Seq(Units) : stop = StopList
  BY <1>0, Lists
<1>2. UNCHANGED <<pm_notif, chip_wake_lock_map>> => StopList' = stop
  BY <1>1 DEF StopList
<1>3. CASE hal_sleep_enter_sleep
  BY <1>3 DEF hal_sleep_enter_sleep, EnterDeep, UnitInv, InSleep
<1>4. CASE StopUnit
  <2>1. /\ pc = "stop" /\ pc' = pc /\ Len(down) < Len(stop)
        /\ down' = Append(down, stop[Len(down) + 1])
        /\ StopList' = stop
    BY <1>1, <1>2, <1>4 DEF StopUnit, SleepFrame, lockVars
  <2>2. /\ down \in Seq(Units)
        /\ \A i \in 1 .. Len(down) : i <= Len(stop) /\ down[i] = stop[i]
    BY <1>0, <1>1, <2>1 DEF UnitInv, InSleep
  <2>3. stop[Len(down) + 1] \in Units
    BY <2>1, <2>2
  <2>4. /\ down' \in Seq(Units) /\ Len(down') = Len(down) + 1
        /\ \A i \in 1 .. Len(down') : down'[i] = stop[i]
    BY <2>1, <2>2, <2>3
  <2> QED
    BY <2>1, <2>2, <2>4 DEF UnitInv, InSleep
<1>5. CASE hal_cmu_lpu_sleep \/ DeepWake
  <2>1. /\ pc \in {"stop", "asleep"} /\ pc' \in {"asleep", "wake"} /\ StopList' = stop
        /\ down' = down /\ Len(down) = Len(stop) /\ woken' = 0
    BY <1>0, <1>1, <1>2, <1>5 DEF hal_cmu_lpu_sleep, DeepWake, SleepFrame, lockVars, UnitInv
  <2>2. /\ down \in Seq(Units)
        /\ \A i \in 1 .. Len(down) : i <= Len(stop) /\ down[i] = stop[i]
    BY <1>0, <1>1, <2>1 DEF UnitInv, InSleep
  <2> QED
    BY <2>1, <2>2 DEF UnitInv, InSleep
<1>6. CASE WakeUnit
  <2>1. /\ pc = "wake" /\ pc' = pc /\ StopList' = stop /\ woken' = woken + 1
    BY <1>1, <1>2, <1>6 DEF WakeUnit, SleepFrame, lockVars
  <2>2. /\ down \in Seq(Units) /\ Len(down) > 0 /\ down' = Front(down)
        /\ woken \in Nat /\ Len(down) + woken = Len(stop)
    BY <1>1, <1>6, WakesLast
  <2>3. /\ down' \in Seq(Units) /\ Len(down') = Len(down) - 1
        /\ \A i \in 1 .. Len(down') : down'[i] = down[i]
    BY <2>2, TakenOff
  <2>4. \A i \in 1 .. Len(down) : i <= Len(stop) /\ down[i] = stop[i]
    BY <1>0, <1>1, <2>1 DEF UnitInv, InSleep
  <2>5. \A i \in 1 .. Len(down') : i <= Len(stop) /\ down'[i] = stop[i]
    BY <2>2, <2>3, <2>4
  <2>6. woken' \in Nat /\ Len(down') + woken' = Len(stop)
    BY <2>1, <2>2, <2>3
  <2> QED
    BY <2>1, <2>3, <2>5, <2>6 DEF UnitInv, InSleep
<1>7. CASE ReturnFromSleep
  <2>1. /\ pc = "wake" /\ pc' = "run" /\ down' = down /\ woken = Len(WakeList)
    BY <1>7 DEF ReturnFromSleep
  <2>2. Len(WakeList) = Len(stop)
    BY <1>0, <1>1, Lists DEF Mirrors
  <2>3. down \in Seq(Units) /\ Len(down) + woken = Len(stop)
    BY <1>0, <1>1, <2>1 DEF UnitInv
  <2>4. Len(down) = 0
    BY <2>1, <2>2, <2>3
  <2>5. down = <<>>
    BY <2>3, <2>4
  <2> QED
    BY <2>1, <2>5 DEF UnitInv, InSleep
<1>8. CASE Aside
  <2>1. CASE ~InSleep /\ ~InSleep'
    BY <1>0, <1>8, <2>1 DEF Aside, UnitInv, InSleep
  <2>2. CASE UNCHANGED <<pc, lockVars, pm_notif>>
    BY <1>0, <1>1, <1>2, <1>8, <2>2 DEF Aside, UnitInv, InSleep, lockVars
  <2> QED
    BY <1>8, <2>1, <2>2 DEF Aside
<1> QED
  BY <1>3, <1>4, <1>5, <1>6, <1>7, <1>8, Stages

-----------------------------------------------------------------------------
(* The table of handlers stays sorted and without duplicates.              *)
TableOK(table) ==
    /\ table \in Seq(Handlers) /\ Len(table) <= PM_NOTIF_HDLR_CNT
    /\ \A i, j \in 1 .. Len(table) : i < j => /\ PmUser[table[i]] >= PmUser[table[j]]
                                               /\ table[i] # table[j]

LEMMA RegisterKeepsOrder ==
    ASSUME TableOK(pm_notif), NEW h \in Handlers, hal_pm_notif_register(h)
    PROVE  TableOK(pm_notif')
<1> USE PmAssumption
<1>1. PICK n \in Nat : n = Len(pm_notif)
  BY DEF TableOK
<1>2. PICK k \in 1 .. n + 1 :
          /\ k > 1 => PmUser[pm_notif[k - 1]] > PmUser[h]
          /\ \A i \in k .. n : PmUser[pm_notif[i]] <= PmUser[h]
          /\ pm_notif' = [i \in 1 .. n + 1 |->
                             IF i < k THEN pm_notif[i] ELSE IF i = k THEN h ELSE pm_notif[i - 1]]
  BY <1>1 DEF hal_pm_notif_register
<1>2a. /\ k \in Nat /\ 1 <= k /\ k <= n + 1
       /\ k > 1 => PmUser[pm_notif[k - 1]] > PmUser[h]
       /\ \A i \in k .. n : PmUser[pm_notif[i]] <= PmUser[h]
  BY <1>2
<1>3. \A i \in 1 .. n : pm_notif[i] \in Handlers /\ pm_notif[i] # h /\ PmUser[pm_notif[i]] \in Nat
  <2>1. pm_notif \in Seq(Handlers) /\ h \notin Range(pm_notif) /\ DOMAIN pm_notif = 1 .. n
    BY <1>1 DEF hal_pm_notif_register, TableOK
  <2>2. \A i \in 1 .. n : pm_notif[i] \in Handlers
    BY <1>1, <2>1
  <2>3. \A i \in 1 .. n : pm_notif[i] # h
    BY <2>1, Zenon DEF Range
  <2> QED
    BY <2>2, <2>3
<1>4. \A i, j \in 1 .. n : i < j => /\ PmUser[pm_notif[i]] >= PmUser[pm_notif[j]]
                                    /\ pm_notif[i] # pm_notif[j]
  BY <1>1 DEF TableOK
<1>5. PmUser[h] \in Nat
  OBVIOUS
<1>6. ASSUME NEW i \in 1 .. k - 1 PROVE PmUser[pm_notif[i]] > PmUser[h]
  <2>1. i \in 1 .. n /\ k - 1 \in 1 .. n /\ k > 1
    BY <1>2a
  <2>2. i = k - 1 \/ PmUser[pm_notif[i]] >= PmUser[pm_notif[k - 1]]
    BY <1>2a, <1>4, <2>1
  <2> QED
    BY <1>2a, <1>3, <1>5, <2>1, <2>2
<1>7. PICK t \in Seq(Handlers) : t = pm_notif'
  <2>1. ASSUME NEW i \in 1 .. n + 1
        PROVE  (IF i < k THEN pm_notif[i] ELSE IF i = k THEN h ELSE pm_notif[i - 1]) \in Handlers
    <3>1. (i < k => i \in 1 .. n) /\ (~(i < k) /\ i # k => i - 1 \in 1 .. n)
      BY <1>2a
    <3> QED
      BY <1>3, <3>1
  <2>2. pm_notif' \in [1 .. n + 1 -> Handlers]
    BY <1>2, <2>1, Zenon
  <2> QED
    BY <2>2, n + 1 \in Nat
<1>8. /\ Len(t) = n + 1
      /\ \A i \in 1 .. k - 1 : t[i] = pm_notif[i]
      /\ t[k] = h
      /\ \A i \in k + 1 .. n + 1 : t[i] = pm_notif[i - 1]
  BY <1>2, <1>7
<1>9. ASSUME NEW i \in 1 .. n + 1, NEW j \in 1 .. n + 1, i < j
      PROVE  PmUser[t[i]] >= PmUser[t[j]] /\ t[i] # t[j]
  <2>0. i \in Nat /\ j \in Nat /\ 1 <= i /\ i < j /\ j <= n + 1
    BY <1>9
  <2>1. CASE j < k
    <3>1. i \in 1 .. n /\ j \in 1 .. n /\ t[i] = pm_notif[i] /\ t[j] = pm_notif[j]
      BY <1>2a, <1>8, <2>0, <2>1
    <3> QED
      BY <1>4, <2>0, <3>1
  <2>2. CASE j = k
    <3>1. i \in 1 .. n /\ i \in 1 .. k - 1 /\ t[i] = pm_notif[i] /\ t[j] = h
      BY <1>2a, <1>8, <2>0, <2>2
    <3> QED
      BY <1>3, <1>5, <1>6, <3>1
  <2>3. CASE j > k /\ i < k
    <3>1. i \in 1 .. n /\ j - 1 \in 1 .. n /\ i < j - 1
      BY <1>2a, <2>0, <2>3
    <3>2. i \in 1 .. k - 1 /\ j \in k + 1 .. n + 1
      BY <1>2a, <2>0, <2>3
    <3>3. t[i] = pm_notif[i] /\ t[j] = pm_notif[j - 1]
      BY <1>8, <3>2
    <3> QED
      BY <1>4, <3>1, <3>3
  <2>4. CASE j > k /\ i = k
    <3>1. j - 1 \in k .. n /\ j - 1 \in 1 .. n /\ t[i] = h /\ t[j] = pm_notif[j - 1]
      BY <1>2a, <1>8, <2>0, <2>4
    <3> QED
      BY <1>2a, <1>3, <1>5, <3>1
  <2>5. CASE i > k
    <3>1. i - 1 \in 1 .. n /\ j - 1 \in 1 .. n /\ i - 1 < j - 1
      BY <1>2a, <2>0, <2>5
    <3>2. i \in k + 1 .. n + 1 /\ j \in k + 1 .. n + 1
      BY <1>2a, <2>0, <2>5
    <3>3. t[i] = pm_notif[i - 1] /\ t[j] = pm_notif[j - 1]
      BY <1>8, <3>2
    <3> QED
      BY <1>4, <3>1, <3>3
  <2> QED
    BY <1>2a, <2>0, <2>1, <2>2, <2>3, <2>4, <2>5
<1>10. n + 1 <= PM_NOTIF_HDLR_CNT
  BY <1>1 DEF hal_pm_notif_register
<1> QED
  BY <1>7, <1>8, <1>9, <1>10 DEF TableOK

LEMMA DeregisterKeepsOrder ==
    ASSUME TableOK(pm_notif), NEW h \in Handlers, hal_pm_notif_deregister(h)
    PROVE  TableOK(pm_notif')
<1> USE PmAssumption
<1>1. PICK n \in Nat : n = Len(pm_notif)
  BY DEF TableOK
<1>2. PICK k \in 1 .. n :
          pm_notif' = [i \in 1 .. n - 1 |-> IF i < k THEN pm_notif[i] ELSE pm_notif[i + 1]]
  BY <1>1 DEF hal_pm_notif_deregister
<1>3. \A i \in 1 .. n : pm_notif[i] \in Handlers
  BY <1>1 DEF TableOK
<1>4. \A i, j \in 1 .. n : i < j => /\ PmUser[pm_notif[i]] >= PmUser[pm_notif[j]]
                                    /\ pm_notif[i] # pm_notif[j]
  BY <1>1 DEF TableOK
<1>5. PICK t \in Seq(Handlers) : t = pm_notif'
  BY <1>2, <1>3
<1>6. /\ Len(t) = n - 1
      /\ \A i \in 1 .. k - 1 : t[i] = pm_notif[i]
      /\ \A i \in k .. n - 1 : t[i] = pm_notif[i + 1]
  BY <1>2, <1>5
<1>7. ASSUME NEW i \in 1 .. n - 1, NEW j \in 1 .. n - 1, i < j
      PROVE  PmUser[t[i]] >= PmUser[t[j]] /\ t[i] # t[j]
  <2>1. /\ k \in Nat /\ i \in Nat /\ j \in Nat /\ 1 <= i /\ i < j /\ j <= n - 1
    BY <1>7
  <2>2. CASE j < k
    <3>1. i \in 1 .. n /\ j \in 1 .. n /\ t[i] = pm_notif[i] /\ t[j] = pm_notif[j]
      BY <1>6, <2>1, <2>2
    <3> QED
      BY <1>4, <2>1, <3>1
  <2>3. CASE i < k /\ k <= j
    <3>1. i \in 1 .. n /\ j + 1 \in 1 .. n /\ i < j + 1
          /\ t[i] = pm_notif[i] /\ t[j] = pm_notif[j + 1]
      BY <1>6, <2>1, <2>3
    <3> QED
      BY <1>4, <3>1
  <2>4. CASE k <= i
    <3>1. i + 1 \in 1 .. n /\ j + 1 \in 1 .. n /\ i + 1 < j + 1
          /\ t[i] = pm_notif[i + 1] /\ t[j] = pm_notif[j + 1]
      BY <1>6, <2>1, <2>4
    <3> QED
      BY <1>4, <3>1
  <2> QED
    BY <2>1, <2>2, <2>3, <2>4
<1> QED
  BY <1>1, <1>5, <1>6, <1>7 DEF TableOK

LEMMA TypePart ==
    ASSUME SleepIInv, [SleepNext]_allVars, TypeOK', UnitInv', FloorInv'
    PROVE  SleepTypeOK'
<1> DEFINE Pcs == {"boot", "boot_min", "run", "suspended", "light", "stop", "asleep", "wake"}
           Modes == {"SYS_32K_CORE_PD", "POWER_DOWN", "SYS", "CHIP", "none"}
           Rest == /\ cpu_wake_lock_map \subseteq Lockers /\ sys_wake_lock_map \subseteq Lockers
                   /\ chip_wake_lock_map \subseteq Lockers
                   /\ pc \in Pcs /\ mode \in Modes /\ old_min_freq \in Freqs
           Flags == irq \in BOOLEAN /\ dma \in BOOLEAN /\ power_down_en \in BOOLEAN
<1>1. SleepTypeOK => Rest /\ Flags /\ TableOK(pm_notif)
  <2>1. SleepTypeOK => Rest /\ Flags
    BY DEF SleepTypeOK
  <2>2. SleepTypeOK => TableOK(pm_notif)
    <3>1. pm_notif \in Seq(Handlers) => DOMAIN pm_notif = 1 .. Len(pm_notif)
      OBVIOUS
    <3> QED
      BY <3>1, Zenon DEF SleepTypeOK, TableOK
  <2> QED
    BY <2>1, <2>2
<1>2. Rest' /\ Flags' /\ TableOK(pm_notif)' /\ TypeOK' => SleepTypeOK'
  <2>1. pm_notif' \in Seq(Handlers) => DOMAIN pm_notif' = 1 .. Len(pm_notif')
    OBVIOUS
  <2>2. TableOK(pm_notif') =>
          /\ pm_notif' \in Seq(Handlers) /\ Len(pm_notif') <= PM_NOTIF_HDLR_CNT
          /\ \A i, j \in DOMAIN pm_notif' : i < j => /\ PmUser[pm_notif'[i]] >= PmUser[pm_notif'[j]]
                                                    /\ pm_notif'[i] # pm_notif'[j]
    BY <2>1, Zenon DEF TableOK
  <2> QED
    BY <2>2 DEF SleepTypeOK
<1>3. Rest /\ Flags /\ TableOK(pm_notif)
  BY <1>1 DEF SleepIInv
<1>4. TableOK(pm_notif')
  <2>1. CASE pm_notif' = pm_notif
    BY <1>3, <2>1
  <2>2. CASE pm_notif' # pm_notif
    <3>1. \E h \in Handlers : hal_pm_notif_register(h) \/ hal_pm_notif_deregister(h)
      BY <2>2 DEF SleepNext, Boot, Running, Hardware, Idle, BootRequest, BootWrite, BootMin,
         WakeLock, hal_sleep_power_down_enable, Request, DmaStart, DmaEnd, IrqArrives, IrqServe,
         hal_sleep_light_sleep, LightWake, EnterRefused, EnterLight, hal_sleep_enter_sleep,
         EnterDeep, StopUnit, hal_cmu_lpu_sleep, DeepWake, WakeUnit, ReturnFromSleep,
         SleepFrame, allVars
    <3> QED
      BY <1>3, <3>1, RegisterKeepsOrder, DeregisterKeepsOrder
  <2> QED
    BY <2>1, <2>2
<1>5. Flags'
  <2>1. CASE UNCHANGED <<irq, dma, power_down_en>>
    BY <1>3, <2>1
  <2>2. CASE Running \/ Hardware \/ IrqServe
    BY <1>3, <2>2 DEF Running, WakeLock, hal_pm_notif_register, hal_pm_notif_deregister,
       hal_sleep_power_down_enable, Request, DmaStart, AwakeFrame, Hardware, DmaEnd, IrqArrives,
       IrqServe
  <2>3. Boot \/ Idle \/ UNCHANGED allVars => UNCHANGED <<irq, dma, power_down_en>>
    BY DEF Boot, BootRequest, BootWrite, BootMin, Idle, hal_sleep_light_sleep, LightWake,
       EnterRefused, EnterLight, hal_sleep_enter_sleep, EnterDeep, StopUnit, hal_cmu_lpu_sleep,
       DeepWake, WakeUnit, ReturnFromSleep, SleepFrame, allVars, hwVars
  <2> QED
    BY <2>1, <2>2, <2>3 DEF SleepNext
<1>6. Rest'
  <2>1. CASE Running
    BY <1>3, <2>1 DEF Running, WakeLock, hal_pm_notif_register, hal_pm_notif_deregister,
       hal_sleep_power_down_enable, Request, DmaStart, AwakeFrame, sleepVars, lockVars
  <2>2. CASE Boot \/ Hardware \/ IrqServe \/ UNCHANGED allVars
    BY <1>3, <2>2 DEF Boot, BootRequest, BootWrite, BootMin, SleepFrame, Hardware, DmaEnd,
       IrqArrives, IrqServe, sleepVars, lockVars, allVars
  <2>3. CASE hal_sleep_light_sleep \/ LightWake \/ EnterRefused \/ EnterLight
             \/ StopUnit \/ hal_cmu_lpu_sleep \/ DeepWake \/ WakeUnit
    BY <1>3, <2>3 DEF hal_sleep_light_sleep, LightWake, EnterRefused, EnterLight, StopUnit,
       hal_cmu_lpu_sleep, DeepWake, WakeUnit, SleepFrame, lockVars
  <2>4. CASE hal_sleep_enter_sleep
    <3>1. /\ pc' = "stop" /\ mode' = SleepMode /\ old_min_freq' = min_sysfreq
          /\ UNCHANGED lockVars
      BY <2>4 DEF hal_sleep_enter_sleep, EnterDeep, SleepFrame
    <3>2. min_sysfreq \in Freqs
      BY FloorsAreFreqs DEF SleepIInv, IInv, TypeOK
    <3> QED
      BY <1>3, <3>1, <3>2, ModeOfSleep DEF lockVars
  <2>5. CASE ReturnFromSleep
    BY <1>3, <2>5, QtyAssumption, FreqAssumption
       DEF ReturnFromSleep, EndOfLocals, SleepFrame, lockVars, Freqs, FREQ_32K
  <2> QED
    BY <2>1, <2>2, <2>3, <2>4, <2>5 DEF SleepNext, Idle
<1> QED
  BY <1>2, <1>4, <1>5, <1>6

-----------------------------------------------------------------------------
LEMMA InitSleepIInv == SleepInit => SleepIInv
<1> SUFFICES ASSUME SleepInit PROVE SleepIInv
  OBVIOUS
<1> USE QtyAssumption, FreqAssumption, PmAssumption DEF SleepInit
<1>1. IInv
  BY InitIInv
<1>2. SleepTypeOK
  <2>1. /\ pm_notif \in Seq(Handlers) /\ Len(pm_notif) = 0 /\ DOMAIN pm_notif = {}
    OBVIOUS
  <2>2. FREQ_32K \in Freqs
    BY DEF Freqs, FREQ_32K
  <2>3. /\ \A map \in {cpu_wake_lock_map, sys_wake_lock_map, chip_wake_lock_map} :
              map \subseteq Lockers
        /\ {irq, dma, power_down_en} \subseteq BOOLEAN
    OBVIOUS
  <2>4. Len(pm_notif) <= PM_NOTIF_HDLR_CNT
    BY <2>1
  <2> QED
    BY <1>1, <2>1, <2>2, <2>3, <2>4 DEF IInv, SleepTypeOK
<1>3. RequestInv /\ FloorInv
  BY DEF Init, RequestInv, FloorInv, Awake, InSleep
<1>4. PmuInv
  BY DEF Init, PmuInv, InSleep
<1>5. UnitInv /\ EntryInv
  BY DEF UnitInv, EntryInv, InSleep
<1> QED
  BY <1>1, <1>2, <1>3, <1>4, <1>5 DEF SleepIInv

LEMMA NextSleepIInv == SleepIInv /\ [SleepNext]_allVars => SleepIInv'
<1> SUFFICES ASSUME SleepIInv, [SleepNext]_allVars PROVE SleepIInv'
  OBVIOUS
<1>1. IInv'
  BY FrequencyStep, NextIInv DEF SleepIInv
<1>2. TypeOK'
  BY <1>1 DEF IInv
<1>3. RequestInv' /\ FloorInv' /\ PmuInv' /\ UnitInv' /\ EntryInv'
  BY FrequencyPart, UnitPart, EntryPart
<1>4. SleepTypeOK'
  BY <1>2, <1>3, TypePart
<1> QED
  BY <1>1, <1>3, <1>4 DEF SleepIInv

(* SleepIInv holds in every state that boot, threads, interrupts and idle  *)
(* thread reach.                                                           *)
THEOREM SleepInvariant == SleepSpec => []SleepIInv
<1>1. SleepInit => SleepIInv
  BY InitSleepIInv
<1>2. SleepIInv /\ [SleepNext]_allVars => SleepIInv'
  BY NextSleepIInv
<1> QED
  BY <1>1, <1>2, PTL DEF SleepSpec

(* The core is in deep sleep only while nobody needs it, although locks,   *)
(* requests and transfers come between the idle thread's question and its  *)
(* entry.                                                                  *)
THEOREM AsleepSafeHolds == SleepSpec => []AsleepSafe
<1>1. SleepIInv => AsleepSafe
  <2> SUFFICES ASSUME SleepIInv, pc = "asleep", chip_wake_lock_map # {}
               PROVE  AnalogUnits \cap Range(down) = {}
    BY DEF SleepIInv, AsleepSafe, EntryInv, InSleep
  <2>1. PICK stop \in Seq(Handlers \cup CoreUnits) : stop = StopList
    BY Lists DEF SleepIInv, SleepTypeOK
  <2>2. /\ down \in Seq(Units) /\ DOMAIN down = 1 .. Len(down)
        /\ \A i \in 1 .. Len(down) : i \in 1 .. Len(stop) /\ down[i] = stop[i]
    BY <2>1 DEF SleepIInv, UnitInv, InSleep
  <2>3. \A i \in 1 .. Len(stop) : stop[i] \in Handlers \cup CoreUnits
    BY <2>1
  <2>4. \A x \in Handlers \cup CoreUnits : x \notin AnalogUnits
    BY HandlerAssumption DEF CoreUnits, AnalogUnits
  <2>5. \A i \in DOMAIN down : down[i] \notin AnalogUnits
    BY <2>2, <2>3, <2>4
  <2> QED
    BY <2>5, Zenon DEF Range
<1> QED
  BY <1>1, SleepInvariant, PTL

(* Whenever the core runs, the power unit is set for its clock.            *)
THEOREM PmuCoversHolds == SleepSpec => []PmuCovers
<1>1. SleepIInv => PmuCovers
  BY DEF SleepIInv, PmuInv, PmuCovers, Awake, InSleep
<1> QED
  BY <1>1, SleepInvariant, PTL

(* A sleep leaves the floor of the frequency as it found it.               *)
THEOREM FloorRestoredHolds == SleepSpec => []FloorRestored
<1>1. SleepIInv => FloorRestored
  BY DEF SleepIInv, FloorInv, FloorRestored, Floor
<1> QED
  BY <1>1, SleepInvariant, PTL

(* No unit stays stopped after a sleep, ended early or not.                *)
THEOREM NothingLeftDownHolds == SleepSpec => []NothingLeftDown
<1>1. SleepIInv => NothingLeftDown
  BY DEF SleepIInv, UnitInv, NothingLeftDown, Awake, InSleep
<1> QED
  BY <1>1, SleepInvariant, PTL

(* Units are woken in the reverse of the order they were stopped in.       *)
THEOREM MirrorOrderHolds == SleepSpec => MirrorOrder
<1>1. SleepIInv /\ [SleepNext]_allVars =>
         [down' # down => down' = Front(down) \/ pc # "wake"]_allVars
  <2> SUFFICES ASSUME SleepIInv, [SleepNext]_allVars, down' # down, pc = "wake"
               PROVE  down' = Front(down)
    OBVIOUS
  <2>1. WakeUnit
    BY Stages DEF hal_sleep_enter_sleep, StopUnit, hal_cmu_lpu_sleep, DeepWake,
                  ReturnFromSleep, Aside
  <2> QED
    BY <2>1, WakesLast
<1> QED
  BY <1>1, SleepInvariant, PTL DEF SleepSpec, MirrorOrder

(* The sleep uses the frequency manager as its own specification allows,   *)
(* so that what is proved of the manager holds around every sleep.         *)
THEOREM SleepImplementsFrequency == SleepSpec => Spec
<1>1. SleepInit => Init
  BY DEF SleepInit
<1>2. SleepIInv /\ [SleepNext]_allVars => [Next]_vars
  BY FrequencyStep
<1> QED
  BY <1>1, <1>2, SleepInvariant, PTL DEF SleepSpec, Spec
=============================================================================
