------------------------------- MODULE SysFreq -------------------------------
(***************************************************************************)
(* The system frequency manager (platform/hal/hal_sysfreq.c).              *)
(*                                                                         *)
(* Every user asks for a frequency and the clock runs at the highest one   *)
(* that is asked for, or at a floor.  The code does not take the maximum   *)
(* at each request: it keeps the user that asked for the maximum,          *)
(* top_user, and scans the table only when that user asks for less.        *)
(*                                                                         *)
(* Each function runs with the interrupts locked.  A request writes three  *)
(* pieces of hardware one after the other, the clock, the power unit that  *)
(* feeds it and the PLL that a fast clock is derived from: `phase' is the  *)
(* write that comes next.                                                  *)
(***************************************************************************)
EXTENDS Naturals

CONSTANTS
    USER_QTY,   \* HAL_SYSFREQ_USER_QTY
    FREQ_QTY,   \* HAL_CMU_FREQ_QTY; a frequency is its position in the enum
    FREQ_26M,   \* HAL_CMU_FREQ_26M
    FREQ_52M    \* HAL_CMU_FREQ_52M, the fastest clock that needs no PLL

FREQ_32K == 0   \* HAL_CMU_FREQ_32K: the user asks for nothing

ASSUME QtyAssumption == USER_QTY \in Nat \ {0} /\ FREQ_QTY \in Nat
ASSUME FreqAssumption ==
    /\ FREQ_26M \in Nat /\ FREQ_52M \in Nat
    /\ 0 < FREQ_26M /\ FREQ_26M < FREQ_52M /\ FREQ_52M < FREQ_QTY

Users == 0 .. (USER_QTY - 1)
Freqs == 0 .. (FREQ_QTY - 1)
Floors == FREQ_32K .. FREQ_52M      \* nobody raises the floor above 52M

VARIABLES
    sysfreq_per_user,   \* what each user asks for
    top_user,           \* the user that is served; USER_QTY before any request
    min_sysfreq,        \* the floor
    clk,                \* the clock: hal_cmu_sys_set_freq, hal_cmu_sys_get_freq
    pmu,                \* what the power unit is set for: pmu_sys_freq_config
    pll,                \* whether the system's PLL runs
    real_cur_freq,      \* a request's local: the clock it started from
    phase               \* the hardware write that a request makes next

reqVars == <<sysfreq_per_user, top_user>>
hwClock == <<clk, pmu, pll>>
writeVars == <<real_cur_freq, phase>>
vars == <<reqVars, min_sysfreq, hwClock, writeVars>>

Phases == {"none", "raise_pmu", "raise_pll", "raise_clk",
           "lower_clk", "lower_pll", "lower_pmu"}

-----------------------------------------------------------------------------
(* hal_sysfreq_revise_freq under the floor m.                              *)
Revise(freq, m) ==
    LET f == IF freq = FREQ_32K THEN FREQ_26M ELSE freq
    IN  IF f > m THEN f ELSE m

hal_sysfreq_revise_freq(freq) == Revise(freq, min_sysfreq)

hal_sysfreq_get == IF top_user < USER_QTY THEN sysfreq_per_user[top_user] ELSE clk

hal_sysfreq_get_hw_freq ==
    IF top_user < USER_QTY THEN hal_sysfreq_revise_freq(sysfreq_per_user[top_user])
    ELSE clk

hal_sysfreq_busy == \E u \in Users : sysfreq_per_user[u] # FREQ_32K

(* The scan of the table: the first of the users that ask for the most.    *)
TopOf(table) ==
    CHOOSE u \in Users : \A v \in Users : /\ table[v] <= table[u]
                                          /\ v < u => table[v] < table[u]

-----------------------------------------------------------------------------
(* Start the hardware writes for a change from cur to freq, if any.        *)
Retarget(cur, freq, first) ==
    IF hal_sysfreq_revise_freq(freq) # hal_sysfreq_revise_freq(cur)
    THEN phase' = first /\ real_cur_freq' = hal_sysfreq_revise_freq(cur)
    ELSE UNCHANGED writeVars

ReqEqual(user, freq) ==
    /\ freq = hal_sysfreq_get
    /\ sysfreq_per_user' = [sysfreq_per_user EXCEPT ![user] = freq]
    /\ top_user' = user
    /\ UNCHANGED writeVars

(* Mutant: the clock is raised before the power unit.                      *)
RaiseClockFirst(user, freq) ==
    /\ freq > hal_sysfreq_get
    /\ sysfreq_per_user' = [sysfreq_per_user EXCEPT ![user] = freq]
    /\ top_user' = user
    /\ Retarget(hal_sysfreq_get, freq, "lower_clk")

ReqMore(user, freq) ==
    /\ freq > hal_sysfreq_get
    /\ sysfreq_per_user' = [sysfreq_per_user EXCEPT ![user] = freq]
    /\ top_user' = user
    /\ Retarget(hal_sysfreq_get, freq, "raise_pmu")

(* The top user asks for less: somebody else may be the maximum now.       *)
ReqLessTop(user, freq) ==
    LET table == [sysfreq_per_user EXCEPT ![user] = freq]
    IN  /\ freq < hal_sysfreq_get
        /\ top_user = user
        /\ sysfreq_per_user' = table
        /\ top_user' = TopOf(table)
        /\ Retarget(hal_sysfreq_get, table[TopOf(table)], "lower_clk")

ReqLessFirst(user, freq) ==
    /\ freq < hal_sysfreq_get
    /\ top_user = USER_QTY
    /\ sysfreq_per_user' = [sysfreq_per_user EXCEPT ![user] = freq]
    /\ top_user' = user
    /\ Retarget(hal_sysfreq_get, freq, "lower_clk")

ReqLessOther(user, freq) ==
    /\ freq < hal_sysfreq_get
    /\ top_user \notin {user, USER_QTY}
    /\ sysfreq_per_user' = [sysfreq_per_user EXCEPT ![user] = freq]
    /\ UNCHANGED <<top_user, writeVars>>

Serve(user, freq) ==
    /\ phase = "none"
    /\ \/ ReqEqual(user, freq)
       \/ ReqMore(user, freq)
       \/ ReqLessTop(user, freq)
       \/ ReqLessFirst(user, freq)
       \/ ReqLessOther(user, freq)
    /\ UNCHANGED <<min_sysfreq, hwClock>>

(* A user or a frequency that does not exist is refused.                   *)
hal_sysfreq_req(user, freq) ==
    /\ user < USER_QTY /\ freq < FREQ_QTY
    /\ Serve(user, freq)

(* Power unit and PLL come before the clock on the way up and after it on  *)
(* the way down.                                                           *)
WriteThen(next) ==
    /\ phase' = next
    /\ real_cur_freq' = IF next = "none" THEN FREQ_32K ELSE real_cur_freq
    /\ UNCHANGED <<reqVars, min_sysfreq>>

hal_cmu_sys_set_freq ==
    /\ phase \in {"raise_clk", "lower_clk"}
    /\ clk' = hal_sysfreq_get_hw_freq
    /\ WriteThen(IF phase = "lower_clk" THEN "lower_pll" ELSE "none")
    /\ UNCHANGED <<pmu, pll>>

pmu_sys_freq_config ==
    /\ phase \in {"raise_pmu", "lower_pmu"}
    /\ pmu' = hal_sysfreq_get_hw_freq
    /\ WriteThen(IF phase = "raise_pmu" THEN "raise_pll" ELSE "none")
    /\ UNCHANGED <<clk, pll>>

(* The PLL is switched only by a change that crosses 52M.                  *)
hal_cmu_low_freq_mode_disable ==
    /\ phase = "raise_pll"
    /\ pll' = IF real_cur_freq <= FREQ_52M /\ hal_sysfreq_get_hw_freq > FREQ_52M
              THEN TRUE ELSE pll
    /\ WriteThen("raise_clk")
    /\ UNCHANGED <<clk, pmu>>

(* Mutant: the PLL is left running by a change that ends at 52M itself.    *)
KeepPllAt52M ==
    /\ phase = "lower_pll"
    /\ pll' = IF real_cur_freq > FREQ_52M /\ hal_sysfreq_get_hw_freq < FREQ_52M
              THEN FALSE ELSE pll
    /\ WriteThen("lower_pmu")
    /\ UNCHANGED <<clk, pmu>>

hal_cmu_low_freq_mode_enable ==
    /\ phase = "lower_pll"
    /\ pll' = IF real_cur_freq > FREQ_52M /\ hal_sysfreq_get_hw_freq <= FREQ_52M
              THEN FALSE ELSE pll
    /\ WriteThen("lower_pmu")
    /\ UNCHANGED <<clk, pmu>>

(* Mutant: the new floor is compared with the old floor, not with what the *)
(* clock runs at.                                                          *)
SetMinOnlyRaises(freq) ==
    /\ phase = "none"
    /\ min_sysfreq' = freq
    /\ clk' = IF freq > min_sysfreq THEN Revise(hal_sysfreq_get, freq) ELSE clk
    /\ UNCHANGED <<reqVars, pmu, pll, writeVars>>

(* The floor moves the clock but leaves the power unit and the PLL alone.  *)
hal_sysfreq_set_min_freq(freq) ==
    /\ phase = "none"
    /\ min_sysfreq' = freq
    /\ clk' = IF hal_sysfreq_revise_freq(hal_sysfreq_get) # Revise(hal_sysfreq_get, freq)
              THEN Revise(hal_sysfreq_get, freq) ELSE clk
    /\ UNCHANGED <<reqVars, pmu, pll, writeVars>>

(* The caller keeps the floor there was, to set it again.                  *)
hal_sysfreq_inc_min_freq(freq) ==
    /\ phase = "none"
    /\ IF freq > min_sysfreq THEN hal_sysfreq_set_min_freq(freq) ELSE UNCHANGED vars

-----------------------------------------------------------------------------
(* hal_cmu_setup puts the clock at 26M and stops the PLL before the first  *)
(* request; the power unit is as the boot ROM left it, for 26M or more.    *)
Init ==
    /\ sysfreq_per_user = [u \in Users |-> FREQ_32K]
    /\ top_user = USER_QTY
    /\ min_sysfreq = FREQ_32K
    /\ clk = FREQ_26M
    /\ pmu \in FREQ_26M .. (FREQ_QTY - 1)
    /\ pll = FALSE
    /\ real_cur_freq = FREQ_32K
    /\ phase = "none"

ClockWrite ==
    \/ hal_cmu_sys_set_freq \/ pmu_sys_freq_config
    \/ hal_cmu_low_freq_mode_disable \/ hal_cmu_low_freq_mode_enable

Next ==
    \/ \E user \in 0 .. USER_QTY, freq \in 0 .. FREQ_QTY : hal_sysfreq_req(user, freq)
    \/ ClockWrite
    \/ \E freq \in Floors : hal_sysfreq_set_min_freq(freq)
    \/ \E freq \in Floors : hal_sysfreq_inc_min_freq(freq)

Spec == Init /\ [][Next]_vars

-----------------------------------------------------------------------------
TypeOK ==
    /\ sysfreq_per_user \in [Users -> Freqs]
    /\ top_user \in 0 .. USER_QTY
    /\ min_sysfreq \in Floors
    /\ clk \in Freqs /\ pmu \in Freqs /\ real_cur_freq \in Freqs
    /\ pll \in BOOLEAN
    /\ phase \in Phases

(* The user kept in top_user asks for as much as anybody, however the      *)
(* requests of all users were mixed: the shortcut of hal_sysfreq_req never *)
(* loses the maximum.  Before the first request nobody asks for anything.  *)
TopIsMax ==
    IF top_user < USER_QTY
    THEN \A u \in Users : sysfreq_per_user[u] <= sysfreq_per_user[top_user]
    ELSE ~hal_sysfreq_busy

(* When the writes are done, the clock runs at the frequency that          *)
(* hal_sysfreq_get_hw_freq reports, although a request skips the writes    *)
(* whenever it believes they would change nothing, and no floor and no     *)
(* user has less than it asked for.                                        *)
ClockServesAll ==
    phase = "none" =>
        /\ clk = hal_sysfreq_get_hw_freq
        /\ clk >= min_sysfreq
        /\ \A u \in Users : clk >= sysfreq_per_user[u]

(* A clock above 52M never runs without the PLL, at no step of a request,  *)
(* and between requests the PLL runs only if the clock needs it; although  *)
(* a request switches it by the two frequencies it goes between, never     *)
(* looks at its state, and a move of the floor does not switch it at all.  *)
PllMatches ==
    /\ clk > FREQ_52M => pll
    /\ phase = "none" /\ pll => clk > FREQ_52M

(* What these need besides.  Nobody is served before the first request,    *)
(* when the clock is what the boot set or a floor raised it to.  Until the *)
(* clock is written it runs at the frequency the request started from, and *)
(* afterwards at the one it asks for.  A request that crosses 52M crosses  *)
(* it in the direction its writes are ordered for, and the PLL runs for    *)
(* the side of 52M that the request has got to.                            *)
WriteInv ==
    /\ top_user = USER_QTY => phase = "none" /\ clk >= FREQ_26M
    /\ phase \in {"raise_pmu", "raise_pll", "lower_clk"} =>
          real_cur_freq = clk /\ (pll <=> clk > FREQ_52M)
    /\ phase \in {"raise_pmu", "raise_pll", "raise_clk"} =>
          (clk > FREQ_52M => hal_sysfreq_get_hw_freq > FREQ_52M)
    /\ phase = "raise_clk" => (pll <=> hal_sysfreq_get_hw_freq > FREQ_52M)
    /\ phase \in {"lower_clk", "lower_pll"} =>
          (hal_sysfreq_get_hw_freq > FREQ_52M => real_cur_freq > FREQ_52M)
    /\ phase \in {"lower_pll", "lower_pmu"} => clk = hal_sysfreq_get_hw_freq
    /\ phase = "lower_pll" => (pll <=> real_cur_freq > FREQ_52M)
    /\ phase = "lower_pmu" => (pll <=> clk > FREQ_52M)

IInv == TypeOK /\ TopIsMax /\ ClockServesAll /\ PllMatches /\ WriteInv
=============================================================================
