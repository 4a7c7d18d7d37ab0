----------------------------- MODULE AppSysFreq -----------------------------
(***************************************************************************)
(* Frequency requests of the applications (apps/common/app_utils.c) on top *)
(* of the frequency manager.                                               *)
(*                                                                         *)
(* Users of the "quality of service" kind add up: the code keeps what each *)
(* of them wants, converts it to MHz, adds, converts the sum back to a     *)
(* frequency of the chip and asks hal_sysfreq for it in the name of one    *)
(* pseudo user.  The other applications go to hal_sysfreq directly.        *)
(***************************************************************************)
EXTENDS SysFreq, FiniteSetsExt

CONSTANTS
    QosUsers,       \* positions of user_map
    USER_QOS        \* APP_SYSFREQ_USER_QOS, the pseudo user

(* HAL_CMU_FREQ_T of best1307: 32K 6P5M 13M 26M 52M 78M 104M 144M 208M.    *)
ASSUME ChipAssumption == FREQ_QTY = 9 /\ FREQ_26M = 3 /\ FREQ_52M = 4
ASSUME UserAssumption == USER_QOS \in Users /\ IsFiniteSet(QosUsers)

VARIABLE qos_freqs_map      \* what each QoS user wants; FREQ_32K: not active

appVars == <<vars, qos_freqs_map>>

(* APP_SYSFREQ_FREQ_T, the frequencies an application can name.            *)
AppFreqs == {0, 3, 4, 5, 6, 8}

(* In MHz; the entries that have no initialiser are 0.                     *)
freq_map(f) == <<0, 0, 0, 26, 52, 78, 104, 0, 208>>[f + 1]

max_qos_freq(wants) == SumFunction([q \in QosUsers |-> freq_map(wants[q])])

(* The scan of freq_map: the first entry that covers mhz where the entry   *)
(* before it does not, and the last frequency when there is none.          *)
Covering(mhz) ==
    {i \in Freqs : IF i = 0 THEN mhz = freq_map(0)
                   ELSE freq_map(i - 1) < mhz /\ mhz <= freq_map(i)}

qos_freq_num(mhz) == IF Covering(mhz) = {} THEN FREQ_QTY - 1 ELSE Min(Covering(mhz))

(* Mutant: the pseudo user never asks for less.                            *)
OnlyRaise(q, freq) ==
    /\ freq < FREQ_QTY
    /\ qos_freqs_map' = [qos_freqs_map EXCEPT ![q] = freq]
    /\ LET want == qos_freq_num(max_qos_freq(qos_freqs_map'))
       IN  hal_sysfreq_req(USER_QOS, IF want < sysfreq_per_user[USER_QOS]
                                     THEN sysfreq_per_user[USER_QOS] ELSE want)

app_qosfreq_req(q, freq) ==
    /\ freq < FREQ_QTY
    /\ qos_freqs_map' = [qos_freqs_map EXCEPT ![q] = freq]
    /\ hal_sysfreq_req(USER_QOS, qos_freq_num(max_qos_freq(qos_freqs_map')))

(* app_sysfreq_req for a user that is not in QOS_USERS.                    *)
app_sysfreq_req(user, freq) ==
    /\ hal_sysfreq_req(user, freq)
    /\ UNCHANGED qos_freqs_map

AppInit == Init /\ qos_freqs_map = [q \in QosUsers |-> FREQ_32K]

(* What drivers and the sleep manager ask for, past app_sysfreq_req.       *)
DriverNext ==
    \/ \E user \in (0 .. USER_QTY) \ {USER_QOS}, freq \in 0 .. FREQ_QTY : hal_sysfreq_req(user, freq)
    \/ \E freq \in Floors : hal_sysfreq_set_min_freq(freq)
    \/ \E freq \in Floors : hal_sysfreq_inc_min_freq(freq)

AppNext ==
    \/ \E q \in QosUsers, freq \in AppFreqs \cup {FREQ_QTY} : app_qosfreq_req(q, freq)
    \/ \E user \in Users \ {USER_QOS}, freq \in AppFreqs : app_sysfreq_req(user, freq)
    \/ /\ DriverNext \/ ClockWrite
       /\ UNCHANGED qos_freqs_map

AppSpec == AppInit /\ [][AppNext]_appVars

-----------------------------------------------------------------------------
(* What the clock really gives, in MHz.                                    *)
RealMHz(f) == <<0, 6, 13, 26, 52, 78, 104, 144, 208>>[f + 1]

Wanted == SumFunction([q \in QosUsers |-> RealMHz(qos_freqs_map[q])])

AppTypeOK == TypeOK /\ qos_freqs_map \in [QosUsers -> AppFreqs]

(* The promise in the comment above QOS_USERS: users that run together get *)
(* the sum of what they asked for, whatever the others ask for and give up *)
(* in between, or else the highest frequency there is; and they hold no    *)
(* more than that.  The pseudo user's request is the least frequency an    *)
(* application can name that covers the sum, so the device can slow down,  *)
(* and sleep, when the last of them has let go.                            *)
QosLeast ==
    LET enough == {f \in AppFreqs : RealMHz(f) >= Wanted}
    IN  /\ AppTypeOK
        /\ sysfreq_per_user[USER_QOS] = IF enough = {} THEN FREQ_QTY - 1 ELSE Min(enough)
=============================================================================
