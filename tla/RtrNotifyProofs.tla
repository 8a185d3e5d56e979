-------------------------- MODULE RtrNotifyProofs --------------------------
(***************************************************************************)
(* Theorems about RtrNotify: serial numbers are compared as RFC 1982 asks, *)
(* and Serial Notifies keep their distance, for all constants.             *)
(***************************************************************************)
EXTENDS RtrNotify, TLAPS

\* serial_number_greater holds of exactly the serial numbers less than half
\* of all ahead, across the wrap-around.
THEOREM SerialOrder ==
    ASSUME NEW s \in Serial, NEW d \in 0 .. (SerialModulus - 1)
    PROVE  serial_number_greater(Plus(s, d), s) <=> d \in 1 .. (Half - 1)
<1>1. CASE s + d < SerialModulus
  BY <1>1, HalfAssumption DEF serial_number_greater, Plus, Serial, SerialModulus
<1>2. CASE s + d >= SerialModulus
  BY <1>2, HalfAssumption DEF serial_number_greater, Plus, Serial, SerialModulus
<1> QED BY <1>1, <1>2, HalfAssumption DEF Serial, SerialModulus

\* The next check is never nearer than the end of the interval that the last
\* Serial Notify began.
RateInv ==
    \A c \in Cxn : /\ check_time[c] \in 0 .. NotifyInterval
                   /\ quiet[c] \in 0 .. NotifyInterval
                   /\ check_time[c] + quiet[c] >= NotifyInterval

\* What RateInv needs of the types.
RateType ==
    /\ check_time \in [Cxn -> Int] /\ quiet \in [Cxn -> Int]
    /\ gap \in [Cxn -> Int]

RateIndInv == RateType /\ RateInv /\ NotifyRate

LEMMA RateInit == NotifyInit => RateIndInv
  BY IntervalAssumption DEF NotifyInit, RateIndInv, RateType, RateInv, NotifyRate

\* A thread that ends forgets its history.
LEMMA LeaveRate ==
    ASSUME RateIndInv, NEW c \in Cxn, Leave(c)
    PROVE  RateIndInv'
  BY IntervalAssumption DEF Leave, RateIndInv, RateType, RateInv, NotifyRate

\* A check that finds news comes NotifyInterval after the last Serial Notify.
LEMMA CheckRate ==
    ASSUME RateIndInv, NEW c \in Cxn, CheckGlobalCacheState(c)
    PROVE  RateIndInv'
<1>1. CASE Leave(c)
  BY <1>1, LeaveRate
<1>2. CASE /\ gap' = [gap EXCEPT ![c] = quiet[c]]
           /\ quiet' = [quiet EXCEPT ![c] = 0]
           /\ check_time' = [check_time EXCEPT ![c] = NotifyInterval]
  <2>1. check_time[c] = 0
    BY DEF CheckGlobalCacheState
  <2>2. quiet[c] = NotifyInterval
    BY <2>1, IntervalAssumption DEF RateIndInv, RateType, RateInv
  <2> QED BY <1>2, <2>2, IntervalAssumption
             DEF RateIndInv, RateType, RateInv, NotifyRate
<1>3. CASE /\ check_time' = [check_time EXCEPT ![c] = CheckInterval]
           /\ UNCHANGED <<quiet, gap>>
  <2>1. check_time[c] = 0
    BY DEF CheckGlobalCacheState
  <2> QED BY <1>3, <2>1, IntervalAssumption
             DEF RateIndInv, RateType, RateInv, NotifyRate
<1> QED BY <1>1, <1>2, <1>3 DEF CheckGlobalCacheState

\* Time brings the check nearer no faster than it passes.
LEMMA TickRate == ASSUME RateIndInv, Tick PROVE RateIndInv'
  BY IntervalAssumption DEF Tick, RateIndInv, RateType, RateInv, NotifyRate

LEMMA RateStep == RateIndInv /\ [NotifyNext]_vars => RateIndInv'
<1> SUFFICES ASSUME RateIndInv, [NotifyNext]_vars PROVE RateIndInv'
  OBVIOUS
<1> DEFINE Same == UNCHANGED <<check_time, quiet, gap>>
<1>1. CASE Same
  BY <1>1 DEF RateIndInv, RateType, RateInv, NotifyRate
<1>2. ASSUME NEW c \in Cxn, Connect(c) PROVE RateIndInv'
  BY <1>2, IntervalAssumption
     DEF Connect, RateIndInv, RateType, RateInv, NotifyRate
<1>3. ASSUME NEW c \in Cxn, Disconnect(c) PROVE RateIndInv'
  BY <1>3, LeaveRate DEF Disconnect
<1>4. ASSUME NEW c \in Cxn, QuerySession(c) PROVE RateIndInv'
  BY <1>1, <1>4, LeaveRate DEF QuerySession
<1>5. ASSUME NEW c \in Cxn, EndOfData(c) PROVE RateIndInv'
  BY <1>1, <1>5, LeaveRate DEF EndOfData
<1>6. ASSUME NEW c \in Cxn,
             \/ ReceiveQuery(c) \/ QuerySerial(c) \/ WakeUp(c)
             \/ QueryRefused(c) \/ SkipCheck(c)
      PROVE  RateIndInv'
  BY <1>1, <1>6 DEF ReceiveQuery, QuerySerial, WakeUp, QueryRefused, SkipCheck
<1>7. CASE \/ Publish \/ ClearSession \/ ClearUpdate \/ Initialize
           \/ GetSession \/ GetLatestSernum \/ GetLatestSernumFails
  BY <1>1, <1>7 DEF Publish, ClearSession, ClearUpdate, Initialize, GetSession,
                    GetLatestSernum, GetLatestSernumFails, cxnVars
<1>8. CASE UNCHANGED vars
  BY <1>1, <1>8 DEF vars, cxnVars
<1> QED
  BY <1>2, <1>3, <1>4, <1>5, <1>6, <1>7, <1>8, CheckRate, TickRate
     DEF NotifyNext, CxnStep

\* Serial Notifies are at least NotifyInterval apart on every connection, for
\* any number of connections and any intervals.
THEOREM NotifyRateHolds == NotifySpec => []NotifyRate
<1>1. RateIndInv => NotifyRate
  BY DEF RateIndInv
<1> QED BY <1>1, RateInit, RateStep, PTL DEF NotifySpec
=============================================================================
