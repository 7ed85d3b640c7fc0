--------------------------- MODULE RelayOpsProofs ---------------------------
(***************************************************************************)
(* What the relay operations guarantee for every wiring, every pattern of  *)
(* lost writes and either condition of the bus.                            *)
(***************************************************************************)
EXTENDS RelayOps, TLAPS

\* A burst of latch writes, whichever of them are lost, changes only olat.
LEMMA WriteOlatFacts ==
    ASSUME NEW r \in RelayState, NEW on \in SUBSET Channel, NEW lost
    PROVE  LET x == writeOlat(r, on, lost)
           IN  /\ x \in RelayState
               /\ x.shadow = r.shadow /\ x.out = r.out /\ x.fault = r.fault
               /\ x.started = r.started /\ x.age = r.age
  BY DEF writeOlat, RelayState

\* A burst of direction writes changes only out.
LEMMA WriteIodirFacts ==
    ASSUME NEW r \in RelayState, NEW lost
    PROVE  LET x == writeIodir(r, lost)
           IN  /\ x \in RelayState
               /\ x.shadow = r.shadow /\ x.olat = r.olat /\ x.fault = r.fault
               /\ x.started = r.started /\ x.age = r.age
  BY DEF writeIodir, RelayState

\* reinitAndReassert rewrites the chip and nothing else.
LEMMA ReinitFacts ==
    ASSUME NEW r \in RelayState, NEW spi, NEW x \in reinitAndReassert(r, spi)
    PROVE  /\ x \in RelayState
           /\ x.shadow = r.shadow /\ x.fault = r.fault
           /\ x.started = r.started /\ x.age = r.age
  <1>1. PICK l \in LostWrites(spi) \X LostWrites(spi) \X LostWrites(spi) :
           x = writeOlat(writeIodir(writeOlat(r, {}, l[1]), l[2]), r.shadow, l[3])
    BY DEF reinitAndReassert
  <1> DEFINE high == writeOlat(r, {}, l[1])
             outp == writeIodir(high, l[2])
  <1>2. /\ high \in RelayState /\ high.shadow = r.shadow /\ high.fault = r.fault
        /\ high.started = r.started /\ high.age = r.age
    BY WriteOlatFacts
  <1> HIDE DEF high
  <1>3. /\ outp \in RelayState /\ outp.shadow = high.shadow /\ outp.fault = high.fault
        /\ outp.started = high.started /\ outp.age = high.age
    BY <1>2, WriteIodirFacts
  <1> HIDE DEF outp
  <1>4. x = writeOlat(outp, r.shadow, l[3])
    BY <1>1 DEF high, outp
  <1>5. r.shadow \in SUBSET Channel
    BY DEF RelayState
  <1> QED
    BY <1>2, <1>3, <1>4, <1>5, WriteOlatFacts

\* verifyOutputs keeps the shadow word and, when it leaves no fault latched,
\* has changed nothing and found the chip in agreement.
THEOREM VerifyOutputsFacts ==
    ASSUME NEW r \in RelayState, NEW spi, NEW x \in verifyOutputs(r, spi)
    PROVE  /\ x \in RelayState
           /\ x.shadow = r.shadow /\ x.started = r.started /\ x.age = r.age
           /\ ~hasActuatorFault(x) => x = r /\ ChipMatches(r)
  <1>1. CASE x = r /\ ChipMatches(r)
    BY <1>1
  <1>2. CASE \E y \in reinitAndReassert(r, spi) : x = [y EXCEPT !.fault = TRUE]
    <2>1. PICK y \in reinitAndReassert(r, spi) : x = [y EXCEPT !.fault = TRUE]
      BY <1>2
    <2>2. /\ y \in RelayState
          /\ y.shadow = r.shadow /\ y.started = r.started /\ y.age = r.age
      BY ReinitFacts
    <2>3. x \in RelayState /\ x.fault = TRUE
      BY <2>1, <2>2 DEF RelayState
    <2>4. x.shadow = y.shadow /\ x.started = y.started /\ x.age = y.age
      BY <2>1, <2>2 DEF RelayState
    <2> QED
      BY <2>2, <2>3, <2>4 DEF hasActuatorFault
  <1> QED
    BY <1>1, <1>2 DEF verifyOutputs

\* A command (allOn, allOff, setRelay) leaves its word in the shadow, and a
\* chip that agrees with it unless the actuator fault is latched: a command
\* whose writes were lost is never believed.
THEOREM CommandFacts ==
    ASSUME NEW r \in RelayState, NEW on \in SUBSET Channel, NEW spi,
           NEW x \in command(r, on, spi)
    PROVE  /\ x \in RelayState
           /\ x.shadow = on /\ x.started = r.started /\ x.age = r.age
           /\ ~hasActuatorFault(x) => ChipMatches(x)
  <1> DEFINE r1 == [r EXCEPT !.shadow = on]
  <1>1. PICK lost \in LostWrites(spi) : x \in verifyOutputs(writeOlat(r1, on, lost), spi)
    BY DEF command
  <1>2. /\ r1 \in RelayState /\ r1.shadow = on
        /\ r1.started = r.started /\ r1.age = r.age
    BY DEF RelayState
  <1> HIDE DEF r1
  <1> DEFINE r2 == writeOlat(r1, on, lost)
  <1>3. /\ r2 \in RelayState /\ r2.shadow = on
        /\ r2.started = r.started /\ r2.age = r.age
    BY <1>2, WriteOlatFacts
  <1> HIDE DEF r2
  <1>4. x \in verifyOutputs(r2, spi)
    BY <1>1 DEF r2
  <1> QED
    BY <1>3, <1>4, VerifyOutputsFacts

\* The periodic check keeps the shadow word, leaves a started period that has
\* not elapsed, and either latches the fault or leaves the chip as it was,
\* having found it in agreement when the period had elapsed.
LEMMA VerifyIfDueFacts ==
    ASSUME NEW r \in RelayState, NEW spi, NEW x \in verifyIfDue(r, spi)
    PROVE  /\ x \in RelayState
           /\ x.shadow = r.shadow
           /\ x.started /\ x.age < VerifyTicks
           /\ ~hasActuatorFault(x) =>
                 /\ ~hasActuatorFault(r)
                 /\ x.olat = r.olat /\ x.out = r.out
                 /\ r.started => x.age = r.age \/ ChipMatches(r)
  <1> USE RelayAssumption
  <1>1. CASE ~r.started
    <2>1. x = [r EXCEPT !.started = TRUE, !.age = 0]
      BY <1>1 DEF verifyIfDue
    <2>2. 0 \in 0..VerifyTicks /\ 0 < VerifyTicks
      OBVIOUS
    <2>3. x \in RelayState
      BY <2>1, <2>2 DEF RelayState
    <2>4. /\ x.shadow = r.shadow /\ x.olat = r.olat /\ x.out = r.out
          /\ x.fault = r.fault /\ x.started = TRUE /\ x.age = 0
      BY <2>1 DEF RelayState
    <2> QED
      BY <1>1, <2>2, <2>3, <2>4 DEF hasActuatorFault
  <1>2. CASE r.started /\ r.age < VerifyTicks
    BY <1>2 DEF verifyIfDue
  <1>3. CASE r.started /\ ~(r.age < VerifyTicks)
    <2> DEFINE r1 == [r EXCEPT !.age = 0]
    <2>1. /\ r1 \in RelayState /\ r1.shadow = r.shadow /\ r1.fault = r.fault
          /\ r1.olat = r.olat /\ r1.out = r.out
          /\ r1.started = r.started /\ r1.age = 0
      BY DEF RelayState
    <2>2. x \in verifyOutputs(r1, spi)
      BY <1>3 DEF verifyIfDue
    <2> HIDE DEF r1
    <2>3. /\ x \in RelayState /\ x.shadow = r1.shadow
          /\ x.started = r1.started /\ x.age = r1.age
          /\ ~hasActuatorFault(x) => x = r1 /\ ChipMatches(r1)
      BY <2>1, <2>2, VerifyOutputsFacts
    <2>4. 0 < VerifyTicks
      OBVIOUS
    <2>5. ~hasActuatorFault(x) =>
              /\ ~hasActuatorFault(r)
              /\ x.olat = r.olat /\ x.out = r.out
              /\ ChipMatches(r)
      BY <2>1, <2>3 DEF hasActuatorFault, ChipMatches
    <2> QED
      BY <1>3, <2>1, <2>3, <2>4, <2>5
  <1> QED
    BY <1>1, <1>2, <1>3

-----------------------------------------------------------------------------
(* A working bus: whatever is written arrives.                             *)

\* reinitAndReassert over a working bus makes the chip agree with the shadow.
LEMMA ReinitRepairs ==
    ASSUME NEW r \in RelayState, NEW x \in reinitAndReassert(r, "ok")
    PROVE  ChipMatches(x)
  <1>1. PICK l \in LostWrites("ok") \X LostWrites("ok") \X LostWrites("ok") :
           x = writeOlat(writeIodir(writeOlat(r, {}, l[1]), l[2]), r.shadow, l[3])
    BY DEF reinitAndReassert
  <1>2. l[2] = {} /\ l[3] = {}
    BY DEF LostWrites
  <1> DEFINE high == writeOlat(r, {}, l[1])
             outp == writeIodir(high, {})
  <1>3. high \in RelayState /\ high.shadow = r.shadow
    BY WriteOlatFacts
  <1> HIDE DEF high
  <1>4. outp \in RelayState /\ outp.shadow = r.shadow /\ outp.out = Port
    BY <1>3, WriteIodirFacts DEF writeIodir, RelayState
  <1> HIDE DEF outp
  <1>5. x = writeOlat(outp, r.shadow, {})
    BY <1>1, <1>2 DEF high, outp
  <1>6. r.shadow \in SUBSET Channel
    BY DEF RelayState
  <1>7. x.shadow = r.shadow /\ x.out = Port
    BY <1>4, <1>5, <1>6, WriteOlatFacts
  <1>8. x.olat = r.shadow
    BY <1>4, <1>5, <1>6 DEF writeOlat, RelayState
  <1> QED
    BY <1>7, <1>8 DEF ChipMatches

\* A read-back over a working bus leaves the chip in agreement.
LEMMA VerifyRepairs ==
    ASSUME NEW r \in RelayState, NEW x \in verifyOutputs(r, "ok")
    PROVE  ChipMatches(x)
  <1>1. CASE x = r /\ ChipMatches(r)
    BY <1>1
  <1>2. CASE \E y \in reinitAndReassert(r, "ok") : x = [y EXCEPT !.fault = TRUE]
    <2>1. PICK y \in reinitAndReassert(r, "ok") : x = [y EXCEPT !.fault = TRUE]
      BY <1>2
    <2>2. y \in RelayState /\ ChipMatches(y)
      BY ReinitFacts, ReinitRepairs
    <2>3. x.shadow = y.shadow /\ x.olat = y.olat /\ x.out = y.out
      BY <2>1, <2>2 DEF RelayState
    <2> QED
      BY <2>2, <2>3 DEF ChipMatches
  <1> QED
    BY <1>1, <1>2 DEF verifyOutputs

\* So does a command.
LEMMA CommandRepairs ==
    ASSUME NEW r \in RelayState, NEW on \in SUBSET Channel,
           NEW x \in command(r, on, "ok")
    PROVE  ChipMatches(x)
  <1> DEFINE r1 == [r EXCEPT !.shadow = on]
  <1>1. PICK lost \in LostWrites("ok") : x \in verifyOutputs(writeOlat(r1, on, lost), "ok")
    BY DEF command
  <1>2. r1 \in RelayState
    BY DEF RelayState
  <1> HIDE DEF r1
  <1>3. writeOlat(r1, on, lost) \in RelayState
    BY <1>2, WriteOlatFacts
  <1> QED
    BY <1>1, <1>3, VerifyRepairs

\* So does the periodic check, except where its period has not elapsed: then
\* it does nothing.
LEMMA VerifyIfDueRepairs ==
    ASSUME NEW r \in RelayState, r.started, NEW x \in verifyIfDue(r, "ok")
    PROVE  ChipMatches(x) \/ (r.age < VerifyTicks /\ x = r)
  <1>1. CASE r.age < VerifyTicks
    BY <1>1 DEF verifyIfDue
  <1>2. CASE ~(r.age < VerifyTicks)
    <2>1. [r EXCEPT !.age = 0] \in RelayState
      BY RelayAssumption DEF RelayState
    <2>2. x \in verifyOutputs([r EXCEPT !.age = 0], "ok")
      BY <1>2 DEF verifyIfDue
    <2> QED
      BY <2>1, <2>2, VerifyRepairs
  <1> QED
    BY <1>1, <1>2

-----------------------------------------------------------------------------
\* begin leaves a well-formed driver with nothing commanded on.
LEMMA BeginFacts ==
    ASSUME NEW spi, NEW x \in begin(spi)
    PROVE  x \in RelayState /\ x.shadow = {}
  <1>1. PICK l \in LostWrites(spi) \X LostWrites(spi) :
           x \in verifyOutputs(writeIodir(writeOlat(PowerOn, {}, l[1]), l[2]), spi)
    BY DEF begin
  <1>2. PowerOn \in RelayState /\ PowerOn.shadow = {}
    BY RelayAssumption DEF PowerOn, RelayState
  <1> DEFINE high == writeOlat(PowerOn, {}, l[1])
             outp == writeIodir(high, l[2])
  <1>3. high \in RelayState /\ high.shadow = {}
    BY <1>2, WriteOlatFacts
  <1> HIDE DEF high
  <1>4. outp \in RelayState /\ outp.shadow = {}
    BY <1>3, WriteIodirFacts
  <1>5. x \in verifyOutputs(outp, spi)
    BY <1>1 DEF high
  <1> HIDE DEF outp
  <1> QED
    BY <1>4, <1>5, VerifyOutputsFacts
=============================================================================
