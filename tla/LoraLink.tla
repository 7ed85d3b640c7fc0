------------------------------ MODULE LoraLink ------------------------------
(***************************************************************************)
(* LoraLink::configureE22, the hand-shake with the E22 radio at boot, over *)
(* the command builders and parsers of lib/E22Config.                      *)
(*                                                                         *)
(* The task switches the module to its configuration mode, reads the       *)
(* registers and, when they differ from the contract or could not be read, *)
(* writes them to flash together with the key; when they agree it writes   *)
(* only the key, which cannot be read back, to the module's RAM.  It then  *)
(* switches back, whatever happened.  AUX may never become ready, and any  *)
(* command or answer may be lost, refused, garbled or late.                *)
(***************************************************************************)

VARIABLES
    cfgStep,   \* where configureE22 is: "verified" once it has logged that the
               \* written registers were verified, "done" when it has returned
    mode,      \* what the mode pins select: "normal" or "config"
    chipRegs,  \* the module's ADDH..REG3: "contract" or "other"
    chipKey,   \* the module holds E22_CRYPT_KEY
    late,      \* an answer to the read command that has not arrived in time
    disturbed  \* observer: AUX timed out or a command did not reach the module

e22Vars == <<cfgStep, mode, chipRegs, chipKey, late, disturbed>>
chip    == <<chipRegs, chipKey>>

RegValues == {"contract", "other"}
CfgSteps  == {"enter", "read", "crypt", "write", "confirm", "verified", "leave",
              "done"}

E22TypeOK ==
    /\ cfgStep \in CfgSteps
    /\ mode \in {"normal", "config"}
    /\ chipRegs \in RegValues /\ chipKey \in BOOLEAN
    /\ late \subseteq RegValues
    /\ disturbed \in BOOLEAN

\* Whatever earlier boots and the factory left in the module.
E22Init ==
    /\ cfgStep = "enter" /\ mode = "normal"
    /\ chipRegs \in RegValues /\ chipKey \in BOOLEAN
    /\ late = {} /\ disturbed = FALSE

(***************************************************************************)
(* What a read of the UART delivers: the registers in an answer's frame, a *)
(* refusal (FF FF FF), or nothing usable (no answer, a short or a garbled  *)
(* one).                                                                   *)
(***************************************************************************)
Answers == {"refused", "unusable"} \cup RegValues

e22_isErrorResponse(a) == a = "refused"

\* What the two write commands carry: C0 all registers and the key, C2 the key.
e22_buildWriteCommand          == [regs |-> "contract", key |-> TRUE]
e22_buildWriteCryptTempCommand == [key |-> TRUE]

\* Mutant: any well-formed answer counts as agreement.
MutAnyFrame(a) == a \in RegValues

\* e22_parseRegResponse, then e22_regsEqual with E22_CONTRACT_REGS.
MatchesContract(a) == ~e22_isErrorResponse(a) /\ a = "contract"

EnterConfig(auxReady) ==
    /\ cfgStep = "enter"
    /\ mode' = "config"
    /\ cfgStep' = IF auxReady THEN "read" ELSE "leave"
    /\ disturbed' = (disturbed \/ ~auxReady)
    /\ UNCHANGED <<chip, late>>

\* The read command may be lost or refused; its answer, if one is on its way,
\* may come too late for this read.
ReadRegs(a) ==
    /\ cfgStep = "read"
    /\ a \in RegValues => a = chipRegs
    /\ cfgStep' = IF MatchesContract(a) THEN "crypt" ELSE "write"
    /\ late' \in IF a = "unusable" THEN {{}, {chipRegs}} ELSE {{}}
    /\ UNCHANGED <<mode, chip, disturbed>>

\* Mutant: registers that agree end the hand-shake, the key is not written.
MutCryptSkipped(delivered) ==
    /\ cfgStep = "crypt"
    /\ disturbed' = (disturbed \/ ~delivered)
    /\ cfgStep' = "leave"
    /\ UNCHANGED <<mode, chip, late>>

\* C2 to the RAM of the module; the answer is only logged.
WriteCryptTemp(delivered) ==
    /\ cfgStep = "crypt"
    /\ chipKey' = IF delivered THEN e22_buildWriteCryptTempCommand.key ELSE chipKey
    /\ disturbed' = (disturbed \/ ~delivered)
    /\ cfgStep' = "leave"
    /\ UNCHANGED <<mode, chipRegs, late>>

\* The buffer is flushed, C0 goes out with all registers and the key, and AUX
\* is awaited; a late answer not yet received survives the flush.
WriteRegs(delivered, auxReady) ==
    /\ cfgStep = "write"
    /\ chipRegs' = IF delivered THEN e22_buildWriteCommand.regs ELSE chipRegs
    /\ chipKey' = IF delivered THEN e22_buildWriteCommand.key ELSE chipKey
    /\ disturbed' = (disturbed \/ ~delivered)
    /\ late' \in {late, {}}
    /\ cfgStep' = IF auxReady THEN "confirm" ELSE "leave"
    /\ UNCHANGED <<mode>>

\* The answer read here is the module's, or the late one of the first read.
ConfirmRegs(a) ==
    /\ cfgStep = "confirm"
    /\ a \in RegValues => a \in {chipRegs} \cup late
    /\ cfgStep' = IF MatchesContract(a) THEN "verified" ELSE "leave"
    /\ UNCHANGED <<mode, chip, late, disturbed>>

\* Back to transparent mode; the outcome of the last AUX wait is ignored.  An
\* answer that is still late reaches the loop, where its bytes may be anything:
\* the loop's free choice of what it receives covers them.
LeaveConfig ==
    /\ cfgStep \in {"verified", "leave"}
    /\ mode' = "normal"
    /\ cfgStep' = "done" /\ late' = {}
    /\ UNCHANGED <<chip, disturbed>>

configureE22 ==
    \/ \E ok \in BOOLEAN :
          EnterConfig(ok) \/ WriteCryptTemp(ok) \/ \E aux \in BOOLEAN : WriteRegs(ok, aux)
    \/ \E a \in Answers : ReadRegs(a) \/ ConfirmRegs(a)
    \/ LeaveConfig

\* The hand-shake by itself; Uplink runs it as its second phase.
E22Spec == E22Init /\ [][configureE22]_e22Vars

-----------------------------------------------------------------------------
\* Traffic starts in transparent mode, and on a module that has the contract's
\* registers and the key whenever every command reached it: whatever was in it
\* before, on the path that finds the registers right as on the other.
RadioConfigured ==
    cfgStep = "done" =>
        /\ mode = "normal"
        /\ ~disturbed => chipRegs = "contract" /\ chipKey

\* A verification that is logged is true of the module, also when the answer
\* that was compared is a late one to the first read.
ConfirmTruthful == cfgStep = "verified" => chipRegs = "contract"
=============================================================================
