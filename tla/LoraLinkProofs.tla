--------------------------- MODULE LoraLinkProofs ---------------------------
(***************************************************************************)
(* The two invariants of the radio's hand-shake, proved of the hand-shake  *)
(* by itself.  Neither is inductive: what holds at the end is carried      *)
(* through the steps by Underway.                                          *)
(***************************************************************************)
EXTENDS LoraLink, TLAPS

\* What each step may rely on: a late answer that shows the contract shows the
\* registers of the module, which nothing takes from it again; the key is
\* written in memory only where the registers agree; and after the writes the
\* module is configured unless a command was lost.
Underway ==
    /\ "contract" \in late => chipRegs = "contract"
    /\ cfgStep \in {"crypt", "verified"} => chipRegs = "contract"
    /\ cfgStep \in {"confirm", "verified", "leave", "done"} =>
          (~disturbed => chipRegs = "contract" /\ chipKey)
    /\ cfgStep = "done" => mode = "normal"

E22Inv == E22TypeOK /\ Underway

LEMMA InitE22 == E22Init => E22Inv
  BY DEF E22Init, E22Inv, E22TypeOK, Underway, RegValues, CfgSteps

\* Each step of configureE22 keeps the invariant.
LEMMA StepE22 == E22Inv /\ [configureE22]_e22Vars => E22Inv'
<1> SUFFICES ASSUME E22Inv, [configureE22]_e22Vars PROVE E22Inv'
  OBVIOUS
<1> USE DEF E22Inv, E22TypeOK, Underway, RegValues, CfgSteps, chip
<1>1. ASSUME NEW ok \in BOOLEAN, EnterConfig(ok) PROVE E22Inv'
  BY <1>1 DEF EnterConfig
<1>2. ASSUME NEW ok \in BOOLEAN, WriteCryptTemp(ok) PROVE E22Inv'
  BY <1>2 DEF WriteCryptTemp, e22_buildWriteCryptTempCommand
<1>3. ASSUME NEW ok \in BOOLEAN, NEW aux \in BOOLEAN, WriteRegs(ok, aux) PROVE E22Inv'
  BY <1>3 DEF WriteRegs, e22_buildWriteCommand
<1>4. ASSUME NEW a \in Answers, ReadRegs(a) PROVE E22Inv'
  <2>1. late' \subseteq {chipRegs} /\ cfgStep' \in {"crypt", "write"}
    BY <1>4 DEF ReadRegs
  <2>2. cfgStep' = "crypt" => chipRegs = "contract"
    BY <1>4 DEF ReadRegs, MatchesContract
  <2> QED BY <1>4, <2>1, <2>2 DEF ReadRegs
<1>5. ASSUME NEW a \in Answers, ConfirmRegs(a) PROVE E22Inv'
  <2>1. cfgStep' \in {"verified", "leave"}
    BY <1>5 DEF ConfirmRegs
  <2>2. cfgStep' = "verified" => chipRegs = "contract"
    BY <1>5 DEF ConfirmRegs, MatchesContract
  <2> QED BY <1>5, <2>1, <2>2 DEF ConfirmRegs
<1>6. CASE LeaveConfig
  BY <1>6 DEF LeaveConfig
<1>7. CASE UNCHANGED e22Vars
  BY <1>7 DEF e22Vars
<1> QED BY <1>1, <1>2, <1>3, <1>4, <1>5, <1>6, <1>7 DEF configureE22

\* Traffic starts on a module that is back in transparent mode and, unless AUX or
\* a command failed, has the contract's registers and the key.
THEOREM RadioReady == E22Spec => []RadioConfigured
<1>1. E22Inv => RadioConfigured
  BY DEF E22Inv, Underway, RadioConfigured
<1> QED BY InitE22, StepE22, <1>1, PTL DEF E22Spec

\* A verification that configureE22 logs is true of the module, whichever of two
\* answers it was read from.
THEOREM ConfirmIsTrue == E22Spec => []ConfirmTruthful
<1>1. E22Inv => ConfirmTruthful
  BY DEF E22Inv, Underway, ConfirmTruthful
<1> QED BY InitE22, StepE22, <1>1, PTL DEF E22Spec
=============================================================================
