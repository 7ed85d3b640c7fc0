----------------------------- MODULE TouchPanel -----------------------------
(***************************************************************************)
(* The touch commands of the display: DisplayHMI::readTouchCommand and the *)
(* switch of vTask_HMI_Display that posts them, byte by byte.              *)
(*                                                                         *)
(* The panel sends three bytes per press, header, command and complement;  *)
(* one byte of a frame may be lost, altered or preceded by a stray one.    *)
(***************************************************************************)
EXTENDS Integers, Sequences, SequencesExt

CONSTANTS
    Commands,    \* the HMI_CMD_ codes the driver may press
    StrayBytes,  \* bytes a disturbed line may deliver
    MaxPresses,  \* bound on the presses
    MaxRx        \* bound on the bytes under way

ASSUME TouchAssumption ==
    /\ Commands \subseteq 1..4 /\ StrayBytes \subseteq 0..255
    /\ MaxPresses \in Nat /\ MaxRx \in Nat \ 0..2

VARIABLES
    rx,          \* bytes under way, each with the command it must complete or 0
    rxState,     \* the parser's static state, 0..2
    pendingCmd,  \* its static command byte
    pressed,     \* observer: presses of each command
    posted,      \* postEvent calls for each command
    intact       \* observer: the last frame sent arrived undamaged

touchVars == <<rx, rxState, pendingCmd, pressed, posted, intact>>

Bytes == 0..255

TouchTypeOK ==
    /\ rx \in Seq(Bytes \X (0..4)) /\ Len(rx) <= MaxRx
    /\ rxState \in 0..2
    /\ pendingCmd \in Bytes
    /\ pressed \in [1..4 -> 0..MaxPresses]
    /\ posted \in [1..4 -> Nat]
    /\ intact \in BOOLEAN

TouchInit ==
    /\ rx = <<>> /\ rxState = 0 /\ pendingCmd = 0
    /\ pressed = [c \in 1..4 |-> 0] /\ posted = [c \in 1..4 |-> 0]
    /\ intact = TRUE

Frame(c) == <<90, c, 255 - c>>

Damaged(f) ==
    {RemoveAt(f, k) : k \in 1..3}
      \cup {ReplaceAt(f, k, b) : k \in 1..3, b \in StrayBytes}
      \cup {InsertAt(f, k, b) : k \in 1..3, b \in StrayBytes}

\* A press whose frame is intact, and is owed an answer when the one before it
\* was intact too, or is damaged.
Press(c) ==
    /\ pressed[1] + pressed[2] + pressed[3] + pressed[4] < MaxPresses
    /\ \E f \in {Frame(c)} \cup Damaged(Frame(c)) :
          /\ Len(rx) + Len(f) <= MaxRx
          /\ intact' = (f = Frame(c))
          /\ rx' = rx \o [k \in DOMAIN f |->
                             <<f[k], IF intact /\ intact' /\ k = 3 THEN c ELSE 0>>]
    /\ pressed' = [pressed EXCEPT ![c] = @ + 1]
    /\ UNCHANGED <<rxState, pendingCmd, posted>>

\* HMI_drainRxBuffer in begin(): a press during the boot is thrown away, up to
\* the bytes of it that are yet to arrive.
drainRxBuffer ==
    /\ \E c \in Commands, k \in 2..4 :
          /\ rx' = [n \in 1 .. 4 - k |-> <<Frame(c)[k + n - 1], 0>>]
          /\ intact' = (k = 4)
    /\ UNCHANGED <<rxState, pendingCmd, pressed, posted>>

(***************************************************************************)
(* What the parser does with one byte: its next state, its command byte,   *)
(* and the command it completes, 0 for none.                               *)
(***************************************************************************)
Parsed(state, pending, cmd) == [state |-> state, pending |-> pending, cmd |-> cmd]

\* Mutant: the check byte is not compared.
MutNoChecksum(state, pending, b) ==
    CASE b \in {255, 0} -> Parsed(0, pending, 0)
      [] b \notin {255, 0} /\ state = 0 -> Parsed(IF b = 90 THEN 1 ELSE 0, pending, 0)
      [] b \notin {255, 0} /\ state = 1 -> Parsed(2, b, 0)
      [] b \notin {255, 0} /\ state = 2 -> Parsed(0, pending, pending)

\* Mutant: the parser starts over only after a right check byte.
MutNoReset(state, pending, b) ==
    CASE b \in {255, 0} -> Parsed(0, pending, 0)
      [] b \notin {255, 0} /\ state = 0 -> Parsed(IF b = 90 THEN 1 ELSE 0, pending, 0)
      [] b \notin {255, 0} /\ state = 1 -> Parsed(2, b, 0)
      [] b \notin {255, 0} /\ state = 2 ->
            IF b = 255 - pending THEN Parsed(0, pending, pending) ELSE Parsed(2, pending, 0)

ParseByte(state, pending, b) ==
    CASE b \in {255, 0} -> Parsed(0, pending, 0)
      [] b \notin {255, 0} /\ state = 0 -> Parsed(IF b = 90 THEN 1 ELSE 0, pending, 0)
      [] b \notin {255, 0} /\ state = 1 -> Parsed(2, b, 0)
      [] b \notin {255, 0} /\ state = 2 ->
            Parsed(0, pending, IF b = 255 - pending THEN pending ELSE 0)

\* One byte is read; a command outside the four is only logged.
ReadByte ==
    /\ rx # <<>>
    /\ LET r == ParseByte(rxState, pendingCmd, Head(rx)[1])
       IN  /\ rxState' = r.state /\ pendingCmd' = r.pending
           /\ posted' = [c \in 1..4 |-> posted[c] + IF c = r.cmd THEN 1 ELSE 0]
    /\ rx' = Tail(rx)
    /\ UNCHANGED <<pressed, intact>>

\* The byte at the head of rx completes a command, which ends the poll.
Completes == ParseByte(rxState, pendingCmd, Head(rx)[1]).cmd # 0

-----------------------------------------------------------------------------
\* No command is posted that the driver did not press: not from what one damaged
\* byte per frame leaves of it, nor twice for one press.
NoPhantomCommand == \A c \in 1..4 : posted[c] <= pressed[c]

\* A damaged frame costs at most the press after it: an intact press that follows
\* an intact one is recognised at its last byte, wherever the damage left the
\* parser and however the polls cut the bytes.
PressHeard ==
    [][rx # <<>> /\ rx' = Tail(rx) /\ Head(rx)[2] # 0
         => posted'[Head(rx)[2]] = posted[Head(rx)[2]] + 1]_touchVars
=============================================================================
