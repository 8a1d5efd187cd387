---------------------------- MODULE EmulatedDelay ----------------------------
(***************************************************************************)
(* The delays with which a transmitter makes its links equally slow in     *)
(* split mode, and what a TSU makes of them: the computations of the TSU   *)
(* branch of GmaVirtualInterface::RecvCtrlMsg.                             *)
(*                                                                         *)
(* DelayEmulation is the transmitter around them and MeasurementCycle the  *)
(* loop that they close with the receiver; both extend this module.        *)
(***************************************************************************)
EXTENDS Integers, FiniteSets

CONSTANTS
    Links,                 \* the configured cids
    MaxDelayChangePerTSU,  \* maxDelayChangePerTSU, 127 in the code
    NoOwd                  \* UINT8_MAX in a TSU: no measurement for the link

ASSUME LinksAssumption ==
    /\ Links \subseteq 0 .. 254
    /\ Links # {}
    /\ IsFiniteSet(Links)
ASSUME ChangeAssumption == MaxDelayChangePerTSU \in Nat \ {0}

VARIABLE m_emulateDelay    \* per link, the delay added to every packet

NoDelay == [link \in Links |-> 0]

Smallest(S) == CHOOSE n \in S : \A m \in S : n <= m

\* Mutant: the change per TSU is not limited.
UncappedRaise(owd) == IF owd = NoOwd THEN 0 ELSE owd

\* What a reported delay adds to the emulated delay of its link.
Raise(owd) ==
    IF owd = NoOwd THEN 0
    ELSE IF owd <= MaxDelayChangePerTSU THEN owd
    ELSE MaxDelayChangePerTSU

RaisedDelay(owds) == [link \in Links |-> m_emulateDelay[link] + Raise(owds[link])]

\* minEmulatedDelay, taken off every link.
MinEmulatedDelay(owds) == Smallest({RaisedDelay(owds)[link] : link \in Links})

\* Mutant: the minimum is taken off the delays before they were raised.
NewDelayFromOld(owds) ==
    [link \in Links |-> m_emulateDelay[link] - MinEmulatedDelay(owds)]

NewDelay(owds) ==
    [link \in Links |-> RaisedDelay(owds)[link] - MinEmulatedDelay(owds)]

\* emulateDelayOffset.
DelayOffset(owds) ==
    [link \in Links |-> Raise(owds[link]) - MinEmulatedDelay(owds)]

\* The slowest link is never delayed: however the TSUs add up, one link has no
\* emulated delay (the subtraction of minEmulatedDelay).
SomeLinkUndelayed == \E link \in Links : m_emulateDelay[link] = 0

=============================================================================
