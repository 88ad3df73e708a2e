--------------------------- MODULE EthernetSwitch ----------------------------
(***************************************************************************)
(* One output port of an Ethernet switch (ethernet-switch.cc, on the       *)
(* virtual output queues of nvswitch.cc), as functions of the port's       *)
(* state: admission to the queue with its drop points, the PFC pause that  *)
(* is latched per hop (input port and virtual channel), the headroom for   *)
(* packets already on their way, and the RESUME with its bounded re-sends. *)
(* Control and retry frames count in the queue but only the hard cap stops *)
(* them.                                                                   *)
(*                                                                         *)
(* MaybeSendPfcPause schedules a watcher that reschedules itself until it  *)
(* lifts the latch, and RESUME a chain of re-sends that lasts as long as   *)
(* its budget: so one watcher is pending exactly while a hop is latched    *)
(* and one re-send exactly while it has a budget.                          *)
(***************************************************************************)
EXTENDS Integers, Sequences, FiniteSetsExt

CONSTANTS
    VoqDepth,       \* m_voqDepth
    PauseThreshold, \* m_pfcPauseThreshold
    ResumeOffset,   \* m_pfcResumeOffset
    Headroom,       \* m_pfcHeadroomChunks, 0 for no bound
    ResendLimit     \* PFC_RESUME_RESEND_LIMIT

ASSUME SwitchAssumption ==
    /\ {VoqDepth, PauseThreshold, ResumeOffset, Headroom, ResendLimit} \subseteq Nat
    /\ VoqDepth > 0 /\ PauseThreshold > 0 /\ ResendLimit > 0

\* The header of no pause.
NoHeader == [src |-> "none", class |-> <<"none", 0>>]

NewPort(hops) ==
    [voq     |-> <<>>,                       \* frames, each with its hop
     latched |-> {},                         \* m_pfcPaused
     used    |-> [h \in hops |-> 0],         \* m_pfcHeadroomUsed
     header  |-> [h \in hops |-> NoHeader],  \* m_lastPfcPauseHeader
     resends |-> [h \in hops |-> 0]]         \* m_pfcResumeResends

\* What the queue holds of a data packet, and of a control or retry frame.
DataEntry(src, packet, hop) == [src |-> src, packet |-> packet, hop |-> hop]
ExemptEntry(hop) == DataEntry("none", <<"exempt", 0>>, hop)

IsData(entry) == entry.packet[1] # "exempt"
DataLen(voq) == Cardinality({i \in DOMAIN voq : IsData(voq[i])})

\* The depth a hop's pause is decided on: the whole port's, or its channel's
\* when thresholds are configured per channel.
Depth(port, perVc, hop) ==
    IF perVc THEN Cardinality({i \in DOMAIN port.voq : port.voq[i].hop[2] = hop[2]})
    ELSE Len(port.voq)

\* EffectivePfcPauseThreshold: mode 2 scales the threshold down as the port
\* fills, but never below 1.
EffectivePfcPauseThreshold(port, mode) ==
    IF mode = 2
      THEN Max({1, (PauseThreshold * Max({0, VoqDepth - Len(port.voq)})) \div VoqDepth})
      ELSE PauseThreshold

\* MaybeSendPfcPause acts.
PauseDue(port, mode, perVc, hop) ==
    /\ mode # 0 /\ hop \notin port.latched
    /\ Depth(port, perVc, hop) >= EffectivePfcPauseThreshold(port, mode)

\* A fresh pause cycle: the header is kept for the RESUME, the headroom is
\* fresh and the re-sends of the last RESUME are retired.
Latched(port, hop, header) ==
    [port EXCEPT !.latched = @ \cup {hop}, !.used[hop] = 0,
                 !.header[hop] = header, !.resends[hop] = 0]

\* The hard cap and the headroom turn a packet away before PFC looks at it.
Refused(port, hop) ==
    \/ Len(port.voq) >= VoqDepth
    \/ Headroom > 0 /\ hop \in port.latched /\ port.used[hop] >= Headroom

\* Mutant of Charged: the headroom is not charged.
ChargedNothing(port, before, hop) == port

\* A packet admitted while its hop was latched is charged to the headroom.
Charged(port, before, hop) ==
    IF Headroom > 0 /\ hop \in before.latched
      THEN [port EXCEPT !.used[hop] = @ + 1] ELSE port

\* Depth at which a latched hop is resumed.
ResumeLevel(port, mode) == Max({0, EffectivePfcPauseThreshold(port, mode) - ResumeOffset})

Congested(port, mode, perVc, hop) == Depth(port, perVc, hop) > ResumeLevel(port, mode)

\* Mutant of Unlatched: RESUME is sent once.
UnlatchedOnce(port, hop) ==
    [port EXCEPT !.latched = @ \ {hop}, !.used[hop] = 0]

\* The latch is lifted, the headroom retired, the RESUME's re-sends armed.
Unlatched(port, hop) ==
    [port EXCEPT !.latched = @ \ {hop}, !.used[hop] = 0, !.resends[hop] = ResendLimit]

\* ResendPfcResume: with the last re-send the header goes too.
Resent(port, hop) ==
    [port EXCEPT !.resends[hop] = @ - 1,
                 !.header[hop] = IF port.resends[hop] = 1 THEN NoHeader ELSE @]
=============================================================================
