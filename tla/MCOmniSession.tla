----------------------------- MODULE MCOmniSession -----------------------------
(* Instances of OmniSession for TLC. *)
EXTENDS OmniSession, TLC

CONSTANTS bike, iot, x1, x2, c1, c2, d1, d2

\* Every Device is a bike lock, so the IoT listener must refuse it; every Command is
\* for x1.
AllBike == [x \in Devices |-> bike]
ToX1 == [d \in Dispatches |-> x1]

\* What the peers send: x1's handshake and noise, or frames of two Devices on one
\* connection.
OwnFrames == {[command |-> "Q0", imei |-> x1], Garbled}
FewFrames == {[command |-> "Q0", imei |-> x1], [command |-> "H0", imei |-> x1],
              [command |-> "H0", imei |-> x2]}

\* Connections, and Commands for one Device, are interchangeable.
ConnSymmetry == Permutations(Conns) \cup Permutations(Dispatches)

\* Bound: the second Command is dispatched while nothing but handshakes has come in
\* and no Device's row has changed.  It restrains peers, administrators and workers,
\* of whose steps no fairness is assumed.
Undisturbed == /\ \A h \in audits : h.frame.command = "Q0"
               /\ \A x \in Devices : lifecycle[x] \in {"absent", "active"}
RuntimeSpec ==
    Init /\ [][Next /\ (dispatch[d2].pc # "idle" => Undisturbed)']_vars /\ Fairness
=============================================================================
