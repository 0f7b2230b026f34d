---------------------------- MODULE MCDeviceIntake ----------------------------
(* Instances of DeviceIntake for TLC. *)
EXTENDS DeviceIntake, SequencesExt

CONSTANTS root, ann, bob, p1, p2, lock1, lock2, k1, k2, r1, r2, r3

Order == (root :> 1) @@ (ann :> 2) @@ (bob :> 3)
Managers == (p1 :> ann) @@ (p2 :> bob)
OneDevice == lock1 :> [project |-> p1, connection |-> "online"]
\* lock2 is an Omni lock.
NoUnlock == {<<lock2, "unlock">>}

NewDevices == [kind : {"create_device"}, user : {ann}, project : {p1, p2}, device : {lock1, lock2}]
              \cup [kind : {"create_device"}, user : {root}, project : {p2}, device : {lock2}]
Lives == [kind : {"update_device"}, user : {ann}, device : {lock1}, rename : {FALSE},
          to : {"active", "disabled", "deleted"}]
         \cup [kind : {"update_device"}, user : {ann}, device : {lock1}, rename : {TRUE}, to : {"same", "active"}]
Renaming == [kind : {"update_device"}, user : {ann, bob}, device : {lock1, lock2}, rename : {TRUE}, to : {"same"}]
NewCommands == [kind : {"create_command"}, user : {ann, Machine}, project : {p1}, device : {lock1},
                key : {k1}, action : Actions]
OtherCommands == [kind : {"create_command"}, user : {Machine}, project : {p1, p2}, device : {lock1, lock2},
                  key : {k1, k2}, action : {"unlock"}]
Cancelling == [kind : {"cancel_command"}, user : {ann, Machine}, project : {p1}, key : {k1}]
Transfers == [kind : {"transfer"}, user : {root}, project : {p1}, target : {bob}]
Reports == [kind : {"connection"}, device : {lock1}, to : {"offline"}]

\* Two operations of A in no order, and one of B.
Unordered(A, B) ==
    LET a == SetToSeq(A) IN
    UNION {{(r1 :> a[i]) @@ (r2 :> a[j]) @@ (r3 :> b) : b \in B} :
              <<i, j>> \in {ij \in (1 .. Len(a)) \X (1 .. Len(a)) : ij[1] <= ij[2]}}

\* A Command is created, and cancelled while its Device changes.
CancelledMeanwhile ==
    {(r1 :> a) @@ (r2 :> b) @@ (r3 :> c) :
        a \in {a \in NewCommands : a.user = ann}, b \in Cancelling, c \in Lives}

\* Commands of one key race each other, a change of the Device and a transfer;
\* Devices of one identity are created side by side; one Device is changed twice.
Contention ==
    Unordered(NewCommands, Lives \cup Transfers \cup Reports \cup Cancelling \cup OtherCommands)
    \cup Unordered(NewDevices, Renaming \cup Transfers \cup OtherCommands)
    \cup Unordered(Lives, Lives \cup Transfers)
    \cup Unordered(Cancelling, NewCommands)
    \cup CancelledMeanwhile
=============================================================================
