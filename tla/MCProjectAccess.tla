---------------------------- MODULE MCProjectAccess ----------------------------
(* Instances of ProjectAccess for TLC. *)
EXTENDS ProjectAccess, SequencesExt

CONSTANTS root, ann, bob, eve, p1, p2, r1, r2, r3, ip1

\* root sorts first, so that its row is locked before the others.
Order == (root :> 1) @@ (ann :> 2) @@ (bob :> 3) @@ (eve :> 4)
         @@ (EmailKey(root, ip1) :> 5) @@ (EmailKey(ann, ip1) :> 6) @@ (IPKey(ip1) :> 7)
         @@ (EmailKey(bob, ip1) :> 8) @@ (EmailKey(eve, ip1) :> 9)

AnnsProject == (p1 :> ann) @@ (p2 :> NoOne)

Transfers == [kind : {"transfer"}, user : {root}, project : {p1}, target : {ann, bob}]
Disabling == [kind : {"status"}, user : {root}, target : {ann, bob}, status : {"disabled"}]
Enabling == [kind : {"status"}, user : {root}, target : {bob}, status : {"active"}]
Creations == [kind : {"create"}, user : {root}, project : {p2}, target : {bob, eve}]
Registration == [kind : {"register"}, user : {root}, target : {eve}]
Updates == [kind : {"update"}, user : {ann}, project : {p1}, sensitive : BOOLEAN]
           \cup [kind : {"update"}, user : {bob, root}, project : {p1}, sensitive : {FALSE}]
Sessions == [kind : {"refresh", "logout"}, user : {bob}]
Logins == [kind : {"login"}, user : {bob}, ip : {ip1}, password : BOOLEAN]
          \cup [kind : {"login"}, user : {ann, eve}, ip : {ip1}, password : {FALSE}]
Refused == [kind : {"transfer"}, user : {ann, bob}, project : {p1}, target : {bob}]
           \cup [kind : {"transfer"}, user : {root}, project : {p2}, target : {bob}]
           \cup [kind : {"update"}, user : {root}, project : {p2}, sensitive : {TRUE}]
           \cup [kind : {"status"}, user : {root}, target : {root, eve}, status : {"disabled"}]
           \cup [kind : {"register"}, user : {ann}, target : {eve}]

\* Two operations of A in no order, and one of B.
Unordered(A, B) ==
    LET a == SetToSeq(A) IN
    UNION {{(r1 :> a[i]) @@ (r2 :> a[j]) @@ (r3 :> b) : b \in B} :
              <<i, j>> \in {ij \in (1 .. Len(a)) \X (1 .. Len(a)) : ij[1] <= ij[2]}}

\* Managers are replaced, disabled and created while Projects are changed; the
\* sessions of one User begin and end; logins fail.
Contention ==
    Unordered(Transfers \cup Disabling, Updates \cup Creations \cup Transfers)
    \cup Unordered(Disabling \cup Enabling \cup Sessions, Sessions \cup Logins)
    \cup Unordered(Logins, Logins)
    \cup Unordered(Registration, Creations \cup Logins \cup Refused)
=============================================================================
