-------------------------- MODULE OmniSession_proofs --------------------------
(***************************************************************************)
(* Proofs about OmniSession for any number of listeners, Devices,          *)
(* connections and Commands, any frame size and any limit.                 *)
(***************************************************************************)
EXTENDS OmniSession, FiniteSetTheorems, SequenceTheorems, TLAPS

\* A reader of lock k keeps the write lock out: what the test of WriteUnique saw
\* is still there.
LockInv ==
    \A d \in Dispatches : dispatch[d].pc \in {"locked", "writing"} =>
        sessions[KeyOf(d)] = {dispatch[d].session}

\* A connection is only bound to a Device of its listener's profile, and the
\* registry has no session of a Device under another profile.
ProfileInv ==
    /\ \A c \in Conns : conn[c].device # None => ProfileOf[conn[c].device] = conn[c].profile
    /\ \A c \in Conns : conn[c].pc = "registering" => conn[c].device # None
    /\ \A p \in Profiles, x \in Devices : sessions[<<p, x>>] # {} => ProfileOf[x] = p

SessionInv == TypeOK /\ LockInv /\ ProfileInv

\* The bytes of a write extend the connection's stream.
LEMMA PutType ==
    ASSUME TypeOK, NEW d \in Dispatches, NEW n \in Nat, Put(d, n)
    PROVE  stream' \in [Conns -> Seq(Dispatches)]
  <1>1. [i \in 1 .. n |-> d] \in Seq(Dispatches)
    OBVIOUS
  <1> DEFINE c == dispatch[d].session.conn
             bytes == [i \in 1 .. n |-> d]
  <1>2. \A s \in Seq(Dispatches) : s \o bytes \in Seq(Dispatches)
    BY <1>1
  <1> HIDE DEF bytes
  <1>3. stream' = [stream EXCEPT ![c] = @ \o bytes]
    BY DEF Put, bytes
  <1> QED
    BY <1>2, <1>3 DEF TypeOK

ConnPlaces == HandlerPlaces \cup {"new", "accepted", "closed"}

\* The places an action moves a connection to.
LEMMA PlaceTypes ==
    /\ {"new", "accepted", "reading", "registering", "ending", "closing", "releasing", "closed"}
          \subseteq ConnPlaces
  BY DEF ConnPlaces, HandlerPlaces

\* The updates of a connection's record that the actions make.
LEMMA ConnUpdates ==
    ASSUME NEW r \in ConnStates, NEW pc \in ConnPlaces, NEW device \in Devices \cup {None},
           NEW gen \in Nat, NEW open \in BOOLEAN
    PROVE  /\ [r EXCEPT !.pc = pc] \in ConnStates
           /\ [r EXCEPT !.open = open] \in ConnStates
           /\ [r EXCEPT !.pc = pc, !.open = open] \in ConnStates
           /\ [r EXCEPT !.pc = pc, !.device = device] \in ConnStates
           /\ [r EXCEPT !.pc = pc, !.gen = gen] \in ConnStates
  BY DEF ConnStates, ConnPlaces

\* Updates of one connection, one listener, one dispatch keep their types.
LEMMA GoType ==
    ASSUME TypeOK, NEW c, NEW pc \in ConnPlaces, Go(c, pc)
    PROVE  conn' \in [Conns -> ConnStates]
  <1>1. \A x \in Conns : [conn[x] EXCEPT !.pc = pc] \in ConnStates
    BY ConnUpdates DEF TypeOK
  <1> QED
    BY <1>1 DEF TypeOK, Go

CurType ==
    /\ listener \in [Profiles -> ListenerStates]
    /\ \A p \in Profiles : listener[p].pc \in {"admitting", "tracking"} => listener[p].cur \in Conns

LEMMA AtType ==
    ASSUME TypeOK, NEW p \in Profiles, NEW c \in Conns \cup {None},
           NEW pc \in {"accepting", "admitting", "tracking", "returning", "returned"}, At(p, pc, c),
           pc \in {"admitting", "tracking"} => c \in Conns
    PROVE  CurType'
  BY DEF TypeOK, At, ListenerStates, CurType

LEMMA RefuseType ==
    ASSUME TypeOK, NEW p \in Profiles, Refuse(p)
    PROVE  /\ conn' \in [Conns -> ConnStates]
           /\ CurType'
  <1>0. \A c \in Conns : [conn[c] EXCEPT !.pc = "closed", !.open = FALSE] \in ConnStates
    BY ConnUpdates, PlaceTypes DEF TypeOK
  <1>1. conn' \in [Conns -> ConnStates]
    BY <1>0 DEF TypeOK, Refuse
  <1>2. CurType'
    BY AtType DEF Refuse
  <1> QED
    BY <1>1, <1>2

LEMMA FinishType ==
    ASSUME TypeOK, NEW d \in Dispatches, NEW written \in 0 .. FrameSize, Finish(d, written)
    PROVE  dispatch' \in [Dispatches -> DispatchStates]
  <1>1. Outcome(written) \in {"transport_error_before_send", "indeterminate"}
    BY DEF Outcome
  <1>2. [dispatch[d] EXCEPT !.pc = "done", !.written = written, !.outcome = Outcome(written)]
          \in DispatchStates
    BY <1>1 DEF TypeOK, DispatchStates
  <1> QED
    BY <1>2 DEF TypeOK, Finish

\* What is not written keeps its type.
LEMMA ListenType ==
    ASSUME TypeOK, NEW p \in Profiles, Listen(p)
    PROVE  TypeOK'
  <1> USE DEF registryVars, dispatchVars, recordVars, CurType
  <1>0. listener[p].pc \in {"admitting", "tracking"} => listener[p].cur \in Conns
    BY DEF TypeOK
  <1>1. CASE Accept(p)
    <2>1. PICK c \in Conns : /\ conn' = [conn EXCEPT ![c] = [NewConn EXCEPT !.pc = "accepted",
                                                   !.profile = p, !.open = TRUE]]
                             /\ At(p, "admitting", c)
      BY <1>1 DEF Accept
    <2>2. [NewConn EXCEPT !.pc = "accepted", !.profile = p, !.open = TRUE] \in ConnStates
      BY DEF NewConn, ConnStates
    <2>3. conn' \in [Conns -> ConnStates]
      BY <2>1, <2>2 DEF TypeOK
    <2>4. CurType'
      BY <2>1, AtType
    <2> QED
      BY <1>1, <2>3, <2>4 DEF Accept, TypeOK
  <1>2. CASE AcceptFails(p)
    BY <1>2, AtType DEF AcceptFails, TypeOK
  <1>3. CASE Admit(p)
    <2>1. CASE slots[p] < MaxConnections
      BY <1>0, <1>3, <2>1, AtType DEF Admit, TypeOK
    <2>2. CASE ~ (slots[p] < MaxConnections)
      BY <1>3, <2>2, RefuseType DEF Admit, TypeOK
    <2> QED
      BY <2>1, <2>2
  <1>4. CASE Track(p)
    <2>1. CASE closing[p] = "open"
      <3>1. conn' \in [Conns -> ConnStates]
        BY <1>4, <2>1, GoType, PlaceTypes DEF Track
      <3>2. CurType'
        BY <1>4, <2>1, AtType DEF Track
      <3>3. active' \in [Profiles -> SUBSET Conns]
        <4>1. active' = [active EXCEPT ![p] = @ \cup {listener[p].cur}] /\ listener[p].cur \in Conns
          BY <1>0, <1>4, <2>1 DEF Track
        <4>2. active \in [Profiles -> SUBSET Conns]
          BY DEF TypeOK
        <4> QED
          BY <4>1, <4>2
      <3> QED
        BY <1>4, <2>1, <3>1, <3>2, <3>3 DEF Track, TypeOK
    <2>2. CASE closing[p] # "open"
      BY <1>4, <2>2, RefuseType DEF Track, TypeOK
    <2> QED
      BY <2>1, <2>2
  <1>5. CASE CloseBegin(p)
    BY <1>5 DEF CloseBegin, TypeOK
  <1>6. CASE CloseEnd(p)
    <2>1. \A c \in Conns : [conn[c] EXCEPT !.open = @ /\ c \notin toClose[p]] \in ConnStates
      <3> TAKE c \in Conns
      <3>1. conn[c] \in ConnStates
        BY DEF TypeOK
      <3>2. (conn[c].open /\ c \notin toClose[p]) \in BOOLEAN
        OBVIOUS
      <3> QED
        BY <3>1, <3>2, ConnUpdates, PlaceTypes
    <2>2. conn' \in [Conns -> ConnStates]
      BY <1>6, <2>1 DEF CloseEnd
    <2> QED
      BY <1>6, <2>2 DEF CloseEnd, TypeOK
  <1>7. CASE ListenerReturns(p)
    BY <1>7, AtType DEF ListenerReturns, TypeOK
  <1> QED
    BY <1>1, <1>2, <1>3, <1>4, <1>5, <1>6, <1>7 DEF Listen

LEMMA HandleType ==
    ASSUME TypeOK, ProfileInv, NEW c \in Conns, Handle(c)
    PROVE  TypeOK'
  <1> USE DEF serverVars, registryVars, dispatchVars, recordVars
  <1>1. ASSUME NEW f \in PeerFrames, Receive(c, f)
        PROVE  TypeOK'
    <2>1. f \in Frames /\ f.imei \in Devices \cup {None}
      BY PeerFramesAssumption DEF Frames, Garbled
    <2>2. Accepted(c, f) \in BOOLEAN
      BY DEF Accepted
    <2>3. audits' \subseteq [conn : Conns, frame : Frames, accepted : BOOLEAN]
      BY <1>1, <2>1, <2>2 DEF Receive, Record, TypeOK
    <2>4. raw' \subseteq [conn : Conns, frame : Frames, device : Devices \cup {None}]
      BY <1>1, <2>1, <2>2 DEF Receive, Record, TypeOK
    <2>5. CASE ~Accepted(c, f)
      <3>1. conn' \in [Conns -> ConnStates]
        BY <1>1, <2>5, GoType, PlaceTypes DEF Receive
      <3> QED
        BY <1>1, <2>3, <2>4, <3>1 DEF Receive, TypeOK
    <2>6. CASE Accepted(c, f) /\ FirstFrame(c)
      <3>1. [conn[c] EXCEPT !.pc = "registering", !.device = f.imei] \in ConnStates
        BY <2>1, ConnUpdates, PlaceTypes DEF TypeOK
      <3>2. conn' \in [Conns -> ConnStates]
        BY <1>1, <2>6, <3>1 DEF Receive, TypeOK
      <3> QED
        BY <1>1, <2>3, <2>4, <3>2 DEF Receive, TypeOK
    <2>7. CASE Accepted(c, f) /\ ~FirstFrame(c)
      BY <1>1, <2>3, <2>4, <2>7 DEF Receive, TypeOK
    <2> QED
      BY <2>5, <2>6, <2>7
  <1>2. CASE Register(c)
    <2> DEFINE k == KeyOfConn(c)
    <2>1. generation' = [generation EXCEPT ![k] = generation[k] + 1]
      BY <1>2 DEF Register
    <2>2. k \in Keys
      BY <1>2, OmniAssumption DEF Register, KeyOfConn, Keys, ProfileInv, TypeOK, ConnStates
    <2>3. generation[k] + 1 \in Nat \ {0}
      BY <2>2 DEF TypeOK
    <2>4. [gen |-> generation[k] + 1, conn |-> c] \in Sessions
      BY <2>3 DEF Sessions
    <2>5. sessions' \in [Keys -> SUBSET Sessions]
      BY <1>2, <2>2, <2>4 DEF Register, TypeOK
    <2>6. generation' \in [Keys -> Nat]
      BY <2>1, <2>3 DEF TypeOK
    <2>7. [conn[c] EXCEPT !.pc = "reading", !.gen = generation[k] + 1] \in ConnStates
      BY <2>3, ConnUpdates, PlaceTypes DEF TypeOK
    <2>8. conn' \in [Conns -> ConnStates]
      BY <1>2, <2>7 DEF Register, TypeOK
    <2> QED
      BY <1>2, <2>5, <2>6, <2>8 DEF Register, TypeOK
  <1>3. CASE Leave(c)
    <2>1. conn' \in [Conns -> ConnStates]
      BY <1>3, GoType, PlaceTypes DEF Leave
    <2> QED
      BY <1>3, <2>1 DEF Leave, TypeOK
  <1>4. CASE Unregister(c)
    <2>1. conn' \in [Conns -> ConnStates]
      BY <1>4, GoType, PlaceTypes DEF Unregister
    <2>2. sessions' \in [Keys -> SUBSET Sessions]
      BY <1>4 DEF Unregister, TypeOK
    <2> QED
      BY <1>4, <2>1, <2>2 DEF Unregister, TypeOK
  <1>5. CASE CloseConn(c)
    <2>1. [conn[c] EXCEPT !.pc = "releasing", !.open = FALSE] \in ConnStates
      BY ConnUpdates, PlaceTypes DEF TypeOK
    <2>2. conn' \in [Conns -> ConnStates]
      BY <1>5, <2>1 DEF CloseConn, TypeOK
    <2> QED
      BY <1>5, <2>2 DEF CloseConn, TypeOK
  <1>6. CASE Release(c)
    <2>1. conn' \in [Conns -> ConnStates]
      BY <1>6, GoType, PlaceTypes DEF Release
    <2>2. active' \in [Profiles -> SUBSET Conns]
      BY <1>6 DEF Release, TypeOK
    <2>3. slots' \in [Profiles -> Int]
      <3>1. slots' = [slots EXCEPT ![conn[c].profile] = @ - 1]
        BY <1>6 DEF Release
      <3>2. slots \in [Profiles -> Int]
        BY DEF TypeOK
      <3>3. CASE conn[c].profile \in Profiles
        BY <3>1, <3>2, <3>3
      <3>4. CASE conn[c].profile \notin Profiles
        <4>1. slots' = slots
          BY <3>1, <3>2, <3>4, Zenon
        <4> QED
          BY <3>2, <4>1
      <3> QED
        BY <3>3, <3>4
    <2> QED
      BY <1>6, <2>1, <2>2, <2>3 DEF Release, TypeOK
  <1> QED
    BY <1>1, <1>2, <1>3, <1>4, <1>5, <1>6 DEF Handle

LEMMA AdaptType ==
    ASSUME TypeOK, NEW d \in Dispatches, Adapt(d)
    PROVE  TypeOK'
  <1> USE DEF serverVars, registryVars, recordVars
  <1>0. 0 \in 0 .. FrameSize
    BY OmniAssumption
  <1>1. CASE Prepare(d)
    <2>1. CASE healthy /\ LookupUnique(d) # {}
      <3>1. PICK s \in LookupUnique(d) :
               dispatch' = [dispatch EXCEPT ![d].pc = "prepared", ![d].session = s]
        BY <1>1, <2>1 DEF Prepare
      <3>2. s \in Sessions
        BY OmniAssumption DEF LookupUnique, KeyOf, Keys, TypeOK
      <3>3. [dispatch[d] EXCEPT !.pc = "prepared", !.session = s] \in DispatchStates
        BY <3>2 DEF TypeOK, DispatchStates
      <3>4. dispatch' \in [Dispatches -> DispatchStates]
        BY <3>1, <3>3 DEF TypeOK
      <3> QED
        BY <1>1, <3>4 DEF Prepare, TypeOK
    <2>2. CASE ~ (healthy /\ LookupUnique(d) # {})
      <3>1. [dispatch[d] EXCEPT !.pc = "done", !.outcome = "session_unavailable"] \in DispatchStates
        BY DEF TypeOK, DispatchStates
      <3>2. dispatch' \in [Dispatches -> DispatchStates]
        BY <1>1, <2>2, <3>1 DEF Prepare, TypeOK
      <3> QED
        BY <1>1, <3>2 DEF Prepare, TypeOK
    <2> QED
      BY <2>1, <2>2
  <1>2. CASE WriteUnique(d)
    <2>1. [dispatch[d] EXCEPT !.pc = "locked"] \in DispatchStates
      BY DEF TypeOK, DispatchStates
    <2>2. [dispatch EXCEPT ![d].pc = "locked"] \in [Dispatches -> DispatchStates]
      BY <2>1 DEF TypeOK
    <2>3. dispatch' \in [Dispatches -> DispatchStates]
      BY <1>0, <1>2, <2>2, FinishType DEF WriteUnique
    <2> QED
      BY <1>2, <2>3 DEF WriteUnique, TypeOK
  <1>3. CASE LockWriter(d)
    <2>1. [dispatch[d] EXCEPT !.pc = "writing"] \in DispatchStates
      BY DEF TypeOK, DispatchStates
    <2>2. [dispatch EXCEPT ![d].pc = "writing"] \in [Dispatches -> DispatchStates]
      BY <2>1 DEF TypeOK
    <2>3. dispatch' \in [Dispatches -> DispatchStates]
      BY <1>0, <1>3, <2>2, FinishType DEF LockWriter
    <2>4. deadline' \in [Conns -> Dispatches \cup {None}]
      BY <1>3 DEF LockWriter, TypeOK
    <2> QED
      BY <1>3, <2>3, <2>4 DEF LockWriter, TypeOK
  <1>4. CASE Expire(d)
    <2>1. [dispatch[d] EXCEPT !.expired = TRUE] \in DispatchStates
      BY DEF TypeOK, DispatchStates
    <2>2. dispatch' \in [Dispatches -> DispatchStates]
      BY <1>4, <2>1 DEF Expire, TypeOK
    <2> QED
      BY <1>4, <2>2 DEF Expire, TypeOK
  <1>5. ASSUME NEW n \in 1 .. FrameSize, WriteBytes(d, n)
        PROVE  TypeOK'
    <2> DEFINE written == dispatch[d].written + n
    <2>1. stream' \in [Conns -> Seq(Dispatches)]
      BY <1>5, PutType DEF WriteBytes
    <2>2. written \in 0 .. FrameSize
      BY <1>5, OmniAssumption DEF WriteBytes, TypeOK, DispatchStates
    <2>3. [dispatch[d] EXCEPT !.written = written] \in DispatchStates
      BY <2>2 DEF TypeOK, DispatchStates
    <2> HIDE DEF written
    <2>4. [dispatch EXCEPT ![d].written = written] \in [Dispatches -> DispatchStates]
      BY <2>3 DEF TypeOK
    <2>5. Finish(d, written) \/ dispatch' = [dispatch EXCEPT ![d].written = written]
      BY <1>5 DEF WriteBytes, written
    <2>6. dispatch' \in [Dispatches -> DispatchStates]
      BY <2>2, <2>4, <2>5, FinishType
    <2>7. deadline' \in [Conns -> Dispatches \cup {None}]
      BY <1>5 DEF WriteBytes, TypeOK
    <2> QED
      BY <1>5, <2>1, <2>6, <2>7 DEF WriteBytes, TypeOK
  <1>6. ASSUME NEW n \in 0 .. FrameSize, WriteFails(d, n)
        PROVE  TypeOK'
    <2> DEFINE written == dispatch[d].written + n
    <2>1. stream' \in [Conns -> Seq(Dispatches)]
      BY <1>6, PutType DEF WriteFails
    <2>2. written \in 0 .. FrameSize
      BY <1>6, OmniAssumption DEF WriteFails, TypeOK, DispatchStates
    <2>3. dispatch' \in [Dispatches -> DispatchStates]
      BY <1>6, <2>2, FinishType DEF WriteFails
    <2>4. deadline' \in [Conns -> Dispatches \cup {None}]
      BY <1>6 DEF WriteFails, TypeOK
    <2> QED
      BY <1>6, <2>1, <2>3, <2>4 DEF WriteFails, TypeOK
  <1> QED
    BY <1>1, <1>2, <1>3, <1>4, <1>5, <1>6 DEF Adapt

-----------------------------------------------------------------------------
(* The locks.                                                               *)

\* A step that leaves the binding of connection b alone.
KeepsBinding(b) ==
    /\ conn'[b].device = conn[b].device /\ conn'[b].profile = conn[b].profile
    /\ conn'[b].pc = "registering" => conn[b].pc = "registering"

LEMMA GoKeeps ==
    ASSUME TypeOK, NEW c, NEW pc, pc # "registering", Go(c, pc)
    PROVE  \A b \in Conns : KeepsBinding(b)
  BY DEF TypeOK, ConnStates, Go, KeepsBinding

LEMMA RefuseKeeps ==
    ASSUME TypeOK, NEW p \in Profiles, Refuse(p)
    PROVE  \A b \in Conns : KeepsBinding(b)
  BY DEF TypeOK, ConnStates, Refuse, KeepsBinding

\* No step of a listener touches the registry or a dispatch, and none binds a connection.
LEMMA ListenSession ==
    ASSUME SessionInv, NEW p \in Profiles, Listen(p)
    PROVE  LockInv' /\ ProfileInv'
  <1> USE DEF registryVars, dispatchVars, SessionInv
  <1>1. UNCHANGED <<sessions, dispatch>>
    BY DEF Listen, Accept, AcceptFails, Admit, Track, CloseBegin, CloseEnd, ListenerReturns
  <1>2. \A c \in Conns :
           \/ conn'[c].device = None /\ conn'[c].pc # "registering"
           \/ KeepsBinding(c)
    <2>1. CASE Accept(p)
      BY <2>1 DEF Accept, NewConn, KeepsBinding, TypeOK
    <2>2. CASE AcceptFails(p) \/ CloseBegin(p) \/ ListenerReturns(p)
      BY <2>2 DEF AcceptFails, CloseBegin, ListenerReturns, KeepsBinding
    <2>3. CASE Admit(p)
      BY <2>3, RefuseKeeps DEF Admit, KeepsBinding
    <2>4. CASE Track(p)
      BY <2>4, RefuseKeeps, GoKeeps DEF Track
    <2>5. CASE CloseEnd(p)
      BY <2>5 DEF CloseEnd, KeepsBinding, TypeOK, ConnStates
    <2> QED
      BY <2>1, <2>2, <2>3, <2>4, <2>5 DEF Listen
  <1> QED
    BY <1>1, <1>2 DEF LockInv, ProfileInv, KeepsBinding

\* Register and Unregister change a key that nobody reads; Register's key is the one
\* the recorder resolved.
LEMMA HandleSession ==
    ASSUME SessionInv, NEW c \in Conns, Handle(c)
    PROVE  LockInv' /\ ProfileInv'
  <1> USE DEF serverVars, registryVars, dispatchVars, SessionInv
  <1>0. dispatch' = dispatch
    BY DEF Handle, Receive, Register, Leave, Unregister, CloseConn, Release
  <1>1. ASSUME NEW f \in PeerFrames, Receive(c, f)
        PROVE  LockInv' /\ ProfileInv'
    <2>1. sessions' = sessions
      BY <1>1 DEF Receive
    <2>2. CASE ~Accepted(c, f) \/ ~FirstFrame(c)
      <3>1. \A b \in Conns : KeepsBinding(b)
        BY <1>1, <2>2, GoKeeps DEF Receive, KeepsBinding
      <3> QED
        BY <1>0, <2>1, <3>1 DEF LockInv, ProfileInv, KeepsBinding
    <2>3. CASE Accepted(c, f) /\ FirstFrame(c)
      <3>1. f.imei \in Devices /\ ProfileOf[f.imei] = conn[c].profile
        BY <2>3, PeerFramesAssumption DEF Accepted, Frames
      <3>2. /\ conn'[c].device = f.imei /\ conn'[c].profile = conn[c].profile
            /\ \A b \in Conns \ {c} : conn'[b] = conn[b]
        BY <1>1, <2>3 DEF Receive, TypeOK, ConnStates
      <3>3. f.imei # None
        BY <3>1, OmniAssumption
      <3> QED
        BY <1>0, <2>1, <3>1, <3>2, <3>3 DEF LockInv, ProfileInv
    <2> QED
      BY <2>2, <2>3
  <1>2. CASE Register(c)
    <2> DEFINE k == KeyOfConn(c)
               new == [gen |-> generation[k] + 1, conn |-> c]
    <2>1. /\ Readers(k) = {} /\ conn[c].pc = "registering"
          /\ sessions' = [sessions EXCEPT ![k] = @ \cup {new}]
      BY <1>2 DEF Register
    <2>2. \A b \in Conns : KeepsBinding(b)
      BY <1>2 DEF Register, TypeOK, ConnStates, KeepsBinding
    <2>3. ProfileOf[conn[c].device] = conn[c].profile
      BY <2>1 DEF ProfileInv
    <2>4. \A j \in Keys : j # k => sessions'[j] = sessions[j]
      BY <2>1 DEF TypeOK
    <2>5. LockInv'
      <3> SUFFICES ASSUME NEW d \in Dispatches, dispatch[d].pc \in {"locked", "writing"}
                   PROVE  sessions'[KeyOf(d)] = {dispatch[d].session}
        BY <1>0 DEF LockInv, KeyOf
      <3>1. KeyOf(d) # k
        BY <2>1 DEF Readers
      <3>2. KeyOf(d) \in Keys
        BY OmniAssumption DEF KeyOf, Keys
      <3> QED
        BY <2>4, <3>1, <3>2 DEF LockInv
    <2>6. \A p \in Profiles, x \in Devices : sessions'[<<p, x>>] # {} => ProfileOf[x] = p
      <3> SUFFICES ASSUME NEW p \in Profiles, NEW x \in Devices, sessions'[<<p, x>>] # {}
                   PROVE  ProfileOf[x] = p
        OBVIOUS
      <3>1. CASE <<p, x>> = k
        BY <2>3, <3>1 DEF KeyOfConn
      <3>2. CASE <<p, x>> # k
        BY <2>4, <3>2 DEF ProfileInv, Keys
      <3> QED
        BY <3>1, <3>2
    <2> QED
      BY <2>2, <2>5, <2>6 DEF ProfileInv, KeepsBinding
  <1>3. CASE Leave(c) \/ Unregister(c) \/ CloseConn(c) \/ Release(c)
    <2>1. \A b \in Conns : KeepsBinding(b)
      <3>1. CASE Leave(c) \/ Unregister(c) \/ Release(c)
        BY <3>1, GoKeeps DEF Leave, Unregister, Release
      <3>2. CASE CloseConn(c)
        BY <3>2 DEF CloseConn, KeepsBinding, TypeOK, ConnStates
      <3> QED
        BY <1>3, <3>1, <3>2
    <2>2. \A j \in Keys : /\ sessions'[j] \subseteq sessions[j]
                          /\ Readers(j) # {} => sessions'[j] = sessions[j]
      <3>1. CASE sessions' = sessions
        BY <3>1
      <3>2. CASE Unregister(c) /\ ~FirstFrame(c)
        BY <3>2 DEF Unregister, TypeOK
      <3> QED
        BY <1>3, <3>1, <3>2 DEF Leave, Unregister, CloseConn, Release
    <2>3. \A d \in Dispatches : KeyOf(d) \in Keys
      BY OmniAssumption DEF KeyOf, Keys
    <2>4. LockInv'
      <3> SUFFICES ASSUME NEW d \in Dispatches, dispatch[d].pc \in {"locked", "writing"}
                   PROVE  sessions'[KeyOf(d)] = {dispatch[d].session}
        BY <1>0 DEF LockInv, KeyOf
      <3>1. d \in Readers(KeyOf(d))
        BY DEF Readers
      <3> QED
        BY <2>2, <2>3, <3>1 DEF LockInv
    <2> QED
      BY <2>1, <2>2, <2>4 DEF ProfileInv, Keys, KeepsBinding
  <1> QED
    BY <1>1, <1>2, <1>3 DEF Handle

\* A dispatch becomes a reader in WriteUnique, whose test is the invariant; it keeps
\* its session from then on.
LEMMA AdaptSession ==
    ASSUME SessionInv, NEW d \in Dispatches, Adapt(d)
    PROVE  LockInv' /\ ProfileInv'
  <1> USE DEF registryVars, SessionInv
  <1>1. UNCHANGED <<sessions, conn>>
    BY DEF Adapt, Prepare, WriteUnique, LockWriter, Expire, WriteBytes, WriteFails
  <1>2. /\ \A e \in Dispatches \ {d} : dispatch'[e] = dispatch[e]
        /\ dispatch'[d].pc \in {"locked", "writing"} =>
              /\ dispatch'[d].session = dispatch[d].session
              /\ \/ dispatch[d].pc \in {"locked", "writing"}
                 \/ sessions[KeyOf(d)] = {dispatch[d].session}
    <2> USE DEF TypeOK, DispatchStates, Finish
    <2>1. CASE Prepare(d)
      BY <2>1 DEF Prepare
    <2>2. CASE WriteUnique(d)
      BY <2>2 DEF WriteUnique
    <2>3. CASE LockWriter(d)
      BY <2>3 DEF LockWriter
    <2>4. CASE Expire(d)
      BY <2>4 DEF Expire
    <2>5. CASE \E n \in 1 .. FrameSize : WriteBytes(d, n)
      BY <2>5 DEF WriteBytes
    <2>6. CASE \E n \in 0 .. FrameSize : WriteFails(d, n)
      BY <2>6 DEF WriteFails
    <2> QED
      BY <2>1, <2>2, <2>3, <2>4, <2>5, <2>6 DEF Adapt
  <1>3. LockInv'
    <2> SUFFICES ASSUME NEW e \in Dispatches, dispatch'[e].pc \in {"locked", "writing"}
                 PROVE  sessions[KeyOf(e)] = {dispatch'[e].session}
      BY <1>1 DEF LockInv, KeyOf
    <2>1. CASE e = d
      BY <1>2, <2>1 DEF LockInv
    <2>2. CASE e # d
      BY <1>2, <2>2 DEF LockInv
    <2> QED
      BY <2>1, <2>2
  <1> QED
    BY <1>1, <1>3 DEF ProfileInv

LEMMA InitSession ==
    ASSUME Init
    PROVE  SessionInv
  <1>1. TypeOK
    <2>1. /\ NewConn \in ConnStates
          /\ NewDispatch \in DispatchStates
      BY OmniAssumption DEF NewConn, ConnStates, NewDispatch, DispatchStates
    <2>2. /\ stream \in [Conns -> Seq(Dispatches)] /\ dispatch \in [Dispatches -> DispatchStates]
          /\ conn \in [Conns -> ConnStates] /\ deadline \in [Conns -> Dispatches \cup {None}]
      BY <2>1 DEF Init
    <2>3. CurType
      BY DEF Init, CurType, ListenerStates
    <2>4. /\ toClose \in [Profiles -> SUBSET Conns] /\ active \in [Profiles -> SUBSET Conns]
          /\ slots \in [Profiles -> Int] /\ closing \in [Profiles -> {"open", "closing", "closed"}]
      BY DEF Init
    <2>5. /\ sessions \in [Keys -> SUBSET Sessions] /\ generation \in [Keys -> Nat]
          /\ lifecycle \in [Devices -> Lifecycles]
      BY DEF Init, Lifecycles
    <2>6. /\ stopped \in BOOLEAN /\ healthy \in BOOLEAN
          /\ runtime \in {"running", "stopping", "returned"} /\ raw = {} /\ audits = {}
      BY DEF Init
    <2> QED
      BY <2>2, <2>3, <2>4, <2>5, <2>6 DEF TypeOK, CurType
  <1>2. LockInv
    BY DEF Init, LockInv, NewDispatch
  <1>3. ProfileInv
    BY DEF Init, ProfileInv, NewConn, Keys
  <1> QED
    BY <1>1, <1>2, <1>3 DEF SessionInv

LEMMA NextSession ==
    ASSUME SessionInv, [Next]_vars
    PROVE  SessionInv'
  <1> USE DEF serverVars, registryVars, dispatchVars, recordVars
  <1>1. ASSUME NEW x \in Managed, SetLifecycle(x)
        PROVE  SessionInv'
    <2>1. lifecycle' \in [Devices -> Lifecycles]
      BY <1>1 DEF SetLifecycle, SessionInv, TypeOK
    <2>2. TypeOK'
      BY <1>1, <2>1 DEF SetLifecycle, SessionInv, TypeOK
    <2> QED
      BY <1>1, <2>2 DEF SetLifecycle, SessionInv, LockInv, ProfileInv
  <1>2. ASSUME NEW p \in Profiles, Listen(p)
        PROVE  SessionInv'
    BY <1>2, ListenType, ListenSession DEF SessionInv
  <1>3. ASSUME NEW c \in Conns, Handle(c)
        PROVE  SessionInv'
    BY <1>3, HandleType, HandleSession DEF SessionInv
  <1>4. ASSUME NEW d \in Dispatches, Adapt(d)
        PROVE  SessionInv'
    BY <1>4, AdaptType, AdaptSession DEF SessionInv
  <1>5. CASE Stop \/ RuntimeClose \/ RuntimeStops \/ RuntimeReturns
    <2>1. TypeOK'
      BY <1>5 DEF Stop, RuntimeClose, RuntimeStops, RuntimeReturns, SessionInv, TypeOK
    <2> QED
      BY <1>5, <2>1 DEF Stop, RuntimeClose, RuntimeStops, RuntimeReturns, SessionInv, LockInv,
                        ProfileInv
  <1>6. CASE UNCHANGED vars
    <2>1. TypeOK'
      BY <1>6 DEF vars, SessionInv, TypeOK
    <2> QED
      BY <1>6, <2>1 DEF vars, SessionInv, LockInv, ProfileInv
  <1> QED
    BY <1>1, <1>2, <1>3, <1>4, <1>5, <1>6 DEF Next

-----------------------------------------------------------------------------
\* Every reachable state of the Omni runtime is well typed: Register is only called
\* with the Device the recorder resolved, and no write passes the end of its frame.
THEOREM OmniTypeCorrect == Spec => []TypeOK
  <1>1. Init => SessionInv
    BY InitSession
  <1>2. SessionInv /\ [Next]_vars => SessionInv'
    BY NextSession
  <1>3. SessionInv => TypeOK
    BY DEF SessionInv
  <1> QED
    BY <1>1, <1>2, <1>3, PTL DEF Spec

\* The bytes of a Command only leave while its session is the Device's only one, for
\* any number of connections that claim the IMEI and of Commands that write at once:
\* WriteUnique's read lock keeps Register and Unregister out until it returns.
THEOREM SoleSessionWhileWriting == Spec => []UniqueWhileWriting
  <1>1. Init => SessionInv
    BY InitSession
  <1>2. SessionInv /\ [Next]_vars => SessionInv'
    BY NextSession
  <1>3. SessionInv => UniqueWhileWriting
    <2> SUFFICES ASSUME SessionInv, NEW d \in Dispatches, dispatch[d].pc = "writing"
                 PROVE  UNION {sessions[<<p, TargetOf[d]>>] : p \in Profiles}
                           = {dispatch[d].session}
      BY DEF UniqueWhileWriting
    <2> DEFINE x == TargetOf[d]
    <2>1. x \in Devices /\ ProfileOf[x] \in Profiles
      BY OmniAssumption
    <2>2. sessions[<<ProfileOf[x], x>>] = {dispatch[d].session}
      BY DEF SessionInv, LockInv, KeyOf
    <2>3. \A p \in Profiles : p # ProfileOf[x] => sessions[<<p, x>>] = {}
      BY <2>1 DEF SessionInv, ProfileInv
    <2> HIDE DEF x
    <2>4. \A s : (\E p \in Profiles : s \in sessions[<<p, x>>]) <=> s = dispatch[d].session
      BY <2>1, <2>2, <2>3
    <2>5. UNION {sessions[<<p, x>>] : p \in Profiles} = {dispatch[d].session}
      BY <2>4
    <2> QED
      BY <2>5 DEF x
  <1> QED
    BY <1>1, <1>2, <1>3, PTL DEF Spec


-----------------------------------------------------------------------------
(***************************************************************************)
(* The bytes.  A Command's bytes are all on the connection of its session, *)
(* there are some exactly if BytesWritten says so, and while it writes they *)
(* are the last ones there, because nobody else holds that connection's    *)
(* writeMu.                                                                *)
(***************************************************************************)

HasByte(table, c, d) == \E i \in DOMAIN table[c] : table[c][i] = d

\* What a dispatch knows of its own bytes.
ByteSound(m, table, d) ==
    /\ m.pc \in {"idle", "prepared", "locked"} => m.written = 0
    /\ m.pc = "done" => (m.outcome = "indeterminate" <=> m.written > 0)
    /\ m.written > 0 => m.session.conn \in Conns /\ HasByte(table, m.session.conn, d)
    /\ \A c \in Conns : HasByte(table, c, d) => m.written > 0 /\ c = m.session.conn
    /\ m.pc = "writing" /\ m.written > 0 => table[m.session.conn][Len(table[m.session.conn])] = d

Exclusive ==
    \A d, e \in Dispatches :
        (dispatch[d].pc = "writing" /\ dispatch[e].pc = "writing"
         /\ dispatch[d].session.conn = dispatch[e].session.conn) => d = e

ByteInv ==
    /\ Exclusive
    /\ \A d \in Dispatches : ByteSound(dispatch[d], stream, d)

Bytes(d, n) == [i \in 1 .. n |-> d]

\* n more bytes at the end of a stream.
LEMMA Appended ==
    ASSUME NEW s \in Seq(Dispatches), NEW d \in Dispatches, NEW n \in Nat
    PROVE  /\ s \o Bytes(d, n) \in Seq(Dispatches) /\ Len(s \o Bytes(d, n)) = Len(s) + n
           /\ \A i \in 1 .. Len(s) : (s \o Bytes(d, n))[i] = s[i]
           /\ \A i \in (Len(s) + 1) .. (Len(s) + n) : (s \o Bytes(d, n))[i] = d
  <1> DEFINE b == Bytes(d, n)
             t == s \o b
  <1>1. b \in Seq(Dispatches) /\ Len(b) = n /\ \A i \in 1 .. n : b[i] = d
    BY DEF Bytes
  <1> HIDE DEF b
  <1>2. /\ t \in Seq(Dispatches) /\ Len(t) = Len(s) + Len(b)
        /\ \A i \in 1 .. Len(s) + Len(b) : t[i] = IF i <= Len(s) THEN s[i] ELSE b[i - Len(s)]
    BY <1>1, ConcatProperties
  <1> HIDE DEF t
  <1>3. Len(s) \in Nat
    OBVIOUS
  <1>4. ASSUME NEW i \in (Len(s) + 1) .. (Len(s) + n) PROVE t[i] = d
    <2>1. i - Len(s) \in 1 .. n /\ ~(i <= Len(s)) /\ i \in 1 .. Len(s) + Len(b)
      BY <1>1, <1>3
    <2> QED
      BY <1>1, <1>2, <2>1
  <1>5. ASSUME NEW i \in 1 .. Len(s) PROVE t[i] = s[i]
    <2>1. i <= Len(s) /\ i \in 1 .. Len(s) + Len(b)
      BY <1>1, <1>3
    <2> QED
      BY <1>2, <2>1
  <1>6. t \in Seq(Dispatches) /\ Len(t) = Len(s) + n
    BY <1>1, <1>2
  <1> QED
    BY <1>4, <1>5, <1>6 DEF t, b

\* A reader's session is a registered one, so it is on a connection.
LEMMA ReaderConn ==
    ASSUME SessionInv, NEW d \in Dispatches, dispatch[d].pc \in {"locked", "writing"}
    PROVE  dispatch[d].session \in Sessions /\ dispatch[d].session.conn \in Conns
  <1>1. KeyOf(d) \in Keys /\ sessions[KeyOf(d)] = {dispatch[d].session}
    BY OmniAssumption DEF KeyOf, Keys, SessionInv, LockInv
  <1>2. dispatch[d].session \in Sessions
    BY <1>1 DEF SessionInv, TypeOK
  <1> QED
    BY <1>2 DEF Sessions

\* What a call of writer.Write does to the streams, and to whom they belong.
LEMMA PutEffect ==
    ASSUME SessionInv, ByteInv, NEW d \in Dispatches, dispatch[d].pc = "writing", NEW n \in Nat, Put(d, n)
    PROVE  LET c == dispatch[d].session.conn
           IN  /\ c \in Conns
               /\ \A b \in Conns \ {c} : stream'[b] = stream[b]
               /\ stream'[c] = stream[c] \o Bytes(d, n)
               /\ \A e \in Dispatches, b \in Conns : (e # d \/ b # c) =>
                     (HasByte(stream', b, e) <=> HasByte(stream, b, e))
               /\ HasByte(stream', c, d) <=> HasByte(stream, c, d) \/ n > 0
               /\ n > 0 => stream'[c][Len(stream'[c])] = d
               /\ n = 0 => stream' = stream
  <1> DEFINE c == dispatch[d].session.conn
             s == stream[c]
             t == stream'[c]
  <1>1. c \in Conns
    BY ReaderConn
  <1>2. /\ \A b \in Conns \ {c} : stream'[b] = stream[b]
        /\ t = s \o Bytes(d, n)
    BY <1>1 DEF Put, Bytes, SessionInv, TypeOK
  <1>3. s \in Seq(Dispatches)
    BY <1>1 DEF SessionInv, TypeOK
  <1> HIDE DEF c, s, t
  <1>4. /\ t \in Seq(Dispatches) /\ Len(t) = Len(s) + n /\ DOMAIN t = 1 .. Len(t) /\ DOMAIN s = 1 .. Len(s)
        /\ \A i \in 1 .. Len(s) : t[i] = s[i]
        /\ \A i \in (Len(s) + 1) .. Len(t) : t[i] = d
        /\ Len(s) \in Nat
    <2>1. DOMAIN s = 1 .. Len(s) /\ Len(s) \in Nat
      BY <1>3
    <2>2. t = s \o Bytes(d, n)
      BY <1>2
    <2>3. /\ t \in Seq(Dispatches) /\ Len(t) = Len(s) + n
          /\ \A i \in 1 .. Len(s) : t[i] = s[i]
          /\ \A i \in (Len(s) + 1) .. (Len(s) + n) : t[i] = d
      <3>1. /\ s \o Bytes(d, n) \in Seq(Dispatches) /\ Len(s \o Bytes(d, n)) = Len(s) + n
            /\ \A i \in 1 .. Len(s) : (s \o Bytes(d, n))[i] = s[i]
            /\ \A i \in (Len(s) + 1) .. (Len(s) + n) : (s \o Bytes(d, n))[i] = d
        BY <1>3, Appended, Zenon
      <3> QED
        BY <2>2, <3>1, Zenon
    <2> QED
      BY <2>1, <2>3
  <1>5. \A e : (\E i \in DOMAIN t : t[i] = e) <=> ((\E i \in DOMAIN s : s[i] = e) \/ (n > 0 /\ e = d))
    <2> SUFFICES ASSUME NEW e
                 PROVE  (\E i \in DOMAIN t : t[i] = e) <=> ((\E i \in DOMAIN s : s[i] = e) \/ (n > 0 /\ e = d))
      OBVIOUS
    <2>1. ASSUME NEW i \in DOMAIN t, t[i] = e PROVE (\E j \in DOMAIN s : s[j] = e) \/ (n > 0 /\ e = d)
      <3>1. CASE i <= Len(s)
        BY <1>4, <2>1, <3>1
      <3>2. CASE i > Len(s)
        BY <1>4, <2>1, <3>2
      <3> QED
        BY <1>4, <2>1, <3>1, <3>2
    <2>2. ASSUME NEW i \in DOMAIN s, s[i] = e PROVE \E j \in DOMAIN t : t[j] = e
      <3>1. i \in DOMAIN t /\ t[i] = e
        BY <1>4, <2>2
      <3> QED
        BY <3>1
    <2>3. ASSUME n > 0, e = d PROVE \E j \in DOMAIN t : t[j] = e
      <3>1. Len(t) \in DOMAIN t /\ Len(t) \in (Len(s) + 1) .. Len(t)
        BY <1>4, <2>3
      <3> QED
        BY <1>4, <2>3, <3>1
    <2> QED
      BY <2>1, <2>2, <2>3
  <1>6. n > 0 => t[Len(t)] = d
    BY <1>4
  <1>7. \A e \in Dispatches, b \in Conns : (e # d \/ b # c) => (HasByte(stream', b, e) <=> HasByte(stream, b, e))
    BY <1>1, <1>2, <1>5 DEF HasByte, s, t
  <1>8. HasByte(stream', c, d) <=> HasByte(stream, c, d) \/ n > 0
    BY <1>5 DEF HasByte, s, t
  <1>9. n = 0 => stream' = stream
    <2> SUFFICES ASSUME n = 0 PROVE stream' = stream
      OBVIOUS
    <2>1. t = s
      <3>1. Len(t) = Len(s) /\ \A i \in 1 .. Len(s) : t[i] = s[i]
        BY <1>4
      <3> QED
        BY <1>3, <1>4, <3>1
    <2>2. stream' \in [Conns -> Seq(Dispatches)] /\ stream \in [Conns -> Seq(Dispatches)]
      BY PutType DEF SessionInv, TypeOK
    <2> QED
      BY <1>2, <2>1, <2>2 DEF s, t
  <1> QED
    BY <1>1, <1>2, <1>6, <1>7, <1>8, <1>9 DEF c, s, t


LEMMA BytesUntouched ==
    ASSUME ByteInv, stream' = stream, dispatch' = dispatch
    PROVE  ByteInv'
  BY DEF ByteInv, Exclusive, ByteSound, HasByte

\* A dispatch that moves without a byte.
LEMMA BytesKept ==
    ASSUME ByteInv, NEW d \in Dispatches, stream' = stream,
           \A e \in Dispatches \ {d} : dispatch'[e] = dispatch[e],
           ByteSound(dispatch'[d], stream, d),
           dispatch'[d].pc = "writing" =>
              \A e \in Dispatches \ {d} :
                 ~ (dispatch[e].pc = "writing" /\ dispatch[e].session.conn = dispatch'[d].session.conn)
    PROVE  ByteInv'
  <1>1. Exclusive'
    BY DEF ByteInv, Exclusive
  <1>2. ASSUME NEW e \in Dispatches PROVE ByteSound(dispatch'[e], stream', e)
    BY DEF ByteInv
  <1> QED
    BY <1>1, <1>2 DEF ByteInv

\* A dispatch that writes n bytes, and goes on or ends.
LEMMA BytesWritten ==
    ASSUME SessionInv, ByteInv, NEW d \in Dispatches, dispatch[d].pc = "writing", NEW n \in Nat, Put(d, n),
           \A e \in Dispatches \ {d} : dispatch'[e] = dispatch[e],
           dispatch'[d].session = dispatch[d].session,
           dispatch'[d].written = dispatch[d].written + n,
           \/ dispatch'[d].pc = "writing"
           \/ dispatch'[d].pc = "done" /\ dispatch'[d].outcome = Outcome(dispatch'[d].written)
    PROVE  ByteInv'
  <1> DEFINE c == dispatch[d].session.conn
  <1>0. dispatch[d].written \in Nat /\ ByteSound(dispatch[d], stream, d)
    BY OmniAssumption DEF SessionInv, TypeOK, DispatchStates, ByteInv
  <1>1. /\ c \in Conns
        /\ \A b \in Conns \ {c} : stream'[b] = stream[b]
        /\ \A e \in Dispatches, b \in Conns : (e # d \/ b # c) => (HasByte(stream', b, e) <=> HasByte(stream, b, e))
        /\ HasByte(stream', c, d) <=> HasByte(stream, c, d) \/ n > 0
        /\ n > 0 => stream'[c][Len(stream'[c])] = d
        /\ n = 0 => stream' = stream
    BY PutEffect
  <1>2. Exclusive'
    BY DEF ByteInv, Exclusive
  <1>3. ByteSound(dispatch'[d], stream', d)
    <2>1. HasByte(stream, c, d) <=> dispatch[d].written > 0
      BY <1>0, <1>1 DEF ByteSound
    <2>2. HasByte(stream', c, d) <=> dispatch'[d].written > 0
      BY <1>0, <1>1, <2>1
    <2>3. \A b \in Conns : HasByte(stream', b, d) => dispatch'[d].written > 0 /\ b = dispatch'[d].session.conn
      BY <1>0, <1>1, <2>2 DEF ByteSound
    <2>4. dispatch'[d].pc = "done" => (dispatch'[d].outcome = "indeterminate" <=> dispatch'[d].written > 0)
      BY <1>0 DEF Outcome
    <2>5. dispatch'[d].written > 0 => stream'[c][Len(stream'[c])] = d
      <3>1. CASE n > 0
        BY <1>1, <3>1
      <3>2. CASE n = 0
        BY <1>0, <1>1, <3>2 DEF ByteSound
      <3> QED
        BY <3>1, <3>2
    <2> QED
      BY <1>1, <2>2, <2>3, <2>4, <2>5 DEF ByteSound
  <1>4. ASSUME NEW e \in Dispatches \ {d} PROVE ByteSound(dispatch'[e], stream', e)
    <2>1. ByteSound(dispatch[e], stream, e) /\ dispatch'[e] = dispatch[e]
      BY DEF ByteInv
    <2>2. \A b \in Conns : HasByte(stream', b, e) <=> HasByte(stream, b, e)
      BY <1>1
    <2>3. dispatch[e].pc = "writing" /\ dispatch[e].written > 0 =>
             stream'[dispatch[e].session.conn] = stream[dispatch[e].session.conn]
      BY <1>1, <2>1 DEF ByteInv, Exclusive, ByteSound
    <2> QED
      BY <2>1, <2>2, <2>3 DEF ByteSound
  <1> QED
    BY <1>2, <1>3, <1>4 DEF ByteInv

LEMMA FinishEffect ==
    ASSUME TypeOK, NEW d \in Dispatches, NEW written, Finish(d, written)
    PROVE  /\ \A e \in Dispatches \ {d} : dispatch'[e] = dispatch[e]
           /\ dispatch'[d].pc = "done" /\ dispatch'[d].written = written
           /\ dispatch'[d].session = dispatch[d].session /\ dispatch'[d].outcome = Outcome(written)
  BY DEF Finish, TypeOK, DispatchStates

LEMMA AdaptBytes ==
    ASSUME SessionInv, ByteInv, NEW d \in Dispatches, Adapt(d)
    PROVE  ByteInv'
  <1>0. /\ TypeOK /\ dispatch[d] \in DispatchStates /\ ByteSound(dispatch[d], stream, d)
        /\ dispatch[d].written \in Nat
    BY OmniAssumption DEF SessionInv, TypeOK, DispatchStates, ByteInv
  <1>1. ASSUME Finish(d, 0), stream' = stream, dispatch[d].written = 0 PROVE ByteInv'
    <2>1. ByteSound(dispatch'[d], stream, d)
      BY <1>0, <1>1, FinishEffect DEF ByteSound, Outcome
    <2> QED
      BY <1>0, <1>1, <2>1, FinishEffect, BytesKept
  <1>2. CASE Prepare(d)
    <2>1. /\ \A e \in Dispatches \ {d} : dispatch'[e] = dispatch[e]
          /\ stream' = stream /\ dispatch[d].pc = "idle" /\ dispatch'[d].written = dispatch[d].written
          /\ \/ dispatch'[d].pc = "prepared"
             \/ dispatch'[d].pc = "done" /\ dispatch'[d].outcome = "session_unavailable"
      BY <1>0, <1>2 DEF Prepare, TypeOK, DispatchStates
    <2>2. ByteSound(dispatch'[d], stream, d)
      BY <1>0, <2>1 DEF ByteSound
    <2> QED
      BY <2>1, <2>2, BytesKept
  <1>3. CASE WriteUnique(d)
    <2>1. dispatch[d].pc = "prepared" /\ stream' = stream /\ dispatch[d].written = 0
      BY <1>0, <1>3 DEF WriteUnique, ByteSound
    <2>2. CASE dispatch' = [dispatch EXCEPT ![d].pc = "locked"]
      <3>1. /\ \A e \in Dispatches \ {d} : dispatch'[e] = dispatch[e]
            /\ dispatch'[d].pc = "locked" /\ dispatch'[d].written = 0
        BY <1>0, <2>1, <2>2 DEF TypeOK, DispatchStates
      <3>2. ByteSound(dispatch'[d], stream, d)
        BY <1>0, <2>1, <3>1 DEF ByteSound
      <3> QED
        BY <2>1, <3>1, <3>2, BytesKept
    <2> QED
      BY <1>1, <1>3, <2>1, <2>2 DEF WriteUnique
  <1>4. CASE LockWriter(d)
    <2>1. dispatch[d].pc = "locked" /\ CanWrite(d) /\ stream' = stream /\ dispatch[d].written = 0
      BY <1>0, <1>4 DEF LockWriter, ByteSound
    <2>2. CASE dispatch' = [dispatch EXCEPT ![d].pc = "writing"]
      <3>1. /\ \A e \in Dispatches \ {d} : dispatch'[e] = dispatch[e]
            /\ dispatch'[d].pc = "writing" /\ dispatch'[d].written = 0
            /\ dispatch'[d].session = dispatch[d].session
        BY <1>0, <2>1, <2>2 DEF TypeOK, DispatchStates
      <3>2. ByteSound(dispatch'[d], stream, d)
        BY <1>0, <2>1, <3>1 DEF ByteSound
      <3> QED
        BY <2>1, <3>1, <3>2, BytesKept DEF CanWrite
    <2> QED
      BY <1>1, <1>4, <2>1, <2>2 DEF LockWriter
  <1>5. CASE Expire(d)
    <2>1. /\ \A e \in Dispatches \ {d} : dispatch'[e] = dispatch[e]
          /\ stream' = stream /\ dispatch'[d].written = dispatch[d].written /\ dispatch'[d].pc = dispatch[d].pc
          /\ dispatch'[d].outcome = dispatch[d].outcome /\ dispatch'[d].session = dispatch[d].session
      BY <1>0, <1>5 DEF Expire, TypeOK, DispatchStates
    <2>2. ByteSound(dispatch'[d], stream, d)
      BY <1>0, <2>1 DEF ByteSound
    <2>3. dispatch'[d].pc = "writing" =>
              \A e \in Dispatches \ {d} :
                 ~ (dispatch[e].pc = "writing" /\ dispatch[e].session.conn = dispatch'[d].session.conn)
      BY <2>1 DEF ByteInv, Exclusive
    <2> QED
      BY <2>1, <2>2, <2>3, BytesKept
  <1>6. ASSUME NEW n \in 1 .. FrameSize, WriteBytes(d, n) PROVE ByteInv'
    <2>1. /\ n \in Nat /\ dispatch[d].pc = "writing" /\ Put(d, n)
          /\ \/ Finish(d, dispatch[d].written + n)
             \/ dispatch' = [dispatch EXCEPT ![d].written = dispatch[d].written + n]
      BY <1>6 DEF WriteBytes
    <2>2. CASE Finish(d, dispatch[d].written + n)
      BY <1>0, <2>1, <2>2, FinishEffect, BytesWritten
    <2>3. CASE dispatch' = [dispatch EXCEPT ![d].written = dispatch[d].written + n]
      <3>1. /\ \A e \in Dispatches \ {d} : dispatch'[e] = dispatch[e]
            /\ dispatch'[d].pc = "writing" /\ dispatch'[d].written = dispatch[d].written + n
            /\ dispatch'[d].session = dispatch[d].session
        BY <1>0, <2>1, <2>3 DEF TypeOK, DispatchStates
      <3> QED
        BY <2>1, <3>1, BytesWritten
    <2> QED
      BY <2>1, <2>2, <2>3
  <1>7. ASSUME NEW n \in 0 .. FrameSize, WriteFails(d, n) PROVE ByteInv'
    <2>1. n \in Nat /\ dispatch[d].pc = "writing" /\ Put(d, n) /\ Finish(d, dispatch[d].written + n)
      BY <1>7 DEF WriteFails
    <2> QED
      BY <1>0, <2>1, FinishEffect, BytesWritten
  <1> QED
    BY <1>2, <1>3, <1>4, <1>5, <1>6, <1>7 DEF Adapt

\* Only the adapter writes: the steps of everybody else leave the streams alone.
LEMMA OthersWriteNothing ==
    ASSUME [Next]_vars, ~ (\E d \in Dispatches : Adapt(d))
    PROVE  stream' = stream /\ dispatch' = dispatch
  BY DEF Next, vars, dispatchVars, SetLifecycle, Listen, Accept, AcceptFails, Admit, Track, CloseBegin, CloseEnd,
         ListenerReturns, Handle, Receive, Register, Leave, Unregister, CloseConn, Release,
         Stop, RuntimeClose, RuntimeStops, RuntimeReturns

LEMMA BytesStep == SessionInv /\ ByteInv /\ [Next]_vars => ByteInv'
  BY AdaptBytes, OthersWriteNothing, BytesUntouched

LEMMA BytesInit == Init => ByteInv
  <1> SUFFICES ASSUME Init PROVE ByteInv
    OBVIOUS
  <1>1. ASSUME NEW d \in Dispatches PROVE dispatch[d].pc = "idle" /\ dispatch[d].written = 0
    BY DEF Init, NewDispatch
  <1>2. ASSUME NEW c \in Conns, NEW d PROVE ~HasByte(stream, c, d)
    BY DEF Init, HasByte
  <1> QED
    BY <1>1, <1>2 DEF ByteInv, Exclusive, ByteSound

LEMMA BytesSound == Spec => [](SessionInv /\ ByteInv)
  <1>1. Init => SessionInv
    BY InitSession
  <1>2. SessionInv /\ [Next]_vars => SessionInv'
    BY NextSession
  <1> QED
    BY <1>1, <1>2, BytesStep, BytesInit, PTL DEF Spec

\* transport_error_before_send, which the worker turns into a certain failure, is
\* reported exactly when no byte of the Command's frame was put on any connection,
\* whatever deadlines, closed sockets and failed writes come in between.
THEOREM UnsentIsNoByte == Spec => []UnsentMeansNoByte
  <1>1. SessionInv /\ ByteInv => UnsentMeansNoByte
    <2> SUFFICES ASSUME ByteInv, NEW d \in Dispatches, dispatch[d].pc = "done"
                 PROVE  dispatch[d].outcome = "indeterminate" <=> \E c \in Conns : HasByte(stream, c, d)
      BY DEF UnsentMeansNoByte, HasByte
    <2>1. ByteSound(dispatch[d], stream, d)
      BY DEF ByteInv
    <2> QED
      BY <2>1 DEF ByteSound
  <1> QED
    BY <1>1, BytesSound, PTL


Contiguous(s) ==
    \A i, j \in DOMAIN s : (i < j /\ s[i] = s[j]) => \A m \in i .. j : s[m] = s[i]

\* Bytes that follow a block of the same Command, or no byte of it, make a block.
LEMMA AppendContiguous ==
    ASSUME NEW s \in Seq(Dispatches), NEW d \in Dispatches, NEW n \in Nat, Contiguous(s),
           (\E i \in DOMAIN s : s[i] = d) => s[Len(s)] = d
    PROVE  Contiguous(s \o Bytes(d, n))
  <1> DEFINE t == s \o Bytes(d, n)
  <1>0. /\ t \in Seq(Dispatches) /\ Len(t) = Len(s) + n
        /\ \A i \in 1 .. Len(s) : t[i] = s[i]
        /\ \A i \in (Len(s) + 1) .. (Len(s) + n) : t[i] = d
    BY Appended
  <1> HIDE DEF t
  <1>1. DOMAIN t = 1 .. Len(s) + n /\ DOMAIN s = 1 .. Len(s) /\ Len(s) \in Nat
    BY <1>0
  <1> SUFFICES ASSUME NEW i \in 1 .. Len(s) + n, NEW j \in 1 .. Len(s) + n, i < j, t[i] = t[j], NEW m \in i .. j
               PROVE  t[m] = t[i]
    BY <1>1 DEF Contiguous, t
  <1>2. i \in Nat /\ j \in Nat /\ m \in Nat /\ i <= m /\ m <= j /\ m \in 1 .. Len(s) + n
    BY <1>1
  <1>3. CASE j <= Len(s)
    <2>1. i \in DOMAIN s /\ j \in DOMAIN s /\ m \in 1 .. Len(s)
      BY <1>1, <1>2, <1>3
    <2>2. t[i] = s[i] /\ t[j] = s[j] /\ t[m] = s[m]
      BY <1>0, <1>1, <2>1
    <2> QED
      BY <2>1, <2>2 DEF Contiguous
  <1>4. CASE i > Len(s)
    <2>1. i \in (Len(s) + 1) .. (Len(s) + n) /\ m \in (Len(s) + 1) .. (Len(s) + n)
      BY <1>1, <1>2, <1>4
    <2> QED
      BY <1>0, <2>1
  <1>5. CASE i <= Len(s) /\ j > Len(s)
    <2>1. i \in 1 .. Len(s) /\ j \in (Len(s) + 1) .. (Len(s) + n) /\ Len(s) \in 1 .. Len(s)
      BY <1>1, <1>2, <1>5
    <2>2. s[i] = d /\ t[i] = d
      BY <1>0, <2>1
    <2>3. s[Len(s)] = d
      BY <1>1, <2>1, <2>2
    <2>4. CASE m > Len(s)
      <3>1. m \in (Len(s) + 1) .. (Len(s) + n)
        BY <1>1, <1>2, <2>4
      <3> QED
        BY <1>0, <2>2, <3>1
    <2>5. CASE m <= Len(s)
      <3>1. m \in 1 .. Len(s) /\ m \in i .. Len(s)
        BY <1>1, <1>2, <2>5
      <3>2. s[m] = d
        <4>0. \A x, y, z \in Nat : x <= y /\ y <= z => x < z \/ y = x
          OBVIOUS
        <4>1. CASE m = i
          BY <2>2, <4>1
        <4>2. CASE i < Len(s)
          BY <1>1, <2>1, <2>2, <2>3, <3>1, <4>2 DEF Contiguous
        <4> QED
          BY <1>1, <1>2, <2>5, <4>0, <4>1, <4>2
      <3> QED
        BY <1>0, <2>2, <3>1, <3>2
    <2> QED
      BY <1>1, <1>2, <2>4, <2>5
  <1> QED
    BY <1>1, <1>2, <1>3, <1>4, <1>5

LEMMA ContiguousStep ==
    ASSUME SessionInv, ByteInv, \A c \in Conns : Contiguous(stream[c]), [Next]_vars
    PROVE  \A c \in Conns : Contiguous(stream'[c])
  <1>1. ASSUME NEW d \in Dispatches, dispatch[d].pc = "writing", NEW n \in Nat, Put(d, n)
        PROVE  \A c \in Conns : Contiguous(stream'[c])
    <2> DEFINE w == dispatch[d].session.conn
    <2>1. /\ w \in Conns /\ \A b \in Conns \ {w} : stream'[b] = stream[b]
          /\ stream'[w] = stream[w] \o Bytes(d, n)
      BY <1>1, PutEffect
    <2>2. stream[w] \in Seq(Dispatches)
      BY <2>1 DEF SessionInv, TypeOK
    <2>3. (\E i \in DOMAIN stream[w] : stream[w][i] = d) => stream[w][Len(stream[w])] = d
      <3>1. ByteSound(dispatch[d], stream, d)
        BY DEF ByteInv
      <3> QED
        BY <1>1, <2>1, <3>1 DEF ByteSound, HasByte
    <2> HIDE DEF w
    <2>4. Contiguous(stream'[w])
      BY <2>1, <2>2, <2>3, AppendContiguous
    <2> QED
      BY <2>1, <2>4
  <1>2. ASSUME NEW d \in Dispatches, Adapt(d) PROVE \A c \in Conns : Contiguous(stream'[c])
    <2>1. CASE stream' = stream
      BY <2>1
    <2>2. ASSUME NEW n \in 1 .. FrameSize, WriteBytes(d, n) PROVE \A c \in Conns : Contiguous(stream'[c])
      <3>1. n \in Nat /\ dispatch[d].pc = "writing" /\ Put(d, n)
        BY <2>2 DEF WriteBytes
      <3> QED
        BY <1>1, <3>1
    <2>3. ASSUME NEW n \in 0 .. FrameSize, WriteFails(d, n) PROVE \A c \in Conns : Contiguous(stream'[c])
      <3>1. n \in Nat /\ dispatch[d].pc = "writing" /\ Put(d, n)
        BY <2>3 DEF WriteFails
      <3> QED
        BY <1>1, <3>1
    <2> QED
      BY <1>2, <2>1, <2>2, <2>3 DEF Adapt, Prepare, WriteUnique, LockWriter, Expire
  <1> QED
    BY <1>2, OthersWriteNothing

\* Two Commands for one lock never mix their bytes, however many write at once and
\* wherever a write stops: what each put on a connection is one block, because
\* Session.writeMu is held from its first byte to its last.
THEOREM FramesStayWhole == Spec => []FramesContiguous
  <1> DEFINE Whole == \A c \in Conns : Contiguous(stream[c])
  <1>1. Init => Whole
    BY DEF Init, Contiguous
  <1>2. SessionInv /\ ByteInv /\ Whole /\ [Next]_vars => Whole'
    BY ContiguousStep
  <1>3. Whole => FramesContiguous
    BY DEF Contiguous, FramesContiguous
  <1> HIDE DEF Whole
  <1> QED
    BY <1>1, <1>2, <1>3, BytesSound, PTL DEF Spec


-----------------------------------------------------------------------------
(***************************************************************************)
(* The books of a listener: which connection it is admitting, which ones   *)
(* have a handler, a slot, an entry in active or a session, and which ones *)
(* Close must reach.                                                       *)
(***************************************************************************)

\* What the place of a connection's goroutine says of its local variables.
PlaceSound(r) ==
    /\ r.pc = "new" => r.profile = None /\ ~r.open
    /\ r.pc # "new" => r.profile \in Profiles
    /\ r.pc \in {"releasing", "closed"} => ~r.open
    /\ r.pc = "registering" => r.gen = 0
    /\ r.pc \in {"new", "accepted"} => r.gen = 0
    /\ (r.gen = 0 /\ r.pc # "registering") => r.device = None

PlaceInv == \A c \in Conns : PlaceSound(conn[c])

\* A connection without a handler is the one its listener is admitting.
AdmitInv ==
    /\ \A p \in Profiles : listener[p].pc \in {"admitting", "tracking"} =>
          conn[listener[p].cur].pc = "accepted" /\ conn[listener[p].cur].profile = p
    /\ \A c \in Conns : conn[c].pc = "accepted" =>
          /\ listener[conn[c].profile].pc \in {"admitting", "tracking"}
          /\ listener[conn[c].profile].cur = c

Registered(table, k) ==
    {c \in Conns : table[c].pc \in {"reading", "ending"} /\ table[c].gen # 0
                   /\ <<table[c].profile, table[c].device>> = k}
Entry(table, c) == [gen |-> table[c].gen, conn |-> c]

RegistryInv == \A k \in Keys : sessions[k] = {Entry(conn, c) : c \in Registered(conn, k)}

Handlers(table, p) == {c \in Conns : table[c].profile = p /\ table[c].pc \in HandlerPlaces}

\* The slots of a listener, and what it calls active, are those of its handlers.
SlotSound(table, p, free, tracking, act) ==
    /\ IsFiniteSet(Handlers(table, p)) /\ act = Handlers(table, p)
    /\ free = Cardinality(Handlers(table, p)) + (IF tracking THEN 1 ELSE 0)
    /\ free <= MaxConnections

SlotInv == \A p \in Profiles : SlotSound(conn, p, slots[p], listener[p].pc = "tracking", active[p])

\* A socket that is open in a handler is one that Close has yet to reach.
CloseInv ==
    \A c \in Conns : (conn[c].open /\ conn[c].pc # "accepted") =>
        /\ closing[conn[c].profile] # "closed"
        /\ closing[conn[c].profile] = "closing" => c \in toClose[conn[c].profile]

ReturnInv == \A p \in Profiles : listener[p].pc = "returned" => Handlers(conn, p) = {}

BookInv == PlaceInv /\ AdmitInv /\ RegistryInv /\ SlotInv /\ CloseInv /\ ReturnInv

\* Two entries of the registry are of one connection.
LEMMA EntryConn ==
    ASSUME NEW g, NEW h, NEW b, NEW c, [gen |-> g, conn |-> b] = [gen |-> h, conn |-> c]
    PROVE  b = c
  <1>1. [gen |-> g, conn |-> b].conn = [gen |-> h, conn |-> c].conn
    BY Zenon
  <1> QED
    BY <1>1

\* A step that registers nobody and takes nobody out of the registry.
LEMMA RegistryKept ==
    ASSUME RegistryInv, sessions' = sessions,
           \A c \in Conns :
              \/ conn'[c].pc = conn[c].pc /\ conn'[c].gen = conn[c].gen
                 /\ conn'[c].profile = conn[c].profile /\ conn'[c].device = conn[c].device
              \/ conn[c].pc \in {"reading", "ending"} /\ conn'[c].pc \in {"reading", "ending"}
                 /\ conn'[c].gen = conn[c].gen
                 /\ conn'[c].profile = conn[c].profile /\ conn'[c].device = conn[c].device
              \/ /\ conn[c].pc \notin {"reading", "ending"} \/ conn[c].gen = 0
                 /\ conn'[c].pc \notin {"reading", "ending"} \/ conn'[c].gen = 0
    PROVE  RegistryInv'
  <1> SUFFICES ASSUME NEW k \in Keys PROVE sessions[k] = {Entry(conn', c) : c \in Registered(conn', k)}
    BY DEF RegistryInv
  <1>1. Registered(conn', k) = Registered(conn, k)
    BY DEF Registered
  <1>2. \A c \in Registered(conn, k) : conn'[c].gen = conn[c].gen
    BY DEF Registered
  <1>3. \A c \in Registered(conn, k) : Entry(conn', c) = Entry(conn, c)
    BY <1>2 DEF Entry
  <1>4. sessions[k] = {Entry(conn, c) : c \in Registered(conn, k)}
    BY DEF RegistryInv
  <1> QED
    BY <1>1, <1>3, <1>4

\* A step that gives no connection of p a handler and takes none from it.
LEMMA HandlersKept ==
    ASSUME NEW p,
           \A c \in Conns : (conn'[c].profile = p /\ conn'[c].pc \in HandlerPlaces) <=>
                            (conn[c].profile = p /\ conn[c].pc \in HandlerPlaces)
    PROVE  Handlers(conn', p) = Handlers(conn, p)
  BY DEF Handlers

\* A step of a handler that stays one.
LEMMA HandlerMoves ==
    ASSUME TypeOK, BookInv, NEW c \in Conns, \A b \in Conns \ {c} : conn'[b] = conn[b],
           conn[c].pc \in HandlerPlaces, conn'[c].pc \in HandlerPlaces,
           conn'[c].profile = conn[c].profile, conn'[c].open => conn[c].open,
           PlaceSound(conn'[c]), RegistryInv',
           UNCHANGED <<listener, closing, toClose, active, slots>>
    PROVE  BookInv'
  <1>0. conn[c].pc \notin {"new", "accepted", "closed"} /\ conn'[c].pc \notin {"new", "accepted", "closed"}
    BY DEF HandlerPlaces
  <1>1. PlaceInv'
    BY DEF BookInv, PlaceInv
  <1>2. AdmitInv'
    <2>1. \A p \in Profiles : listener[p].pc \in {"admitting", "tracking"} => listener[p].cur \in Conns \ {c}
      BY <1>0 DEF BookInv, AdmitInv, TypeOK
    <2>2. ASSUME NEW p \in Profiles, listener'[p].pc \in {"admitting", "tracking"}
          PROVE  conn'[listener'[p].cur].pc = "accepted" /\ conn'[listener'[p].cur].profile = p
      BY <2>1, <2>2 DEF BookInv, AdmitInv
    <2>3. ASSUME NEW b \in Conns, conn'[b].pc = "accepted"
          PROVE  /\ listener'[conn'[b].profile].pc \in {"admitting", "tracking"}
                 /\ listener'[conn'[b].profile].cur = b
      <3>1. b # c /\ conn'[b] = conn[b]
        BY <1>0, <2>3
      <3> QED
        BY <2>3, <3>1 DEF BookInv, AdmitInv
    <2> QED
      BY <2>2, <2>3 DEF AdmitInv
  <1>3. \A p : Handlers(conn', p) = Handlers(conn, p)
    BY HandlersKept
  <1>4. SlotInv' /\ ReturnInv'
    BY <1>3 DEF BookInv, SlotInv, SlotSound, ReturnInv
  <1>5. CloseInv'
    BY <1>0 DEF BookInv, CloseInv
  <1> QED
    BY <1>1, <1>2, <1>4, <1>5 DEF BookInv


LEMMA HandleBook ==
    ASSUME SessionInv, BookInv, NEW c \in Conns, Handle(c)
    PROVE  BookInv'
  <1> USE DEF serverVars, registryVars
  <1>0. TypeOK /\ conn[c] \in ConnStates /\ PlaceSound(conn[c]) /\ RegistryInv
    BY DEF SessionInv, TypeOK, BookInv, PlaceInv
  <1>1. ASSUME NEW f \in PeerFrames, Receive(c, f) PROVE BookInv'
    <2>1. /\ conn[c].pc = "reading" /\ sessions' = sessions
          /\ UNCHANGED <<listener, closing, toClose, active, slots>>
      BY <1>1 DEF Receive
    <2>2. /\ \A b \in Conns \ {c} : conn'[b] = conn[b]
          /\ conn'[c].profile = conn[c].profile /\ conn'[c].gen = conn[c].gen /\ conn'[c].open = conn[c].open
          /\ \/ conn'[c].device = conn[c].device /\ conn'[c].pc \in {"reading", "ending"}
             \/ conn[c].gen = 0 /\ conn'[c].pc = "registering"
      <3>1. CASE conn' = [conn EXCEPT ![c].pc = "ending"]
        BY <1>0, <3>1 DEF TypeOK, ConnStates
      <3>2. CASE conn[c].gen = 0 /\ conn' = [conn EXCEPT ![c].pc = "registering", ![c].device = f.imei]
        BY <1>0, <3>2 DEF TypeOK, ConnStates
      <3>3. CASE conn' = conn
        BY <2>1, <3>3
      <3> QED
        BY <1>1, <3>1, <3>2, <3>3 DEF Receive, Go, FirstFrame
    <2>3. RegistryInv'
      BY <1>0, <2>1, <2>2, RegistryKept
    <2>4. PlaceSound(conn'[c])
      BY <1>0, <2>1, <2>2 DEF PlaceSound
    <2>5. conn[c].pc \in HandlerPlaces /\ conn'[c].pc \in HandlerPlaces
      BY <2>1, <2>2 DEF HandlerPlaces
    <2> QED
      BY <1>0, <2>1, <2>2, <2>3, <2>4, <2>5, HandlerMoves
  <1>2. CASE Register(c)
    <2> DEFINE k == KeyOfConn(c)
               g == generation[k] + 1
    <2>0. k \in Keys /\ conn[c].device # None
      BY <1>2, OmniAssumption DEF Register, KeyOfConn, Keys, SessionInv, ProfileInv, TypeOK, ConnStates
    <2>1. /\ conn[c].pc = "registering" /\ UNCHANGED <<listener, closing, toClose, active, slots>>
          /\ sessions' = [sessions EXCEPT ![k] = @ \cup {[gen |-> g, conn |-> c]}]
          /\ conn' = [conn EXCEPT ![c].pc = "reading", ![c].gen = g]
      BY <1>2 DEF Register
    <2>2. g \in Nat \ {0}
      BY <1>0, <2>0 DEF TypeOK
    <2> HIDE DEF g
    <2>3. /\ \A b \in Conns \ {c} : conn'[b] = conn[b]
          /\ conn'[c].profile = conn[c].profile /\ conn'[c].gen = g /\ conn'[c].open = conn[c].open
          /\ conn'[c].device = conn[c].device /\ conn'[c].pc = "reading"
      BY <1>0, <2>1 DEF TypeOK, ConnStates
    <2>4. RegistryInv'
      <3> SUFFICES ASSUME NEW j \in Keys PROVE sessions'[j] = {Entry(conn', b) : b \in Registered(conn', j)}
        BY DEF RegistryInv
      <3>1. sessions[j] = {Entry(conn, b) : b \in Registered(conn, j)}
        BY <1>0 DEF RegistryInv
      <3>2. c \notin Registered(conn, j)
        BY <2>1 DEF Registered
      <3>3. \A b \in Registered(conn, j) : Entry(conn', b) = Entry(conn, b)
        BY <2>3, <3>2 DEF Entry, Registered
      <3>4. CASE j = k
        <4>1. Registered(conn', j) = Registered(conn, j) \cup {c}
          BY <2>1, <2>2, <2>3, <3>4 DEF Registered, KeyOfConn
        <4>2. Entry(conn', c) = [gen |-> g, conn |-> c]
          BY <2>3 DEF Entry
        <4>3. sessions'[j] = sessions[j] \cup {Entry(conn', c)}
          BY <1>0, <2>0, <2>1, <3>4, <4>2 DEF TypeOK
        <4> QED
          BY <3>1, <3>3, <4>1, <4>3
      <3>5. CASE j # k
        <4>1. Registered(conn', j) = Registered(conn, j)
          BY <2>1, <2>3, <3>5 DEF Registered, KeyOfConn
        <4>2. sessions'[j] = sessions[j]
          BY <1>0, <2>1, <3>5 DEF TypeOK
        <4> QED
          BY <3>1, <3>3, <4>1, <4>2
      <3> QED
        BY <3>4, <3>5
    <2>5. PlaceSound(conn'[c])
      BY <1>0, <2>1, <2>2, <2>3 DEF PlaceSound
    <2>6. conn[c].pc \in HandlerPlaces /\ conn'[c].pc \in HandlerPlaces
      BY <2>1, <2>3 DEF HandlerPlaces
    <2> QED
      BY <1>0, <2>1, <2>3, <2>4, <2>5, <2>6, HandlerMoves
  <1>3. CASE Leave(c)
    <2>1. /\ conn[c].pc = "reading" /\ sessions' = sessions
          /\ UNCHANGED <<listener, closing, toClose, active, slots>>
      BY <1>3 DEF Leave
    <2>2. /\ \A b \in Conns \ {c} : conn'[b] = conn[b]
          /\ conn'[c].profile = conn[c].profile /\ conn'[c].gen = conn[c].gen /\ conn'[c].open = conn[c].open
          /\ conn'[c].device = conn[c].device /\ conn'[c].pc = "ending"
      BY <1>0, <1>3 DEF Leave, Go, TypeOK, ConnStates
    <2>3. RegistryInv'
      BY <1>0, <2>1, <2>2, RegistryKept
    <2>4. PlaceSound(conn'[c])
      BY <1>0, <2>1, <2>2 DEF PlaceSound
    <2>5. conn[c].pc \in HandlerPlaces /\ conn'[c].pc \in HandlerPlaces
      BY <2>1, <2>2 DEF HandlerPlaces
    <2> QED
      BY <1>0, <2>1, <2>2, <2>3, <2>4, <2>5, HandlerMoves
  <1>4. CASE Unregister(c)
    <2>1. conn[c].pc = "ending" /\ UNCHANGED <<listener, closing, toClose, active, slots>>
      BY <1>4 DEF Unregister
    <2>2. /\ \A b \in Conns \ {c} : conn'[b] = conn[b]
          /\ conn'[c].profile = conn[c].profile /\ conn'[c].gen = conn[c].gen /\ conn'[c].open = conn[c].open
          /\ conn'[c].device = conn[c].device /\ conn'[c].pc = "closing"
      BY <1>0, <1>4 DEF Unregister, Go, TypeOK, ConnStates
    <2>3. RegistryInv'
      <3>1. CASE FirstFrame(c)
        BY <1>0, <1>4, <2>1, <2>2, <3>1, RegistryKept DEF Unregister, FirstFrame
      <3>2. CASE ~FirstFrame(c)
        <4> SUFFICES ASSUME NEW j \in Keys PROVE sessions'[j] = {Entry(conn', b) : b \in Registered(conn', j)}
          BY DEF RegistryInv
        <4>1. sessions[j] = {Entry(conn, b) : b \in Registered(conn, j)}
          BY <1>0 DEF RegistryInv
        <4>2. Registered(conn', j) = Registered(conn, j) \ {c}
          BY <2>2 DEF Registered
        <4>3. \A b \in Conns \ {c} : Entry(conn', b) = Entry(conn, b) /\ Entry(conn, b) # Entry(conn, c)
          BY <2>2, EntryConn DEF Entry
        <4>4. sessions' = [sessions EXCEPT ![KeyOfConn(c)] = @ \ {Entry(conn, c)}]
          BY <1>4, <3>2 DEF Unregister, Entry
        <4>5. CASE j = KeyOfConn(c)
          <5>1. sessions'[j] = sessions[j] \ {Entry(conn, c)}
            BY <1>0, <4>4, <4>5 DEF TypeOK
          <5>2. sessions'[j] = {Entry(conn, b) : b \in Registered(conn, j) \ {c}}
            BY <4>1, <4>3, <5>1 DEF Registered
          <5> QED
            BY <4>2, <4>3, <5>2 DEF Registered
        <4>6. CASE j # KeyOfConn(c)
          <5>1. sessions'[j] = sessions[j] /\ c \notin Registered(conn, j)
            BY <1>0, <4>4, <4>6 DEF TypeOK, Registered, KeyOfConn
          <5> QED
            BY <4>1, <4>2, <4>3, <5>1 DEF Registered
        <4> QED
          BY <4>5, <4>6
      <3> QED
        BY <3>1, <3>2
    <2>4. PlaceSound(conn'[c])
      BY <1>0, <2>1, <2>2 DEF PlaceSound
    <2>5. conn[c].pc \in HandlerPlaces /\ conn'[c].pc \in HandlerPlaces
      BY <2>1, <2>2 DEF HandlerPlaces
    <2> QED
      BY <1>0, <2>1, <2>2, <2>3, <2>4, <2>5, HandlerMoves
  <1>5. CASE CloseConn(c)
    <2>1. /\ conn[c].pc = "closing" /\ sessions' = sessions
          /\ UNCHANGED <<listener, closing, toClose, active, slots>>
      BY <1>5 DEF CloseConn
    <2>2. /\ \A b \in Conns \ {c} : conn'[b] = conn[b]
          /\ conn'[c].profile = conn[c].profile /\ conn'[c].gen = conn[c].gen /\ ~conn'[c].open
          /\ conn'[c].device = conn[c].device /\ conn'[c].pc = "releasing"
      BY <1>0, <1>5 DEF CloseConn, TypeOK, ConnStates
    <2>3. RegistryInv'
      BY <1>0, <2>1, <2>2, RegistryKept
    <2>4. PlaceSound(conn'[c])
      BY <1>0, <2>1, <2>2 DEF PlaceSound
    <2>5. conn[c].pc \in HandlerPlaces /\ conn'[c].pc \in HandlerPlaces
      BY <2>1, <2>2 DEF HandlerPlaces
    <2> QED
      BY <1>0, <2>1, <2>2, <2>3, <2>4, <2>5, HandlerMoves
  <1>6. CASE Release(c)
    <2> DEFINE p == conn[c].profile
    <2>1. /\ conn[c].pc = "releasing" /\ UNCHANGED <<sessions, listener, closing, toClose>>
          /\ active' = [active EXCEPT ![p] = @ \ {c}] /\ slots' = [slots EXCEPT ![p] = @ - 1]
      BY <1>6 DEF Release
    <2>2. /\ \A b \in Conns \ {c} : conn'[b] = conn[b]
          /\ conn'[c].profile = conn[c].profile /\ conn'[c].gen = conn[c].gen /\ conn'[c].open = conn[c].open
          /\ conn'[c].device = conn[c].device /\ conn'[c].pc = "closed"
      BY <1>0, <1>6 DEF Release, Go, TypeOK, ConnStates
    <2>3. p \in Profiles /\ ~conn[c].open
      BY <1>0, <2>1 DEF PlaceSound
    <2>4. RegistryInv'
      BY <1>0, <2>1, <2>2, RegistryKept
    <2>5. PlaceInv'
      <3>1. PlaceSound(conn'[c])
        BY <1>0, <2>1, <2>2 DEF PlaceSound
      <3> QED
        BY <2>2, <3>1 DEF BookInv, PlaceInv
    <2>6. AdmitInv'
      <3>1. \A q \in Profiles : listener[q].pc \in {"admitting", "tracking"} => listener[q].cur \in Conns \ {c}
        BY <1>0, <2>1 DEF BookInv, AdmitInv, TypeOK
      <3> QED
        BY <2>1, <2>2, <3>1 DEF BookInv, AdmitInv
    <2>7. Handlers(conn', p) = Handlers(conn, p) \ {c} /\ c \in Handlers(conn, p)
      BY <2>1, <2>2 DEF Handlers, HandlerPlaces
    <2>8. \A q \in Profiles \ {p} : Handlers(conn', q) = Handlers(conn, q)
      BY <2>2 DEF Handlers
    <2>9. SlotInv'
      <3> SUFFICES ASSUME NEW q \in Profiles
                   PROVE  SlotSound(conn', q, slots'[q], listener'[q].pc = "tracking", active'[q])
        BY DEF SlotInv
      <3>0. SlotSound(conn, q, slots[q], listener[q].pc = "tracking", active[q]) /\ slots[q] \in Int
        BY <1>0 DEF BookInv, SlotInv, TypeOK
      <3>1. CASE q = p
        <4>1. active'[q] = active[q] \ {c} /\ slots'[q] = slots[q] - 1 /\ listener'[q] = listener[q]
          BY <1>0, <2>1, <2>3, <3>1 DEF TypeOK
        <4>2. /\ IsFiniteSet(Handlers(conn', q))
              /\ Cardinality(Handlers(conn', q)) = Cardinality(Handlers(conn, q)) - 1
          BY <2>7, <3>0, <3>1, FS_RemoveElement DEF SlotSound
        <4>3. Cardinality(Handlers(conn, q)) \in Nat /\ MaxConnections \in Nat
          BY <3>0, FS_CardinalityType, OmniAssumption DEF SlotSound
        <4>4. active'[q] = Handlers(conn', q)
          BY <2>7, <3>0, <3>1, <4>1 DEF SlotSound
        <4> QED
          BY <3>0, <4>1, <4>2, <4>3, <4>4 DEF SlotSound
      <3>2. CASE q # p
        BY <1>0, <2>1, <2>8, <3>0, <3>2 DEF SlotSound, TypeOK
      <3> QED
        BY <3>1, <3>2
    <2>10. CloseInv'
      BY <2>1, <2>2, <2>3 DEF BookInv, CloseInv
    <2>11. ReturnInv'
      BY <2>1, <2>7, <2>8 DEF BookInv, ReturnInv
    <2> QED
      BY <2>4, <2>5, <2>6, <2>9, <2>10, <2>11 DEF BookInv
  <1> QED
    BY <1>1, <1>2, <1>3, <1>4, <1>5, <1>6 DEF Handle


\* A step of a listener that leaves the handlers alone.
LEMMA ListenerMoves ==
    ASSUME BookInv, AdmitInv', PlaceInv', sessions' = sessions, UNCHANGED <<closing, toClose, active>>,
           \A c \in Conns :
              \/ conn'[c] = conn[c]
              \/ conn[c].pc \notin HandlerPlaces /\ conn'[c].pc \notin HandlerPlaces
                 /\ (conn'[c].open => conn'[c].pc = "accepted"),
           \A p \in Profiles :
              /\ listener'[p].pc = "returned" => listener[p].pc = "returned" \/ Handlers(conn, p) = {}
              /\ \/ slots'[p] = slots[p] /\ (listener'[p].pc = "tracking" <=> listener[p].pc = "tracking")
                 \/ /\ slots'[p] = slots[p] + 1 /\ slots[p] < MaxConnections
                    /\ listener'[p].pc = "tracking" /\ listener[p].pc # "tracking"
                 \/ /\ slots'[p] = slots[p] - 1
                    /\ listener'[p].pc # "tracking" /\ listener[p].pc = "tracking"
    PROVE  BookInv'
  <1>1. \A p : Handlers(conn', p) = Handlers(conn, p)
    BY DEF Handlers
  <1>2. RegistryInv'
    <2>1. RegistryInv
      BY DEF BookInv
    <2>2. "reading" \in HandlerPlaces /\ "ending" \in HandlerPlaces
      BY DEF HandlerPlaces
    <2> QED
      BY <2>1, <2>2, RegistryKept
  <1>3. CloseInv'
    BY DEF BookInv, CloseInv
  <1>4. ReturnInv'
    BY <1>1 DEF BookInv, ReturnInv
  <1>5. SlotInv'
    <2> SUFFICES ASSUME NEW p \in Profiles
                 PROVE  SlotSound(conn', p, slots'[p], listener'[p].pc = "tracking", active'[p])
      BY DEF SlotInv
    <2>0. SlotSound(conn, p, slots[p], listener[p].pc = "tracking", active[p])
      BY DEF BookInv, SlotInv
    <2>1. Cardinality(Handlers(conn, p)) \in Nat /\ MaxConnections \in Nat
      BY <2>0, FS_CardinalityType, OmniAssumption DEF SlotSound
    <2>2. Handlers(conn', p) = Handlers(conn, p) /\ active'[p] = active[p]
      BY <1>1
    <2> QED
      BY <2>0, <2>1, <2>2 DEF SlotSound
  <1> QED
    BY <1>2, <1>3, <1>4, <1>5 DEF BookInv

\* The connection being admitted is closed.
LEMMA RefuseEffect ==
    ASSUME TypeOK, BookInv, NEW p \in Profiles, listener[p].pc \in {"admitting", "tracking"}, Refuse(p)
    PROVE  /\ AdmitInv' /\ PlaceInv'
           /\ \A c \in Conns : \/ conn'[c] = conn[c]
                               \/ conn[c].pc \notin HandlerPlaces /\ conn'[c].pc \notin HandlerPlaces
                                  /\ (conn'[c].open => conn'[c].pc = "accepted")
           /\ listener'[p].pc = "accepting" /\ \A q \in Profiles \ {p} : listener'[q] = listener[q]
  <1> DEFINE c == listener[p].cur
  <1>1. c \in Conns /\ conn[c].pc = "accepted" /\ conn[c].profile = p /\ conn[c] \in ConnStates /\ PlaceSound(conn[c])
    BY DEF TypeOK, BookInv, AdmitInv, PlaceInv
  <1>2. /\ \A b \in Conns \ {c} : conn'[b] = conn[b]
        /\ conn'[c].pc = "closed" /\ ~conn'[c].open /\ conn'[c].profile = p
        /\ conn'[c].gen = conn[c].gen /\ conn'[c].device = conn[c].device
    BY <1>1 DEF Refuse, TypeOK, ConnStates
  <1>3. listener'[p].pc = "accepting" /\ \A q \in Profiles \ {p} : listener'[q] = listener[q]
    BY DEF Refuse, At, TypeOK, ListenerStates
  <1> HIDE DEF c
  <1>4. PlaceInv'
    <2>1. PlaceSound(conn'[c])
      BY <1>1, <1>2 DEF PlaceSound
    <2> QED
      BY <1>2, <2>1 DEF BookInv, PlaceInv
  <1>5. AdmitInv'
    <2>1. ASSUME NEW q \in Profiles, listener'[q].pc \in {"admitting", "tracking"}
          PROVE  conn'[listener'[q].cur].pc = "accepted" /\ conn'[listener'[q].cur].profile = q
      <3>1. q # p /\ listener'[q] = listener[q]
        BY <1>3, <2>1
      <3>2. listener[q].cur \in Conns /\ conn[listener[q].cur].pc = "accepted" /\ conn[listener[q].cur].profile = q
        BY <2>1, <3>1 DEF BookInv, AdmitInv, TypeOK
      <3>3. listener[q].cur # c
        BY <1>1, <3>1, <3>2
      <3> QED
        BY <1>2, <3>1, <3>2, <3>3
    <2>2. ASSUME NEW b \in Conns, conn'[b].pc = "accepted"
          PROVE  /\ listener'[conn'[b].profile].pc \in {"admitting", "tracking"}
                 /\ listener'[conn'[b].profile].cur = b
      <3>1. b # c /\ conn'[b] = conn[b]
        BY <1>2, <2>2
      <3>2. /\ listener[conn[b].profile].pc \in {"admitting", "tracking"} /\ listener[conn[b].profile].cur = b
            /\ conn[b].profile \in Profiles
        BY <2>2, <3>1 DEF BookInv, AdmitInv, PlaceInv, PlaceSound
      <3>3. conn[b].profile # p
        BY <3>1, <3>2 DEF c
      <3> QED
        BY <1>3, <3>1, <3>2, <3>3
    <2> QED
      BY <2>1, <2>2 DEF AdmitInv
  <1> QED
    BY <1>1, <1>2, <1>3, <1>4, <1>5 DEF HandlerPlaces


\* A listener that admits nobody moves to a place where it admits nobody.
LEMMA AtKeepsAdmit ==
    ASSUME TypeOK, BookInv, NEW p \in Profiles, listener[p].pc \notin {"admitting", "tracking"}, conn' = conn,
           listener'[p].pc \notin {"admitting", "tracking"}, \A q \in Profiles \ {p} : listener'[q] = listener[q]
    PROVE  AdmitInv' /\ PlaceInv'
  <1>1. ASSUME NEW q \in Profiles, listener'[q].pc \in {"admitting", "tracking"}
        PROVE  conn'[listener'[q].cur].pc = "accepted" /\ conn'[listener'[q].cur].profile = q
    BY <1>1 DEF BookInv, AdmitInv
  <1>2. ASSUME NEW b \in Conns, conn'[b].pc = "accepted"
        PROVE  /\ listener'[conn'[b].profile].pc \in {"admitting", "tracking"}
               /\ listener'[conn'[b].profile].cur = b
    BY <1>2 DEF BookInv, AdmitInv, PlaceInv, PlaceSound
  <1> QED
    BY <1>1, <1>2 DEF BookInv, PlaceInv, AdmitInv

LEMMA AcceptBook ==
    ASSUME TypeOK, BookInv, NEW p \in Profiles, Accept(p)
    PROVE  BookInv'
  <1>1. PICK c \in Conns :
           /\ conn[c].pc = "new"
           /\ conn' = [conn EXCEPT ![c] = [NewConn EXCEPT !.pc = "accepted", !.profile = p, !.open = TRUE]]
           /\ At(p, "admitting", c)
    BY DEF Accept
  <1>2. /\ listener[p].pc = "accepting" /\ UNCHANGED <<sessions, closing, toClose, active, slots>>
    BY DEF Accept, registryVars
  <1>3. /\ \A b \in Conns \ {c} : conn'[b] = conn[b]
        /\ conn'[c].pc = "accepted" /\ conn'[c].profile = p /\ conn'[c].gen = 0 /\ conn'[c].device = None
    BY <1>1 DEF NewConn, TypeOK
  <1>4. /\ listener'[p].pc = "admitting" /\ listener'[p].cur = c
        /\ \A q \in Profiles \ {p} : listener'[q] = listener[q]
    BY <1>1 DEF At, TypeOK
  <1>5. PlaceInv'
    <2>1. PlaceSound(conn'[c])
      BY <1>3 DEF PlaceSound
    <2> QED
      BY <1>3, <2>1 DEF BookInv, PlaceInv
  <1>6. AdmitInv'
    <2>1. ASSUME NEW q \in Profiles, listener'[q].pc \in {"admitting", "tracking"}
          PROVE  conn'[listener'[q].cur].pc = "accepted" /\ conn'[listener'[q].cur].profile = q
      <3>1. CASE q = p
        BY <1>3, <1>4, <3>1
      <3>2. CASE q # p
        <4>1. listener[q].cur \in Conns \ {c} /\ conn[listener[q].cur].pc = "accepted"
              /\ conn[listener[q].cur].profile = q
          BY <1>1, <1>4, <2>1, <3>2 DEF BookInv, AdmitInv, TypeOK
        <4> QED
          BY <1>3, <1>4, <3>2, <4>1
      <3> QED
        BY <3>1, <3>2
    <2>2. ASSUME NEW b \in Conns, conn'[b].pc = "accepted"
          PROVE  /\ listener'[conn'[b].profile].pc \in {"admitting", "tracking"}
                 /\ listener'[conn'[b].profile].cur = b
      <3>1. CASE b = c
        BY <1>3, <1>4, <3>1
      <3>2. CASE b # c
        BY <1>2, <1>3, <1>4, <2>2, <3>2 DEF BookInv, AdmitInv, PlaceInv, PlaceSound
      <3> QED
        BY <3>1, <3>2
    <2> QED
      BY <2>1, <2>2 DEF AdmitInv
  <1>7. conn[c].pc \notin HandlerPlaces /\ conn'[c].pc \notin HandlerPlaces
    BY <1>1, <1>3 DEF HandlerPlaces
  <1> QED
    BY <1>2, <1>3, <1>4, <1>5, <1>6, <1>7, ListenerMoves

LEMMA AdmitBook ==
    ASSUME TypeOK, BookInv, NEW p \in Profiles, Admit(p)
    PROVE  BookInv'
  <1>0. listener[p].pc = "admitting" /\ UNCHANGED <<sessions, closing, toClose, active>>
    BY DEF Admit, registryVars
  <1>1. CASE slots[p] < MaxConnections
    <2>1. /\ conn' = conn /\ slots' = [slots EXCEPT ![p] = @ + 1] /\ At(p, "tracking", listener[p].cur)
      BY <1>1 DEF Admit
    <2>2. /\ listener'[p].pc = "tracking" /\ listener'[p].cur = listener[p].cur
          /\ \A q \in Profiles \ {p} : listener'[q] = listener[q]
          /\ slots'[p] = slots[p] + 1 /\ \A q \in Profiles \ {p} : slots'[q] = slots[q]
      BY <2>1 DEF At, TypeOK
    <2>3. AdmitInv'
      <3>1. ASSUME NEW q \in Profiles, listener'[q].pc \in {"admitting", "tracking"}
            PROVE  conn'[listener'[q].cur].pc = "accepted" /\ conn'[listener'[q].cur].profile = q
        BY <1>0, <2>1, <2>2, <3>1 DEF BookInv, AdmitInv
      <3>2. ASSUME NEW b \in Conns, conn'[b].pc = "accepted"
            PROVE  /\ listener'[conn'[b].profile].pc \in {"admitting", "tracking"}
                   /\ listener'[conn'[b].profile].cur = b
        BY <2>1, <2>2, <3>2 DEF BookInv, AdmitInv, PlaceInv, PlaceSound
      <3> QED
        BY <3>1, <3>2 DEF AdmitInv
    <2>4. PlaceInv'
      BY <2>1 DEF BookInv, PlaceInv
    <2> QED
      BY <1>0, <1>1, <2>1, <2>2, <2>3, <2>4, ListenerMoves
  <1>2. CASE ~ (slots[p] < MaxConnections)
    <2>1. Refuse(p) /\ slots' = slots
      BY <1>2 DEF Admit
    <2> QED
      BY <1>0, <2>1, RefuseEffect, ListenerMoves
  <1> QED
    BY <1>1, <1>2

\* TCPListener.track: a connection that got its slot becomes a handler, or is turned
\* away because Close has begun.
LEMMA TrackBook ==
    ASSUME TypeOK, BookInv, NEW p \in Profiles, Track(p)
    PROVE  BookInv'
  <1> DEFINE c == listener[p].cur
  <1>0. listener[p].pc = "tracking" /\ UNCHANGED <<sessions, closing, toClose>>
    BY DEF Track, registryVars
  <1>1. CASE closing[p] # "open"
    <2>1. Refuse(p) /\ slots' = [slots EXCEPT ![p] = @ - 1] /\ active' = active
      BY <1>1 DEF Track
    <2>2. slots'[p] = slots[p] - 1 /\ \A q \in Profiles \ {p} : slots'[q] = slots[q]
      BY <2>1 DEF TypeOK
    <2> QED
      BY <1>0, <2>1, <2>2, RefuseEffect, ListenerMoves
  <1>2. CASE closing[p] = "open"
    <2>1. /\ c \in Conns /\ conn[c].pc = "accepted" /\ conn[c].profile = p /\ conn[c] \in ConnStates
          /\ PlaceSound(conn[c])
      BY <1>0 DEF TypeOK, BookInv, AdmitInv, PlaceInv
    <2>2. /\ active' = [active EXCEPT ![p] = @ \cup {c}] /\ slots' = slots
          /\ Go(c, "reading") /\ At(p, "accepting", None)
      BY <1>2 DEF Track
    <2>3. /\ \A b \in Conns \ {c} : conn'[b] = conn[b]
          /\ conn'[c].pc = "reading" /\ conn'[c].profile = p /\ conn'[c].gen = conn[c].gen
          /\ conn'[c].device = conn[c].device
      BY <2>1, <2>2 DEF Go, TypeOK, ConnStates
    <2>4. listener'[p].pc = "accepting" /\ \A q \in Profiles \ {p} : listener'[q] = listener[q]
      BY <2>2 DEF At, TypeOK
    <2>5. active'[p] = active[p] \cup {c} /\ \A q \in Profiles \ {p} : active'[q] = active[q]
      BY <2>2 DEF TypeOK
    <2> HIDE DEF c
    <2>6. PlaceInv'
      <3>1. PlaceSound(conn'[c])
        BY <2>1, <2>3 DEF PlaceSound
      <3> QED
        BY <2>3, <3>1 DEF BookInv, PlaceInv
    <2>7. AdmitInv'
      <3>1. ASSUME NEW q \in Profiles, listener'[q].pc \in {"admitting", "tracking"}
            PROVE  conn'[listener'[q].cur].pc = "accepted" /\ conn'[listener'[q].cur].profile = q
        <4>1. q # p /\ listener'[q] = listener[q]
          BY <2>4, <3>1
        <4>2. /\ listener[q].cur \in Conns /\ conn[listener[q].cur].pc = "accepted"
              /\ conn[listener[q].cur].profile = q
          BY <3>1, <4>1 DEF BookInv, AdmitInv, TypeOK
        <4>3. listener[q].cur # c
          BY <2>1, <4>1, <4>2
        <4> QED
          BY <2>3, <4>1, <4>2, <4>3
      <3>2. ASSUME NEW b \in Conns, conn'[b].pc = "accepted"
            PROVE  /\ listener'[conn'[b].profile].pc \in {"admitting", "tracking"}
                   /\ listener'[conn'[b].profile].cur = b
        <4>1. b # c /\ conn'[b] = conn[b]
          BY <2>3, <3>2
        <4>2. /\ listener[conn[b].profile].pc \in {"admitting", "tracking"} /\ listener[conn[b].profile].cur = b
              /\ conn[b].profile \in Profiles
          BY <3>2, <4>1 DEF BookInv, AdmitInv, PlaceInv, PlaceSound
        <4>3. conn[b].profile # p
          BY <4>1, <4>2 DEF c
        <4> QED
          BY <2>4, <4>1, <4>2, <4>3
      <3> QED
        BY <3>1, <3>2 DEF AdmitInv
    <2>8. RegistryInv'
      <3>1. RegistryInv /\ conn[c].gen = 0
        BY <2>1 DEF BookInv, PlaceSound
      <3> QED
        BY <1>0, <2>1, <2>3, <3>1, RegistryKept
    <2>9. Handlers(conn', p) = Handlers(conn, p) \cup {c} /\ c \notin Handlers(conn, p)
      BY <2>1, <2>3 DEF Handlers, HandlerPlaces
    <2>10. \A q \in Profiles \ {p} : Handlers(conn', q) = Handlers(conn, q)
      BY <2>1, <2>3 DEF Handlers, HandlerPlaces
    <2>11. SlotInv'
      <3> SUFFICES ASSUME NEW q \in Profiles
                   PROVE  SlotSound(conn', q, slots'[q], listener'[q].pc = "tracking", active'[q])
        BY DEF SlotInv
      <3>0. SlotSound(conn, q, slots[q], listener[q].pc = "tracking", active[q])
        BY DEF BookInv, SlotInv
      <3>1. CASE q = p
        <4>1. /\ IsFiniteSet(Handlers(conn', q))
              /\ Cardinality(Handlers(conn', q)) = Cardinality(Handlers(conn, q)) + 1
          BY <2>9, <3>0, <3>1, FS_AddElement DEF SlotSound
        <4>2. Cardinality(Handlers(conn, q)) \in Nat /\ MaxConnections \in Nat
          BY <3>0, FS_CardinalityType, OmniAssumption DEF SlotSound
        <4>3. active'[q] = Handlers(conn', q)
          BY <2>5, <2>9, <3>0, <3>1 DEF SlotSound
        <4>4. slots'[q] = slots[q] /\ listener'[q].pc # "tracking" /\ listener[q].pc = "tracking"
          BY <1>0, <2>2, <2>4, <3>1
        <4>5. slots[q] = Cardinality(Handlers(conn, q)) + 1 /\ slots[q] <= MaxConnections
          BY <3>0, <4>4 DEF SlotSound
        <4> QED
          BY <4>1, <4>2, <4>3, <4>4, <4>5 DEF SlotSound
      <3>2. CASE q # p
        BY <2>2, <2>4, <2>5, <2>10, <3>0, <3>2 DEF SlotSound
      <3> QED
        BY <3>1, <3>2
    <2>12. CloseInv'
      BY <1>0, <1>2, <2>1, <2>3 DEF BookInv, CloseInv
    <2>13. ReturnInv'
      BY <2>4, <2>10 DEF BookInv, ReturnInv
    <2> QED
      BY <2>6, <2>7, <2>8, <2>11, <2>12, <2>13 DEF BookInv
  <1> QED
    BY <1>1, <1>2

LEMMA CloseBook ==
    ASSUME TypeOK, BookInv, NEW p \in Profiles, CloseBegin(p) \/ CloseEnd(p)
    PROVE  BookInv'
  <1>0. UNCHANGED <<sessions, listener, active, slots>>
    BY DEF CloseBegin, CloseEnd, registryVars
  <1>1. ASSUME NEW c \in Conns
        PROVE  /\ conn'[c].pc = conn[c].pc /\ conn'[c].profile = conn[c].profile /\ conn'[c].gen = conn[c].gen
               /\ conn'[c].device = conn[c].device /\ (conn'[c].open => conn[c].open)
    <2>1. CASE CloseBegin(p)
      BY <2>1 DEF CloseBegin
    <2>2. CASE CloseEnd(p)
      BY <2>2 DEF CloseEnd, TypeOK, ConnStates
    <2> QED
      BY <2>1, <2>2
  <1>2. PlaceInv'
    BY <1>1 DEF BookInv, PlaceInv, PlaceSound
  <1>3. AdmitInv'
    <2>1. \A q \in Profiles : listener[q].pc \in {"admitting", "tracking"} => listener[q].cur \in Conns
      BY DEF TypeOK
    <2>2. \A q \in Profiles : listener[q].pc \in {"admitting", "tracking"} =>
             conn'[listener[q].cur].pc = "accepted" /\ conn'[listener[q].cur].profile = q
      BY <1>1, <2>1 DEF BookInv, AdmitInv
    <2>3. \A c \in Conns : conn'[c].pc = "accepted" =>
             listener[conn'[c].profile].pc \in {"admitting", "tracking"} /\ listener[conn'[c].profile].cur = c
      BY <1>1 DEF BookInv, AdmitInv
    <2> QED
      BY <1>0, <2>2, <2>3 DEF AdmitInv
  <1>4. RegistryInv'
    BY <1>0, <1>1, RegistryKept DEF BookInv
  <1>5. \A q : Handlers(conn', q) = Handlers(conn, q)
    BY <1>1 DEF Handlers
  <1>6. SlotInv' /\ ReturnInv'
    BY <1>0, <1>5 DEF BookInv, SlotInv, SlotSound, ReturnInv
  <1>7. CloseInv'
    <2>1. CASE CloseBegin(p)
      <3>1. /\ conn' = conn /\ closing'[p] = "closing" /\ \A q \in Profiles \ {p} : closing'[q] = closing[q]
            /\ toClose'[p] = active[p] /\ \A q \in Profiles \ {p} : toClose'[q] = toClose[q]
        BY <2>1 DEF CloseBegin, TypeOK
      <3>2. active[p] = Handlers(conn, p)
        BY DEF BookInv, SlotInv, SlotSound
      <3>3. ASSUME NEW c \in Conns, conn[c].open, conn[c].pc # "accepted"
            PROVE  c \in Handlers(conn, conn[c].profile) /\ conn[c].profile \in Profiles
        <4>1. PlaceSound(conn[c]) /\ conn[c].pc \in HandlerPlaces \cup {"new", "accepted", "closed"}
          BY DEF BookInv, PlaceInv, TypeOK, ConnStates
        <4> QED
          BY <3>3, <4>1 DEF PlaceSound, Handlers
      <3> QED
        BY <3>1, <3>2, <3>3 DEF BookInv, CloseInv
    <2>2. CASE CloseEnd(p)
      <3>1. /\ closing[p] = "closing" /\ closing'[p] = "closed" /\ \A q \in Profiles \ {p} : closing'[q] = closing[q]
            /\ \A q \in Profiles \ {p} : toClose'[q] = toClose[q]
        BY <2>2 DEF CloseEnd, TypeOK
      <3>2. \A c \in Conns : conn'[c].open => c \notin toClose[p]
        BY <2>2 DEF CloseEnd, TypeOK, ConnStates
      <3>3. \A c \in Conns : conn[c].open => conn[c].profile \in Profiles
        BY DEF BookInv, PlaceInv, PlaceSound
      <3> QED
        BY <1>1, <3>1, <3>2, <3>3 DEF BookInv, CloseInv
    <2> QED
      BY <2>1, <2>2
  <1> QED
    BY <1>2, <1>3, <1>4, <1>6, <1>7 DEF BookInv

LEMMA ListenBook ==
    ASSUME SessionInv, BookInv, NEW p \in Profiles, Listen(p)
    PROVE  BookInv'
  <1>0. TypeOK
    BY DEF SessionInv
  <1>1. CASE AcceptFails(p)
    <2>1. listener[p].pc = "accepting" /\ UNCHANGED <<sessions, conn, closing, toClose, active, slots>>
      BY <1>1 DEF AcceptFails, registryVars
    <2>2. listener'[p].pc = "returning" /\ \A q \in Profiles \ {p} : listener'[q] = listener[q]
      BY <1>0, <1>1 DEF AcceptFails, At, TypeOK
    <2>3. AdmitInv' /\ PlaceInv'
      BY <1>0, <2>1, <2>2, AtKeepsAdmit
    <2> QED
      BY <2>1, <2>2, <2>3, ListenerMoves
  <1>2. CASE ListenerReturns(p)
    <2>1. /\ listener[p].pc = "returning" /\ UNCHANGED <<sessions, conn, closing, toClose, active, slots>>
          /\ \A c \in Conns : conn[c].profile = p => conn[c].pc \notin HandlerPlaces
      BY <1>2 DEF ListenerReturns, registryVars
    <2>2. listener'[p].pc = "returned" /\ \A q \in Profiles \ {p} : listener'[q] = listener[q]
      BY <1>0, <1>2 DEF ListenerReturns, At, TypeOK
    <2>3. AdmitInv' /\ PlaceInv'
      BY <1>0, <2>1, <2>2, AtKeepsAdmit
    <2>4. Handlers(conn, p) = {}
      BY <2>1 DEF Handlers
    <2> QED
      BY <2>1, <2>2, <2>3, <2>4, ListenerMoves
  <1> QED
    BY <1>0, <1>1, <1>2, AcceptBook, AdmitBook, TrackBook, CloseBook DEF Listen

LEMMA BookUnchanged ==
    ASSUME BookInv, UNCHANGED <<listener, closing, toClose, active, slots, conn, sessions>>
    PROVE  BookInv'
  BY DEF BookInv, PlaceInv, AdmitInv, RegistryInv, SlotInv, CloseInv, ReturnInv

LEMMA BookStep == SessionInv /\ BookInv /\ [Next]_vars => BookInv'
  <1> SUFFICES ASSUME SessionInv, BookInv, [Next]_vars
               PROVE  BookInv'
    OBVIOUS
  <1>1. CASE \E p \in Profiles : Listen(p)
    BY <1>1, ListenBook
  <1>2. CASE \E c \in Conns : Handle(c)
    BY <1>2, HandleBook DEF SessionInv
  <1>3. CASE \E d \in Dispatches : Adapt(d)
    <2> PICK d \in Dispatches : Adapt(d)
      BY <1>3
    <2>1. UNCHANGED <<listener, closing, toClose, active, slots, conn, sessions>>
      BY DEF Adapt, Prepare, WriteUnique, LockWriter, WriteBytes, WriteFails, Expire, serverVars, registryVars
    <2> QED
      BY <2>1, BookUnchanged
  <1>4. CASE \/ \E x \in Managed : SetLifecycle(x)
             \/ Stop \/ RuntimeClose \/ RuntimeStops \/ RuntimeReturns \/ UNCHANGED vars
    <2>1. UNCHANGED <<listener, closing, toClose, active, slots, conn, sessions>>
      BY <1>4 DEF SetLifecycle, Stop, RuntimeClose, RuntimeStops, RuntimeReturns, vars, serverVars, registryVars
    <2> QED
      BY <2>1, BookUnchanged
  <1> QED
    BY <1>1, <1>2, <1>3, <1>4 DEF Next

LEMMA BookInit == Init => BookInv
  <1> SUFFICES ASSUME Init PROVE BookInv
    OBVIOUS
  <1>1. \A c \in Conns : conn[c] = NewConn
    BY DEF Init
  <1>2. \A p \in Profiles : listener[p].pc = "accepting" /\ slots[p] = 0 /\ active[p] = {}
    BY DEF Init
  <1>3. /\ NewConn.pc = "new" /\ NewConn.profile = None /\ NewConn.device = None /\ NewConn.gen = 0
        /\ NewConn.open = FALSE
    BY DEF NewConn
  <1>4. \A p : Handlers(conn, p) = {}
    BY <1>1, <1>3 DEF Handlers, HandlerPlaces
  <1>5. PlaceInv
    BY <1>1, <1>3 DEF PlaceInv, PlaceSound
  <1>6. AdmitInv
    BY <1>1, <1>2, <1>3 DEF AdmitInv
  <1>7. RegistryInv
    <2>1. \A k \in Keys : sessions[k] = {} /\ Registered(conn, k) = {}
      BY <1>1, <1>3 DEF Init, Registered
    <2> QED
      BY <2>1 DEF RegistryInv
  <1>8. SlotInv
    <2>1. IsFiniteSet({}) /\ Cardinality({}) = 0 /\ 0 <= MaxConnections
      BY FS_EmptySet, OmniAssumption
    <2> QED
      BY <1>2, <1>4, <2>1 DEF SlotInv, SlotSound
  <1>9. CloseInv /\ ReturnInv
    BY <1>1, <1>2, <1>3 DEF CloseInv, ReturnInv
  <1> QED
    BY <1>5, <1>6, <1>7, <1>8, <1>9 DEF BookInv

LEMMA BooksSound == Spec => [](SessionInv /\ BookInv)
  <1>1. Init => SessionInv
    BY InitSession
  <1>2. SessionInv /\ [Next]_vars => SessionInv'
    BY NextSession
  <1> QED
    BY <1>1, <1>2, BookStep, BookInit, PTL DEF Spec

\* A returned listener has no handler, so none of its connections is left open and none
\* of its profile's Devices has a session.
LEMMA ReturnedLeavesNothing ==
    ASSUME SessionInv, BookInv, NEW p \in Profiles, listener[p].pc = "returned"
    PROVE  /\ \A c \in Conns : conn[c].profile = p => (conn[c].pc = "closed" /\ ~conn[c].open)
           /\ \A x \in Devices : sessions[<<p, x>>] = {}
           /\ slots[p] = 0 /\ active[p] = {}
  <1>1. Handlers(conn, p) = {}
    BY DEF BookInv, ReturnInv
  <1>2. ASSUME NEW c \in Conns, conn[c].profile = p
        PROVE  conn[c].pc = "closed" /\ ~conn[c].open
    <2>1. conn[c].pc \in HandlerPlaces \cup {"new", "accepted", "closed"} /\ PlaceSound(conn[c])
      BY DEF SessionInv, TypeOK, ConnStates, BookInv, PlaceInv
    <2>2. conn[c].pc # "accepted"
      BY <1>2 DEF BookInv, AdmitInv
    <2>3. conn[c].pc \notin HandlerPlaces
      BY <1>1, <1>2 DEF Handlers
    <2>4. conn[c].pc # "new"
      BY <1>2, <2>1, OmniAssumption DEF PlaceSound
    <2> QED
      BY <2>1, <2>2, <2>3, <2>4 DEF PlaceSound
  <1>3. ASSUME NEW x \in Devices PROVE sessions[<<p, x>>] = {}
    <2>1. Registered(conn, <<p, x>>) = {}
      <3> SUFFICES ASSUME NEW c \in Conns, conn[c].pc \in {"reading", "ending"},
                          <<conn[c].profile, conn[c].device>> = <<p, x>>
                   PROVE  FALSE
        BY DEF Registered
      <3>1. conn[c].profile = p
        OBVIOUS
      <3> QED
        BY <1>2, <3>1
    <2>2. <<p, x>> \in Keys
      BY DEF Keys
    <2> QED
      BY <2>1, <2>2 DEF BookInv, RegistryInv
  <1>4. slots[p] = 0 /\ active[p] = {}
    <2>1. SlotSound(conn, p, slots[p], listener[p].pc = "tracking", active[p])
      BY DEF BookInv, SlotInv
    <2>2. Cardinality({}) = 0
      BY FS_EmptySet
    <2> QED
      BY <1>1, <2>1, <2>2 DEF SlotSound
  <1> QED
    BY <1>2, <1>3, <1>4

\* What the process keeps about its connections is exact in every reachable state: the
\* registry holds the sessions of the handlers that finished their handshake, every slot
\* of TCPListener.connections has its owner, a Close that is over left no socket open in a
\* handler, and a Run that returned left nothing behind; for every number of profiles,
\* Devices and connections and every limit.
THEOREM BooksBalance == Spec => []Bookkeeping
  <1>1. SessionInv /\ BookInv => Bookkeeping
    <2> SUFFICES ASSUME SessionInv, BookInv
                 PROVE  Bookkeeping
      OBVIOUS
    <2>1. RegistryMatchesHandlers
      <3> SUFFICES ASSUME NEW k \in Keys
                   PROVE  sessions[k] = {[gen |-> conn[c].gen, conn |-> c] :
                             c \in {c \in Conns : /\ conn[c].pc \in {"reading", "ending"}
                                                  /\ ~FirstFrame(c) /\ KeyOfConn(c) = k}}
        BY DEF RegistryMatchesHandlers
      <3>1. {c \in Conns : /\ conn[c].pc \in {"reading", "ending"}
                           /\ ~FirstFrame(c) /\ KeyOfConn(c) = k} = Registered(conn, k)
        BY DEF Registered, FirstFrame, KeyOfConn
      <3>2. sessions[k] = {Entry(conn, c) : c \in Registered(conn, k)}
        BY DEF BookInv, RegistryInv
      <3>3. sessions[k] = {[gen |-> conn[c].gen, conn |-> c] : c \in Registered(conn, k)}
        BY <3>2 DEF Entry
      <3> QED
        BY <3>1, <3>3
    <2>2. SlotsAccounted
      BY DEF SlotsAccounted, BookInv, SlotInv, SlotSound, Handlers
    <2>3. CloseReachesAll
      BY DEF CloseReachesAll, BookInv, CloseInv
    <2>4. ReturnedIsClean
      BY ReturnedLeavesNothing DEF ReturnedIsClean
    <2> QED
      BY <2>1, <2>2, <2>3, <2>4 DEF Bookkeeping
  <1> QED
    BY <1>1, BooksSound, PTL

-----------------------------------------------------------------------------
(* The stored messages.  A connection is bound to a Device by an accepted Q0, whose    *)
(* audit row stays; the binding is never changed, so what was attributed through it    *)
(* stays true.                                                                         *)

Shaken(hist, c, x) ==
    \E h \in hist : h.conn = c /\ h.accepted /\ h.frame = [command |-> "Q0", imei |-> x]

ShakenInv == \A c \in Conns : conn[c].device # None => Shaken(audits, c, conn[c].device)

\* A message, with the row of its connection and the audit rows.
Attributed(m, r, hist) ==
    m.device # None => /\ m.device = r.device /\ m.frame.imei = m.device
                       /\ ProfileOf[m.device] = r.profile /\ Shaken(hist, m.conn, m.device)

\* The messages are the audited frames, each once.
Covered(msgs, hist) ==
    /\ \A m, n \in msgs : (m.conn = n.conn /\ m.frame = n.frame) => m = n
    /\ \A m \in msgs : \E h \in hist : h.conn = m.conn /\ h.frame = m.frame
    /\ \A h \in hist : \E m \in msgs : m.conn = h.conn /\ m.frame = h.frame

MessageInv == (\A m \in raw : Attributed(m, conn[m.conn], audits)) /\ ShakenInv /\ Covered(raw, audits)

\* A binding that is there stays.
BoundKept(r, s) == s.device = r.device /\ (r.device # None => s.profile = r.profile)

LEMMA MessagesKept ==
    ASSUME TypeOK, MessageInv, UNCHANGED <<raw, audits>>, \A c \in Conns : BoundKept(conn[c], conn'[c])
    PROVE  MessageInv'
  <1>1. ShakenInv'
    BY DEF MessageInv, ShakenInv, BoundKept
  <1>2. ASSUME NEW m \in raw PROVE Attributed(m, conn'[m.conn], audits)
    <2>1. m.conn \in Conns
      BY DEF TypeOK
    <2>2. BoundKept(conn[m.conn], conn'[m.conn]) /\ Attributed(m, conn[m.conn], audits)
      BY <2>1 DEF MessageInv
    <2> QED
      BY <2>2 DEF BoundKept, Attributed
  <1> QED
    BY <1>1, <1>2 DEF MessageInv

\* What Record adds keeps the messages one for each audited frame.
LEMMA RecordCovers ==
    ASSUME NEW c, NEW f, NEW accepted, Record(c, f, accepted), Covered(raw, audits)
    PROVE  Covered(raw', audits')
  <1> DEFINE new == [conn |-> c, frame |-> f, device |-> IF accepted THEN f.imei ELSE None]
             row == [conn |-> c, frame |-> f, accepted |-> accepted]
             known == \E old \in raw : old.conn = c /\ old.frame = f
  <1>1. new.conn = c /\ new.frame = f /\ row.conn = c /\ row.frame = f
    OBVIOUS
  <1>2. audits' = audits \cup {row}
    BY DEF Record
  <1>3. raw' = IF known THEN raw ELSE raw \cup {new}
    BY DEF Record
  <1> HIDE DEF new, row
  <1>4. CASE known
    BY <1>1, <1>2, <1>3, <1>4 DEF Covered
  <1>5. CASE ~known
    <2>1. raw' = raw \cup {new}
      BY <1>3, <1>5
    <2> HIDE DEF known
    <2>2. \A m \in raw : ~(m.conn = c /\ m.frame = f)
      BY <1>5 DEF known
    <2>3. \A m, n \in raw' : (m.conn = n.conn /\ m.frame = n.frame) => m = n
      BY <1>1, <2>1, <2>2 DEF Covered
    <2>4. \A m \in raw' : \E h \in audits' : h.conn = m.conn /\ h.frame = m.frame
      BY <1>1, <1>2, <2>1 DEF Covered
    <2>5. \A h \in audits' : \E m \in raw' : m.conn = h.conn /\ m.frame = h.frame
      BY <1>1, <1>2, <2>1 DEF Covered
    <2> QED
      BY <2>3, <2>4, <2>5 DEF Covered
  <1> QED
    BY <1>4, <1>5

LEMMA ReceiveMessages ==
    ASSUME SessionInv, BookInv, MessageInv, NEW c \in Conns, NEW f \in PeerFrames, Receive(c, f)
    PROVE  MessageInv'
  <1> DEFINE new == [conn |-> c, frame |-> f, device |-> IF Accepted(c, f) THEN f.imei ELSE None]
             row == [conn |-> c, frame |-> f, accepted |-> Accepted(c, f)]
  <1>1. Record(c, f, Accepted(c, f)) /\ conn[c].pc = "reading"
    BY DEF Receive
  <1>2. audits' = audits \cup {row} /\ raw' \subseteq raw \cup {new}
    BY <1>1 DEF Record
  <1>3. /\ new.conn = c /\ new.frame = f /\ row.conn = c /\ row.frame = f /\ row.accepted = Accepted(c, f)
        /\ new.device = IF Accepted(c, f) THEN f.imei ELSE None
    OBVIOUS
  <1> HIDE DEF new, row
  <1>4. \A d, x : Shaken(audits, d, x) => Shaken(audits', d, x)
    BY <1>2 DEF Shaken
  <1>5. Covered(raw', audits')
    BY <1>1, RecordCovers DEF MessageInv
  <1>6. f \in Frames /\ (Accepted(c, f) => f \in [command : {"Q0", "H0"}, imei : Devices])
    BY PeerFramesAssumption DEF Frames, Accepted
  <1>7. Accepted(c, f) => f.imei \in Devices /\ f.imei # None /\ ProfileOf[f.imei] = conn[c].profile
    BY <1>6, OmniAssumption DEF Accepted
  <1>8. FirstFrame(c) => conn[c].device = None
    BY <1>1 DEF FirstFrame, BookInv, PlaceInv, PlaceSound
  <1>9. CASE Accepted(c, f) /\ FirstFrame(c)
    <2>1. /\ conn'[c].device = f.imei /\ conn'[c].profile = conn[c].profile
          /\ \A b \in Conns \ {c} : conn'[b] = conn[b]
      BY <1>9 DEF Receive, SessionInv, TypeOK, ConnStates
    <2>2. f = [command |-> "Q0", imei |-> f.imei]
      <3>1. f.command = "Q0"
        BY <1>9 DEF Accepted
      <3> QED
        BY <1>6, <1>9, <3>1
    <2>3. Shaken(audits', c, f.imei)
      BY <1>2, <1>3, <1>9, <2>2 DEF Shaken
    <2>4. ShakenInv'
      BY <1>4, <2>1, <2>3 DEF ShakenInv, MessageInv
    <2>5. ASSUME NEW m \in raw' PROVE Attributed(m, conn'[m.conn], audits')
      <3>1. CASE m = new
        BY <1>3, <1>7, <1>9, <2>1, <2>3, <3>1 DEF Attributed
      <3>2. CASE m \in raw /\ m.conn = c
        <4>1. Attributed(m, conn[c], audits)
          BY <3>2 DEF MessageInv
        <4>2. m.device = None
          BY <1>8, <1>9, <4>1 DEF Attributed
        <4> QED
          BY <4>2 DEF Attributed
      <3>3. CASE m \in raw /\ m.conn # c
        <4>1. Attributed(m, conn[m.conn], audits) /\ m.conn \in Conns
          BY <3>3 DEF MessageInv, SessionInv, TypeOK
        <4>2. Attributed(m, conn'[m.conn], audits)
          BY <2>1, <3>3, <4>1
        <4> QED
          BY <1>4, <4>2 DEF Attributed
      <3> QED
        BY <1>2, <3>1, <3>2, <3>3
    <2> QED
      BY <1>5, <2>4, <2>5 DEF MessageInv
  <1>10. CASE ~(Accepted(c, f) /\ FirstFrame(c))
    <2>1. \A b \in Conns : conn'[b].device = conn[b].device /\ conn'[b].profile = conn[b].profile
      <3>1. CASE ~Accepted(c, f)
        BY <3>1, GoKeeps DEF Receive, KeepsBinding, SessionInv
      <3>2. CASE Accepted(c, f)
        BY <1>10, <3>2 DEF Receive
      <3> QED
        BY <3>1, <3>2
    <2>2. ShakenInv'
      BY <1>4, <2>1 DEF ShakenInv, MessageInv
    <2>3. ASSUME NEW m \in raw' PROVE Attributed(m, conn'[m.conn], audits')
      <3>1. CASE m = new /\ Accepted(c, f)
        <4>1. f.imei = conn[c].device /\ conn[c].device # None
          BY <1>7, <1>10, <3>1 DEF Accepted
        <4>2. Shaken(audits', c, f.imei)
          BY <1>4, <4>1 DEF MessageInv, ShakenInv
        <4> QED
          BY <1>3, <1>7, <2>1, <3>1, <4>1, <4>2 DEF Attributed
      <3>2. CASE m = new /\ ~Accepted(c, f)
        BY <1>3, <3>2 DEF Attributed
      <3>3. CASE m \in raw
        <4>1. Attributed(m, conn[m.conn], audits) /\ m.conn \in Conns
          BY <3>3 DEF MessageInv, SessionInv, TypeOK
        <4> QED
          BY <1>4, <2>1, <4>1 DEF Attributed
      <3> QED
        BY <1>2, <3>1, <3>2, <3>3
    <2> QED
      BY <1>5, <2>2, <2>3 DEF MessageInv
  <1> QED
    BY <1>9, <1>10

LEMMA MessageStep == SessionInv /\ BookInv /\ MessageInv /\ [Next]_vars => MessageInv'
  <1> SUFFICES ASSUME SessionInv, BookInv, MessageInv, [Next]_vars
               PROVE  MessageInv'
    OBVIOUS
  <1>0. TypeOK
    BY DEF SessionInv
  <1> DEFINE Kept == UNCHANGED <<raw, audits>> /\ \A c \in Conns : BoundKept(conn[c], conn'[c])
  <1>1. CASE \E c \in Conns : Handle(c)
    <2> PICK c \in Conns : Handle(c)
      BY <1>1
    <2>1. CASE \E f \in PeerFrames : Receive(c, f)
      BY <2>1, ReceiveMessages
    <2>2. CASE Register(c)
      <3>1. Kept
        BY <1>0, <2>2 DEF Register, recordVars, BoundKept, TypeOK, ConnStates
      <3> QED
        BY <1>0, <3>1, MessagesKept
    <2>3. CASE Leave(c) \/ Unregister(c) \/ Release(c)
      <3>1. Kept
        BY <1>0, <2>3, GoKeeps DEF Leave, Unregister, Release, recordVars, BoundKept, KeepsBinding
      <3> QED
        BY <1>0, <3>1, MessagesKept
    <2>4. CASE CloseConn(c)
      <3>1. Kept
        BY <1>0, <2>4 DEF CloseConn, recordVars, BoundKept, TypeOK, ConnStates
      <3> QED
        BY <1>0, <3>1, MessagesKept
    <2> QED
      BY <2>1, <2>2, <2>3, <2>4 DEF Handle
  <1>2. CASE \E p \in Profiles : Listen(p)
    <2> PICK p \in Profiles : Listen(p)
      BY <1>2
    <2>1. UNCHANGED <<raw, audits>>
      BY DEF Listen, Accept, AcceptFails, Admit, Track, CloseBegin, CloseEnd, ListenerReturns, recordVars
    <2>2. ASSUME NEW c \in Conns PROVE BoundKept(conn[c], conn'[c])
      <3>1. CASE Accept(p)
        <4>1. conn[c].pc = "new" => conn[c].device = None
          BY DEF BookInv, PlaceInv, PlaceSound
        <4> QED
          BY <1>0, <3>1, <4>1 DEF Accept, NewConn, BoundKept, TypeOK
      <3>2. CASE AcceptFails(p) \/ CloseBegin(p) \/ ListenerReturns(p)
        BY <3>2 DEF AcceptFails, CloseBegin, ListenerReturns, BoundKept
      <3>3. CASE Admit(p)
        BY <1>0, <3>3, RefuseKeeps DEF Admit, KeepsBinding, BoundKept
      <3>4. CASE Track(p)
        BY <1>0, <3>4, RefuseKeeps, GoKeeps DEF Track, KeepsBinding, BoundKept
      <3>5. CASE CloseEnd(p)
        BY <1>0, <3>5 DEF CloseEnd, BoundKept, TypeOK, ConnStates
      <3> QED
        BY <3>1, <3>2, <3>3, <3>4, <3>5 DEF Listen
    <2> QED
      BY <1>0, <2>1, <2>2, MessagesKept
  <1>3. CASE \/ \E d \in Dispatches : Adapt(d)
             \/ \E x \in Managed : SetLifecycle(x)
             \/ Stop \/ RuntimeClose \/ RuntimeStops \/ RuntimeReturns \/ UNCHANGED vars
    <2>1. UNCHANGED <<raw, audits, conn>>
      BY <1>3 DEF Adapt, Prepare, WriteUnique, LockWriter, WriteBytes, WriteFails, Expire, SetLifecycle,
                  Stop, RuntimeClose, RuntimeStops, RuntimeReturns, vars, recordVars
    <2> QED
      BY <1>0, <2>1, MessagesKept DEF BoundKept
  <1> QED
    BY <1>1, <1>2, <1>3 DEF Next

LEMMA MessageInit == Init => MessageInv
  <1> SUFFICES ASSUME Init PROVE MessageInv
    OBVIOUS
  <1>1. \A c \in Conns : conn[c].device = None
    BY DEF Init, NewConn
  <1>2. raw = {} /\ audits = {}
    BY DEF Init
  <1> QED
    BY <1>1, <1>2 DEF MessageInv, ShakenInv, Covered

\* Every stored message that names a Device carries that Device's IMEI and came over a
\* connection that the Device's accepted Q0 had bound, under the Device's own profile; and
\* each frame of a connection is stored once and audited each time, whatever the Device's
\* lifecycle does in between.
THEOREM MessagesStayFaithful == Spec => []MessagesFaithful
  <1>1. SessionInv /\ BookInv /\ MessageInv => MessagesFaithful
    <2> SUFFICES ASSUME MessageInv
                 PROVE  MessagesFaithful
      OBVIOUS
    <2>1. MessagesAttributed
      BY DEF MessageInv, Attributed, Shaken, MessagesAttributed
    <2>2. {<<m.conn, m.frame>> : m \in raw} = {<<h.conn, h.frame>> : h \in audits}
      <3>1. {<<m.conn, m.frame>> : m \in raw} \subseteq {<<h.conn, h.frame>> : h \in audits}
        BY DEF MessageInv, Covered
      <3>2. {<<h.conn, h.frame>> : h \in audits} \subseteq {<<m.conn, m.frame>> : m \in raw}
        BY DEF MessageInv, Covered
      <3> QED
        BY <3>1, <3>2
    <2>3. OneMessagePerFrame
      BY <2>2 DEF OneMessagePerFrame, MessageInv, Covered
    <2> QED
      BY <2>1, <2>3 DEF MessagesFaithful
  <1> QED
    BY <1>1, BooksSound, MessageStep, MessageInit, PTL DEF Spec

=============================================================================
