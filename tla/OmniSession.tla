------------------------------ MODULE OmniSession ------------------------------
(***************************************************************************)
(* The Omni runtime of one server process: a TCP listener per protocol     *)
(* profile, a goroutine per connection that records each inbound frame and *)
(* registers a session after the Q0 handshake, the registry that the       *)
(* adapter looks sessions up in and writes through, and the shutdown of    *)
(* all of it when the process stops or one listener fails.                 *)
(*                                                                         *)
(* An IMEI belongs to one Device for ever (uq_devices_provider_identity    *)
(* also covers deleted rows), so a Device stands for its IMEI.  A          *)
(* connection is used once: a lock that reconnects takes another.          *)
(*                                                                         *)
(* The locks: WriteUnique holds the identity's read lock from its check to *)
(* its return and the session's writeMu while it writes; Register and      *)
(* Unregister take the write lock for one step, so they wait until no      *)
(* dispatch is in "locked" or "writing".                                   *)
(***************************************************************************)
EXTENDS Integers, Sequences, FiniteSets

CONSTANTS
    Profiles,        \* one listener each
    Devices,
    ProfileOf,       \* provider_profile of each Device
    Conns,           \* TCP connections
    Dispatches,      \* Commands that reach the adapter
    TargetOf,        \* the Device of each Command
    FrameSize,       \* bytes of a frame
    MaxConnections,  \* OMNI_MAX_CONNECTIONS, per listener
    PeerFrames,      \* bound: the frames the peers send
    Managed,         \* bound: the Devices whose lifecycle changes
    None

ASSUME OmniAssumption ==
    /\ ProfileOf \in [Devices -> Profiles] /\ TargetOf \in [Dispatches -> Devices]
    /\ FrameSize \in Nat \ {0} /\ MaxConnections \in Nat \ {0}
    /\ Managed \subseteq Devices
    /\ None \notin Profiles \cup Devices \cup Conns \cup Dispatches

VARIABLES
    lifecycle,   \* devices.lifecycle_status; "absent": no row
    stopped,     \* the application cancelled the context of Runtime.Run
    runtime,     \* Runtime.Run: "running", "stopping", "returned"
    healthy,     \* Runtime.healthy
    listener,    \* TCPListener.Run: its place and the connection it is admitting
    closing,     \* TCPListener.Close: "open", "closing", "closed"
    toClose,     \* the connections Close copied from active
    active,      \* TCPListener.active
    slots,       \* how many tokens are in TCPListener.connections
    conn,        \* handleConnection: its place and local variables
    sessions,    \* identitySessions.sessions by key
    generation,  \* identitySessions.generation by key
    dispatch,    \* Prepare and Dispatch of each Command
    deadline,    \* whose write deadline is set on a connection
    stream,      \* who wrote each byte of a connection
    raw,         \* device_raw_messages
    audits       \* audit rows of inbound messages

serverVars == <<stopped, runtime, healthy, listener, closing, toClose, active, slots>>
registryVars == <<sessions, generation>>
dispatchVars == <<dispatch, deadline, stream>>
recordVars == <<raw, audits>>
vars == <<lifecycle, serverVars, conn, registryVars, dispatchVars, recordVars>>

-----------------------------------------------------------------------------
Keys == Profiles \X Devices
Lifecycles == {"absent", "active", "disabled", "deleted"}

\* What the decoder hands over; every frame that does not parse is Garbled.
Garbled == [command |-> "invalid", imei |-> None]
Frames == [command : {"Q0", "H0"}, imei : Devices] \cup {Garbled}

ASSUME PeerFramesAssumption == PeerFrames \subseteq Frames

Sessions == [gen : Nat \ {0}, conn : Conns]
NoSession == [gen |-> 0, conn |-> None]

\* The places of a connection's goroutine, up to its last deferred call.
HandlerPlaces == {"reading", "registering", "ending", "closing", "releasing"}
NewConn == [pc |-> "new", profile |-> None, device |-> None, gen |-> 0, open |-> FALSE]
NewDispatch == [pc |-> "idle", session |-> NoSession, written |-> 0, expired |-> FALSE,
                outcome |-> "none"]

KeyOfConn(c) == <<conn[c].profile, conn[c].device>>
KeyOf(d) == <<ProfileOf[TargetOf[d]], TargetOf[d]>>

\* handlerCtx of a listener is done.
Cancelled(p) == stopped \/ runtime # "running" \/ listener[p].pc \in {"returning", "returned"}

\* The dispatches that hold the read lock of key k.
Readers(k) == {d \in Dispatches : KeyOf(d) = k /\ dispatch[d].pc \in {"locked", "writing"}}

Go(c, pc) == conn' = [conn EXCEPT ![c].pc = pc]
At(p, pc, c) == listener' = [listener EXCEPT ![p] = [pc |-> pc, cur |-> c]]

Init ==
    /\ lifecycle \in [Devices -> {"absent", "active"}]
    /\ stopped = FALSE /\ runtime = "running" /\ healthy = TRUE
    /\ listener = [p \in Profiles |-> [pc |-> "accepting", cur |-> None]]
    /\ closing = [p \in Profiles |-> "open"]
    /\ toClose = [p \in Profiles |-> {}]
    /\ active = [p \in Profiles |-> {}]
    /\ slots = [p \in Profiles |-> 0]
    /\ conn = [c \in Conns |-> NewConn]
    /\ sessions = [k \in Keys |-> {}]
    /\ generation = [k \in Keys |-> 0]
    /\ dispatch = [d \in Dispatches |-> NewDispatch]
    /\ deadline = [c \in Conns |-> None]
    /\ stream = [c \in Conns |-> <<>>]
    /\ raw = {} /\ audits = {}

-----------------------------------------------------------------------------
(* deviceservice: Create and the lifecycle part of Update.                  *)
CanTransitionLifecycle(from, to) ==
    \/ from = "active" /\ to \in {"disabled", "deleted"}
    \/ from = "disabled" /\ to \in {"active", "deleted"}

SetLifecycle(x) ==
    /\ \E to \in Lifecycles :
          /\ \/ CanTransitionLifecycle(lifecycle[x], to)
             \/ lifecycle[x] = "absent" /\ to = "active"
          /\ lifecycle' = [lifecycle EXCEPT ![x] = to]
    /\ UNCHANGED <<serverVars, conn, registryVars, dispatchVars, recordVars>>

-----------------------------------------------------------------------------
(* TCPListener.Run: one goroutine accepts, takes a slot, tracks, starts.    *)
Accept(p) ==
    /\ listener[p].pc = "accepting" /\ closing[p] # "closed"
    /\ \E c \in Conns :
          /\ conn[c].pc = "new"
          /\ conn' = [conn EXCEPT ![c] = [NewConn EXCEPT !.pc = "accepted", !.profile = p,
                                                         !.open = TRUE]]
          /\ At(p, "admitting", c)
    /\ UNCHANGED <<lifecycle, stopped, runtime, healthy, closing, toClose, active, slots,
                   registryVars, dispatchVars, recordVars>>

\* Accept returns an error: the socket was closed, or the system failed.
AcceptFails(p) ==
    /\ listener[p].pc = "accepting"
    /\ At(p, "returning", None)
    /\ UNCHANGED <<lifecycle, stopped, runtime, healthy, closing, toClose, active, slots,
                   conn, registryVars, dispatchVars, recordVars>>

\* The connection is closed and the loop continues.
Refuse(p) ==
    /\ conn' = [conn EXCEPT ![listener[p].cur].pc = "closed", ![listener[p].cur].open = FALSE]
    /\ At(p, "accepting", None)

Admit(p) ==
    /\ listener[p].pc = "admitting"
    /\ IF slots[p] < MaxConnections
       THEN /\ slots' = [slots EXCEPT ![p] = @ + 1]
            /\ At(p, "tracking", listener[p].cur)
            /\ UNCHANGED conn
       ELSE Refuse(p) /\ UNCHANGED slots
    /\ UNCHANGED <<lifecycle, stopped, runtime, healthy, closing, toClose, active,
                   registryVars, dispatchVars, recordVars>>

\* Mutant: does not look at closing.
MutantTrackAlways(p) ==
    /\ listener[p].pc = "tracking"
    /\ IF TRUE
       THEN /\ active' = [active EXCEPT ![p] = @ \cup {listener[p].cur}]
            /\ Go(listener[p].cur, "reading")
            /\ At(p, "accepting", None)
            /\ UNCHANGED slots
       ELSE /\ slots' = [slots EXCEPT ![p] = @ - 1]
            /\ Refuse(p)
            /\ UNCHANGED active
    /\ UNCHANGED <<lifecycle, stopped, runtime, healthy, closing, toClose,
                   registryVars, dispatchVars, recordVars>>

Track(p) ==
    /\ listener[p].pc = "tracking"
    /\ IF closing[p] = "open"
       THEN /\ active' = [active EXCEPT ![p] = @ \cup {listener[p].cur}]
            /\ Go(listener[p].cur, "reading")
            /\ At(p, "accepting", None)
            /\ UNCHANGED slots
       ELSE /\ slots' = [slots EXCEPT ![p] = @ - 1]
            /\ Refuse(p)
            /\ UNCHANGED active
    /\ UNCHANGED <<lifecycle, stopped, runtime, healthy, closing, toClose,
                   registryVars, dispatchVars, recordVars>>

\* TCPListener.Close, under closeOnce: the goroutine that waits for handlerCtx,
\* Run's deferred call and Runtime.Close all end here, after a cancellation.
CloseBegin(p) ==
    /\ Cancelled(p) /\ closing[p] = "open"
    /\ closing' = [closing EXCEPT ![p] = "closing"]
    /\ toClose' = [toClose EXCEPT ![p] = active[p]]
    /\ UNCHANGED <<lifecycle, stopped, runtime, healthy, listener, active, slots,
                   conn, registryVars, dispatchVars, recordVars>>

\* Mutant: closes the listening socket only.
MutantCloseEndListenerOnly(p) ==
    /\ closing[p] = "closing"
    /\ closing' = [closing EXCEPT ![p] = "closed"]
    /\ UNCHANGED conn
    /\ toClose' = [toClose EXCEPT ![p] = {}]
    /\ UNCHANGED <<lifecycle, stopped, runtime, healthy, listener, active, slots,
                   registryVars, dispatchVars, recordVars>>

CloseEnd(p) ==
    /\ closing[p] = "closing"
    /\ closing' = [closing EXCEPT ![p] = "closed"]
    /\ conn' = [c \in Conns |-> [conn[c] EXCEPT !.open = @ /\ c \notin toClose[p]]]
    /\ toClose' = [toClose EXCEPT ![p] = {}]
    /\ UNCHANGED <<lifecycle, stopped, runtime, healthy, listener, active, slots,
                   registryVars, dispatchVars, recordVars>>

\* Run's deferred function: cancel, Close, and wait for every handler.
ListenerReturns(p) ==
    /\ listener[p].pc = "returning" /\ closing[p] = "closed"
    /\ \A c \in Conns : conn[c].profile = p => conn[c].pc \notin HandlerPlaces
    /\ At(p, "returned", None)
    /\ UNCHANGED <<lifecycle, stopped, runtime, healthy, closing, toClose, active, slots,
                   conn, registryVars, dispatchVars, recordVars>>

-----------------------------------------------------------------------------
(* Runtime and stopOmniRuntime.                                             *)
Stop ==
    /\ ~stopped
    /\ stopped' = TRUE
    /\ UNCHANGED <<lifecycle, runtime, healthy, listener, closing, toClose, active, slots,
                   conn, registryVars, dispatchVars, recordVars>>

\* Runtime.Close after the cancellation; its listeners close in CloseBegin.
RuntimeClose ==
    /\ stopped /\ healthy
    /\ healthy' = FALSE
    /\ UNCHANGED <<lifecycle, stopped, runtime, listener, closing, toClose, active, slots,
                   conn, registryVars, dispatchVars, recordVars>>

\* The first listener returned: the adapter goes down and the sibling is cancelled.
RuntimeStops ==
    /\ runtime = "running" /\ \E p \in Profiles : listener[p].pc = "returned"
    /\ runtime' = "stopping" /\ healthy' = FALSE
    /\ UNCHANGED <<lifecycle, stopped, listener, closing, toClose, active, slots,
                   conn, registryVars, dispatchVars, recordVars>>

RuntimeReturns ==
    /\ runtime = "stopping" /\ \A p \in Profiles : listener[p].pc = "returned"
    /\ runtime' = "returned"
    /\ UNCHANGED <<lifecycle, stopped, healthy, listener, closing, toClose, active, slots,
                   conn, registryVars, dispatchVars, recordVars>>

-----------------------------------------------------------------------------
(* handleConnection and the inbound recorder.                               *)
FirstFrame(c) == conn[c].gen = 0

\* resolveInboundDevice
Accepted(c, f) ==
    /\ f # Garbled
    /\ IF FirstFrame(c) THEN f.command = "Q0"
                        ELSE f.command # "Q0" /\ f.imei = conn[c].device
    /\ ProfileOf[f.imei] = conn[c].profile
    /\ lifecycle[f.imei] = "active"

\* Mutant: no lookup of the deduplication key.
MutantRecordAlways(c, f, accepted) ==
    /\ raw' = raw \cup {[conn |-> c, frame |-> f,
                         device |-> IF accepted THEN f.imei ELSE None]}
    /\ audits' = audits \cup {[conn |-> c, frame |-> f, accepted |-> accepted]}

\* PersistentInboundRecorder.Record: one transaction.  The deduplication key is
\* made of the connection and the bytes of the frame.
Record(c, f, accepted) ==
    /\ raw' = raw \cup {m \in {[conn |-> c, frame |-> f,
                                device |-> IF accepted THEN f.imei ELSE None]} :
                          ~ \E old \in raw : old.conn = c /\ old.frame = f}
    /\ audits' = audits \cup {[conn |-> c, frame |-> f, accepted |-> accepted]}

\* A frame was read and recorded; a rejected one ends the connection.
Receive(c, f) ==
    /\ conn[c].pc = "reading" /\ conn[c].open /\ ~Cancelled(conn[c].profile)
    /\ Record(c, f, Accepted(c, f))
    /\ IF ~Accepted(c, f) THEN Go(c, "ending")
       ELSE IF FirstFrame(c)
            THEN conn' = [conn EXCEPT ![c].pc = "registering", ![c].device = f.imei]
            ELSE UNCHANGED conn
    /\ UNCHANGED <<lifecycle, serverVars, registryVars, dispatchVars>>

\* Mutant: the write lock of the identity is not taken.
MutantRegisterUnlocked(c) ==
    LET k == KeyOfConn(c)
        gen == generation[k] + 1
    IN  /\ conn[c].pc = "registering"
        /\ generation' = [generation EXCEPT ![k] = gen]
        /\ sessions' = [sessions EXCEPT ![k] = @ \cup {[gen |-> gen, conn |-> c]}]
        /\ conn' = [conn EXCEPT ![c].pc = "reading", ![c].gen = gen]
        /\ UNCHANGED <<lifecycle, serverVars, dispatchVars, recordVars>>

\* Registry.Register
Register(c) ==
    LET k == KeyOfConn(c)
        gen == generation[k] + 1
    IN  /\ conn[c].pc = "registering" /\ Readers(k) = {}
        /\ generation' = [generation EXCEPT ![k] = gen]
        /\ sessions' = [sessions EXCEPT ![k] = @ \cup {[gen |-> gen, conn |-> c]}]
        /\ conn' = [conn EXCEPT ![c].pc = "reading", ![c].gen = gen]
        /\ UNCHANGED <<lifecycle, serverVars, dispatchVars, recordVars>>

\* The read loop ends: the peer closed, the read timed out, the socket was closed,
\* the context is done, or a frame could not be recorded.
Leave(c) ==
    /\ conn[c].pc = "reading"
    /\ Go(c, "ending")
    /\ UNCHANGED <<lifecycle, serverVars, registryVars, dispatchVars, recordVars>>

\* The deferred calls, in order: Unregister, Close, untrack and the slot.
Unregister(c) ==
    /\ conn[c].pc = "ending"
    /\ IF FirstFrame(c) THEN UNCHANGED sessions
       ELSE /\ Readers(KeyOfConn(c)) = {}
            /\ sessions' = [sessions EXCEPT
                              ![KeyOfConn(c)] = @ \ {[gen |-> conn[c].gen, conn |-> c]}]
    /\ Go(c, "closing")
    /\ UNCHANGED <<lifecycle, serverVars, generation, dispatchVars, recordVars>>

CloseConn(c) ==
    /\ conn[c].pc = "closing"
    /\ conn' = [conn EXCEPT ![c].pc = "releasing", ![c].open = FALSE]
    /\ UNCHANGED <<lifecycle, serverVars, registryVars, dispatchVars, recordVars>>

Release(c) ==
    LET p == conn[c].profile
    IN  /\ conn[c].pc = "releasing"
        /\ active' = [active EXCEPT ![p] = @ \ {c}]
        /\ slots' = [slots EXCEPT ![p] = @ - 1]
        /\ Go(c, "closed")
        /\ UNCHANGED <<lifecycle, stopped, runtime, healthy, listener, closing, toClose,
                       registryVars, dispatchVars, recordVars>>

-----------------------------------------------------------------------------
(* The adapter: Prepare, then Dispatch through Registry.WriteUnique.        *)

\* Registry.LookupUnique and the adapter's test of the session's owner.
LookupUnique(d) ==
    {s \in sessions[KeyOf(d)] : sessions[KeyOf(d)] = {s} /\ conn[s.conn].device = TargetOf[d]}

\* Adapter.Prepare of query_status; every other action is refused before the lookup.
Prepare(d) ==
    /\ dispatch[d].pc = "idle"
    /\ IF healthy /\ LookupUnique(d) # {}
       THEN \E s \in LookupUnique(d) :
               dispatch' = [dispatch EXCEPT ![d].pc = "prepared", ![d].session = s]
       ELSE dispatch' = [dispatch EXCEPT ![d].pc = "done", ![d].outcome = "session_unavailable"]
    /\ UNCHANGED <<lifecycle, serverVars, conn, registryVars, deadline, stream, recordVars>>

\* preparedDispatch.Dispatch classifies by the bytes that were written.
Outcome(written) ==
    IF written = 0 THEN "transport_error_before_send" ELSE "indeterminate"

Finish(d, written) ==
    dispatch' = [dispatch EXCEPT ![d].pc = "done", ![d].written = written,
                                 ![d].outcome = Outcome(written)]

\* The read lock and the test that the session is still the only one.
WriteUnique(d) ==
    /\ dispatch[d].pc = "prepared"
    /\ IF sessions[KeyOf(d)] = {dispatch[d].session}
       THEN dispatch' = [dispatch EXCEPT ![d].pc = "locked"]
       ELSE Finish(d, 0)
    /\ UNCHANGED <<lifecycle, serverVars, conn, registryVars, deadline, stream, recordVars>>

\* Mutant: no writeMu.
MutantCanWriteAlways(d) == dispatch[d].pc = "locked"

\* Mutant: a call whose context ended does not unlock writeMu.
MutantCanWriteLeaked(d) ==
    \A e \in Dispatches \ {d} :
        dispatch[e].session.conn = dispatch[d].session.conn =>
            dispatch[e].pc # "writing" /\ ~(dispatch[e].pc = "done" /\ dispatch[e].expired)

\* writeMu is free
CanWrite(d) ==
    \A e \in Dispatches :
        ~ (dispatch[e].pc = "writing" /\ dispatch[e].session.conn = dispatch[d].session.conn)

\* Under writeMu: the context, then the write deadline, which a closed socket refuses.
LockWriter(d) ==
    LET c == dispatch[d].session.conn
    IN  /\ dispatch[d].pc = "locked" /\ CanWrite(d)
        /\ IF dispatch[d].expired \/ ~conn[c].open
           THEN Finish(d, 0) /\ UNCHANGED deadline
           ELSE /\ dispatch' = [dispatch EXCEPT ![d].pc = "writing"]
                /\ deadline' = [deadline EXCEPT ![c] = d]
        /\ UNCHANGED <<lifecycle, serverVars, conn, registryVars, stream, recordVars>>

\* n more bytes of d's frame are on its connection.
Put(d, n) ==
    LET c == dispatch[d].session.conn
    IN  stream' = [stream EXCEPT ![c] = @ \o [i \in 1 .. n |-> d]]

\* Mutant: the count is not compared with the rest of the frame.
MutantWriteBytesUnchecked(d, n) ==
    LET written == dispatch[d].written + n
        c == dispatch[d].session.conn
    IN  /\ dispatch[d].pc = "writing" /\ conn[c].open
        /\ Put(d, n)
        /\ IF written = FrameSize
           THEN Finish(d, written) /\ deadline' = [deadline EXCEPT ![c] = None]
           ELSE /\ dispatch' = [dispatch EXCEPT ![d].written = written]
                /\ UNCHANGED deadline
        /\ UNCHANGED <<lifecycle, serverVars, conn, registryVars, recordVars>>

\* writer.Write accepted n bytes; the last one ends the call.
WriteBytes(d, n) ==
    LET written == dispatch[d].written + n
        c == dispatch[d].session.conn
    IN  /\ dispatch[d].pc = "writing" /\ conn[c].open /\ written <= FrameSize
        /\ Put(d, n)
        /\ IF written = FrameSize
           THEN Finish(d, written) /\ deadline' = [deadline EXCEPT ![c] = None]
           ELSE /\ dispatch' = [dispatch EXCEPT ![d].written = written]
                /\ UNCHANGED deadline
        /\ UNCHANGED <<lifecycle, serverVars, conn, registryVars, recordVars>>

\* Mutant: the bytes of the failed write are not counted.
MutantWriteFailsUncounted(d, n) ==
    LET written == dispatch[d].written + n
        c == dispatch[d].session.conn
    IN  /\ dispatch[d].pc = "writing" /\ written < FrameSize /\ (n > 0 => conn[c].open)
        /\ Put(d, n)
        /\ Finish(d, dispatch[d].written)
        /\ deadline' = [deadline EXCEPT ![c] = None]
        /\ UNCHANGED <<lifecycle, serverVars, conn, registryVars, recordVars>>

\* writer.Write failed after n bytes, or the context ended between two writes.
WriteFails(d, n) ==
    LET written == dispatch[d].written + n
        c == dispatch[d].session.conn
    IN  /\ dispatch[d].pc = "writing" /\ written < FrameSize /\ (n > 0 => conn[c].open)
        /\ Put(d, n)
        /\ Finish(d, written)
        /\ deadline' = [deadline EXCEPT ![c] = None]
        /\ UNCHANGED <<lifecycle, serverVars, conn, registryVars, recordVars>>

\* ProviderTimeout of the worker's dispatch context.
Expire(d) ==
    /\ dispatch[d].pc \in {"prepared", "locked", "writing"} /\ ~dispatch[d].expired
    /\ dispatch' = [dispatch EXCEPT ![d].expired = TRUE]
    /\ UNCHANGED <<lifecycle, serverVars, conn, registryVars, deadline, stream, recordVars>>

-----------------------------------------------------------------------------
Listen(p) == Accept(p) \/ AcceptFails(p) \/ Admit(p) \/ Track(p) \/ CloseBegin(p)
             \/ CloseEnd(p) \/ ListenerReturns(p)
Handle(c) == (\E f \in PeerFrames : Receive(c, f)) \/ Register(c) \/ Leave(c)
             \/ Unregister(c) \/ CloseConn(c) \/ Release(c)
Adapt(d) == Prepare(d) \/ WriteUnique(d) \/ LockWriter(d) \/ Expire(d)
            \/ (\E n \in 1 .. FrameSize : WriteBytes(d, n))
            \/ (\E n \in 0 .. FrameSize : WriteFails(d, n))

Next ==
    \/ \E x \in Managed : SetLifecycle(x)
    \/ \E p \in Profiles : Listen(p)
    \/ \E c \in Conns : Handle(c)
    \/ \E d \in Dispatches : Adapt(d)
    \/ Stop \/ RuntimeClose \/ RuntimeStops \/ RuntimeReturns

Spec == Init /\ [][Next]_vars

\* A write that cannot go on: its own deadline passed, or the socket was closed.
WriteMustFail(d) ==
    /\ dispatch[d].pc = "writing"
    /\ \/ ~conn[dispatch[d].session.conn].open
       \/ dispatch[d].expired /\ deadline[dispatch[d].session.conn] = d

\* A goroutine that can run does run.  Nothing is assumed of the peers, of accept
\* failures, of the application's stop, or of a write that waits for its peer.
Fairness ==
    /\ WF_vars(RuntimeStops) /\ WF_vars(RuntimeReturns) /\ WF_vars(RuntimeClose)
    /\ \A p \in Profiles :
          /\ WF_vars(closing[p] = "closed" /\ AcceptFails(p))
          /\ WF_vars(Admit(p)) /\ WF_vars(Track(p))
          /\ WF_vars(CloseBegin(p)) /\ WF_vars(CloseEnd(p)) /\ WF_vars(ListenerReturns(p))
    /\ \A c \in Conns :
          /\ WF_vars(~conn[c].open /\ Leave(c))
          /\ WF_vars(Register(c)) /\ WF_vars(Unregister(c))
          /\ WF_vars(CloseConn(c)) /\ WF_vars(Release(c))
    /\ \A d \in Dispatches :
          /\ WF_vars(LockWriter(d)) /\ WF_vars(Expire(d))
          /\ WF_vars(WriteMustFail(d) /\ WriteFails(d, 0))

FairSpec == Spec /\ Fairness

-----------------------------------------------------------------------------
ListenerStates ==
    [pc : {"accepting", "admitting", "tracking", "returning", "returned"}, cur : Conns \cup {None}]
ConnStates ==
    [pc : HandlerPlaces \cup {"new", "accepted", "closed"}, profile : Profiles \cup {None},
     device : Devices \cup {None}, gen : Nat, open : BOOLEAN]
DispatchStates ==
    [pc : {"idle", "prepared", "locked", "writing", "done"}, session : Sessions \cup {NoSession},
     written : 0 .. FrameSize, expired : BOOLEAN,
     outcome : {"none", "session_unavailable", "transport_error_before_send", "indeterminate"}]

\* The types of the process's state and of the two tables.
TypeOK ==
    /\ lifecycle \in [Devices -> Lifecycles]
    /\ stopped \in BOOLEAN /\ healthy \in BOOLEAN
    /\ runtime \in {"running", "stopping", "returned"}
    /\ listener \in [Profiles -> ListenerStates]
    /\ \A p \in Profiles : listener[p].pc \in {"admitting", "tracking"} => listener[p].cur \in Conns
    /\ closing \in [Profiles -> {"open", "closing", "closed"}]
    /\ toClose \in [Profiles -> SUBSET Conns]
    /\ active \in [Profiles -> SUBSET Conns]
    /\ slots \in [Profiles -> Int]
    /\ conn \in [Conns -> ConnStates]
    /\ sessions \in [Keys -> SUBSET Sessions]
    /\ generation \in [Keys -> Nat]
    /\ dispatch \in [Dispatches -> DispatchStates]
    /\ deadline \in [Conns -> Dispatches \cup {None}]
    /\ stream \in [Conns -> Seq(Dispatches)]
    /\ raw \subseteq [conn : Conns, frame : Frames, device : Devices \cup {None}]
    /\ audits \subseteq [conn : Conns, frame : Frames, accepted : BOOLEAN]

\* While a frame is being written, its session is the only one registered for the
\* Device under any profile: a second connection that claims the IMEI waits, so the
\* test of WriteUnique cannot be outdated when the bytes leave.
UniqueWhileWriting ==
    \A d \in Dispatches : dispatch[d].pc = "writing" =>
        UNION {sessions[<<p, TargetOf[d]>>] : p \in Profiles} = {dispatch[d].session}

\* Two Commands for one lock never mix their bytes: what each wrote on a connection
\* is one block (Session.writeMu).
FramesContiguous ==
    \A c \in Conns : \A i, j \in DOMAIN stream[c] :
        (i < j /\ stream[c][i] = stream[c][j]) =>
            \A m \in i .. j : stream[c][m] = stream[c][i]

\* transport_error_before_send is only reported when not a byte of the frame was put
\* on any connection, and indeterminate only when some were: the worker calls the
\* first a certain failure (Dispatch, from WriteResult.BytesWritten).
UnsentMeansNoByte ==
    \A d \in Dispatches : dispatch[d].pc = "done" =>
        (dispatch[d].outcome = "indeterminate"
            <=> \E c \in Conns : \E i \in DOMAIN stream[c] : stream[c][i] = d)

\* The registry holds exactly the sessions of the running handlers that finished their
\* handshake, under the Device and profile they were resolved to, whichever way a
\* handler ends: a leftover would make its lock ambiguous until the process restarts.
RegistryMatchesHandlers ==
    \A k \in Keys :
        sessions[k] = {[gen |-> conn[c].gen, conn |-> c] :
                         c \in {c \in Conns : /\ conn[c].pc \in {"reading", "ending"}
                                              /\ ~FirstFrame(c) /\ KeyOfConn(c) = k}}

\* Once Close is over no handler of the listener has an open socket, also none whose
\* connection was being admitted when Close copied the active ones.
CloseReachesAll ==
    \A p \in Profiles : closing[p] = "closed" =>
        \A c \in Conns : (conn[c].profile = p /\ conn[c].open) => conn[c].pc = "accepted"

\* Every token in TCPListener.connections belongs to a handler or to the connection
\* being tracked, and there are never more than the limit.
SlotsAccounted ==
    \A p \in Profiles :
        /\ slots[p] <= MaxConnections
        /\ slots[p] = Cardinality({c \in Conns : conn[c].profile = p
                                                 /\ conn[c].pc \in HandlerPlaces})
                      + (IF listener[p].pc = "tracking" THEN 1 ELSE 0)

\* When TCPListener.Run has returned nothing of it is left: no handler, no open socket,
\* no session under its profile, no slot.
ReturnedIsClean ==
    \A p \in Profiles : listener[p].pc = "returned" =>
        /\ \A c \in Conns : conn[c].profile = p => (conn[c].pc = "closed" /\ ~conn[c].open)
        /\ \A x \in Devices : sessions[<<p, x>>] = {}
        /\ slots[p] = 0 /\ active[p] = {}

\* What the process keeps about its connections is never off by one of them, however
\* handshakes, failures and Close interleave: the registry, the slots, the sockets that
\* Close must reach, and what a returned listener leaves behind.
Bookkeeping ==
    RegistryMatchesHandlers /\ SlotsAccounted /\ CloseReachesAll /\ ReturnedIsClean

\* A stored message names a Device only if the connection was bound to that Device by
\* its handshake and the frame carried the Device's IMEI.
MessagesAttributed ==
    \A m \in raw : m.device # None =>
        /\ m.device = conn[m.conn].device /\ m.frame.imei = m.device
        /\ ProfileOf[m.device] = conn[m.conn].profile
        /\ \E h \in audits : h.conn = m.conn /\ h.accepted
                             /\ h.frame = [command |-> "Q0", imei |-> m.device]

\* A repeated frame adds an audit row but no second message, also when the Device's
\* lifecycle made its verdict different from the first time.
OneMessagePerFrame ==
    /\ \A m, n \in raw : (m.conn = n.conn /\ m.frame = n.frame) => m = n
    /\ {<<m.conn, m.frame>> : m \in raw} = {<<h.conn, h.frame>> : h \in audits}

\* The stored messages tell what the locks sent: each under the Device its connection
\* is bound to, and once, however often it is repeated and whatever happens to the
\* Device's row between the repetitions.
MessagesFaithful == MessagesAttributed /\ OneMessagePerFrame

\* When the application stops, or one listener fails, both listeners return and
\* Runtime.Run ends, whatever connections, handshakes and writes are under way.
Failing == stopped \/ \E p \in Profiles : listener[p].pc \in {"returning", "returned"}
ShutdownCompletes == []<>(Failing => runtime = "returned")

\* A dispatch that holds the locks gives them back: neither a peer that does not read
\* nor another dispatch on the same connection keeps it for ever.  (A Command is
\* dispatched once, so this is to say that none stays.)
DispatchEnds ==
    []<>(\A d \in Dispatches : dispatch[d].pc \notin {"locked", "writing"})
=============================================================================
