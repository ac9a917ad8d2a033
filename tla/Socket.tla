------------------------------- MODULE Socket -------------------------------
(***************************************************************************)
(* Socket, ServerSocket and MulticastSocket (src/src/Socket.cpp,           *)
(* MulticastSocket.cpp) and FdReaderWriter (src/src/FdReaderWriter.cpp):   *)
(* objects that own a descriptor, register it with a Selector while they   *)
(* are connected, and turn the selector's events into calls of a           *)
(* SocketListener.  Callbacks run on the selector's thread and may call    *)
(* any operation; handleClose and handleAccept are followed by more code   *)
(* of the socket.  The kernel gives out the lowest free descriptor, so a   *)
(* registration that outlives its descriptor would be met by another one.  *)
(***************************************************************************)
EXTENDS Integers, FiniteSets

CONSTANTS
    Sock,       \* Socket objects
    MaxFd       \* bound: descriptors 1..MaxFd

ASSUME SocketAssumption == MaxFd \in Nat \ {0}

VARIABLES
    sock,       \* the objects' members
    kernel,     \* per descriptor: the connection's state and whether data waits
    watch,      \* the Selector's nodes: [fd, sock, events]
    group,      \* multicast groups joined in the kernel, per descriptor
    calling     \* the listener call whose return the code waits for

sockVars == <<sock, kernel, watch, group, calling>>

SockFd == 1..MaxFd
NoFd == -1
NoCall == [what |-> "none", sock |-> "none", server |-> "none"]
Gone == [kind |-> "none", mFd |-> NoFd, mConnected |-> FALSE, mConnectedAsync |-> FALSE,
         mListener |-> FALSE, mSelector |-> FALSE, mInGroup |-> FALSE]
Closed == [state |-> "free", data |-> FALSE]

SocketInit ==
    /\ sock = [s \in Sock |-> Gone]
    /\ kernel = [f \in SockFd |-> Closed]
    /\ watch = {} /\ group = [f \in SockFd |-> {}]
    /\ calling = NoCall
-----------------------------------------------------------------------------
\* The Selector and the kernel, as the sockets use them.

\* Selector::addListener and removeListener; the latter goes by descriptor.
AddListener(w, f, e, s) == w \cup {[fd |-> f, sock |-> s, events |-> e]}
RemoveListener(w, f) == {n \in w : n.fd # f}

\* The descriptor socket() or accept() returns, -1 when there is none left.
FreeFd ==
    IF \E f \in SockFd : kernel[f].state = "free"
    THEN CHOOSE f \in SockFd : kernel[f].state = "free" /\ \A g \in 1..f - 1 : kernel[g].state # "free"
    ELSE NoFd

\* What poll reports of a descriptor.
Ready(f) ==
    LET in == IF kernel[f].data THEN {"in"} ELSE {}
    IN  CASE kernel[f].state \in {"connecting", "free"} -> {}
          [] kernel[f].state = "up" -> in \cup {"out"}
          [] kernel[f].state = "half" -> {"in", "out"}
          [] kernel[f].state \in {"down", "failed"} -> {"in", "out", "hup"}
          [] kernel[f].state = "new" -> {"out", "hup"}
          [] kernel[f].state \in {"listening", "bound"} -> in

\* A connect that was begun ends; data, a connection or a datagram arrives;
\* the peer closes.
KernelStep ==
    /\ \E f \in SockFd :
        \/ /\ kernel[f].state = "connecting"
           /\ \E st \in {"up", "failed"} : kernel' = [kernel EXCEPT ![f].state = st]
        \/ /\ kernel[f].state \in {"up", "listening", "bound"} /\ ~kernel[f].data
           /\ kernel' = [kernel EXCEPT ![f].data = TRUE]
        \/ /\ kernel[f].state = "up"
           /\ kernel' = [kernel EXCEPT ![f].state = "half"]
    /\ UNCHANGED <<sock, watch, group, calling>>
-----------------------------------------------------------------------------
\* Helpers of the operations.

\* setConnected: the members and the selector's list after it.  A state that
\* is not new changes nothing; a new one is registered or removed when there
\* is a selector and a listener.
WithConnected(r, state) == [r EXCEPT !.mConnected = state]

SetConnected(w, s, r, state, events) ==
    IF r.mConnected = state \/ ~(r.mSelector /\ r.mListener) THEN w
    ELSE IF state THEN AddListener(w, r.mFd, events, s) ELSE RemoveListener(w, r.mFd)

\* Mutant of CloseSocket: mFd is reset before setConnected uses it.
CloseSocketResetFirst(s) ==
    LET r == [sock[s] EXCEPT !.mFd = NoFd]
    IN  /\ sock' = [sock EXCEPT ![s] = WithConnected(r, FALSE)]
        /\ watch' = SetConnected(watch, s, r, FALSE, {})
        /\ kernel' = [f \in SockFd |-> IF f = sock[s].mFd THEN Closed ELSE kernel[f]]
        /\ group' = [f \in SockFd |-> IF f = sock[s].mFd THEN {} ELSE group[f]]

\* close: nothing when it was closed before, else deregister, close the
\* descriptor, forget it.  FdReaderWriter::close only closes it.
CloseSocket(s) ==
    LET r == sock[s]
    IN  /\ sock' = [sock EXCEPT ![s] = [WithConnected(r, FALSE) EXCEPT !.mFd = NoFd]]
        /\ watch' = IF r.mFd = NoFd THEN watch ELSE SetConnected(watch, s, r, FALSE, {})
        /\ kernel' = [f \in SockFd |-> IF f = r.mFd THEN Closed ELSE kernel[f]]
        /\ group' = [f \in SockFd |-> IF f = r.mFd THEN {} ELSE group[f]]
-----------------------------------------------------------------------------
\* Operations; each may also be called by a listener.

\* Socket(), ServerSocket() and MulticastSocket().
NewSocket(s) ==
    /\ sock[s].kind = "none"
    /\ \E k \in {"client", "server", "datagram", "reader"} :
        sock' = [sock EXCEPT ![s] = [Gone EXCEPT !.kind = k, !.mFd = FreeFd]]
    /\ kernel' = IF FreeFd = NoFd THEN kernel ELSE [kernel EXCEPT ![FreeFd].state = "new"]
    /\ UNCHANGED <<watch, group, calling>>

\* ~Socket: shutdown() and close().  A listener that is asked handleClose or
\* handleAccept does not delete the socket it is asked about.
DeleteSocket(s) ==
    /\ sock[s].kind \in {"client", "server", "datagram"}
    /\ s \notin {calling.sock, calling.server}
    /\ LET r == sock[s]
       IN  /\ sock' = [sock EXCEPT ![s] = Gone]
           /\ watch' = IF r.mFd = NoFd THEN watch ELSE SetConnected(watch, s, r, FALSE, {})
           /\ kernel' = [f \in SockFd |-> IF f = r.mFd THEN Closed ELSE kernel[f]]
           /\ group' = [f \in SockFd |-> IF f = r.mFd THEN {} ELSE group[f]]
    /\ UNCHANGED calling

\* connect: the kernel blocks until the connection is up or refused.
ConnectSocket(s) ==
    /\ sock[s].kind = "client" /\ sock[s].mFd # NoFd /\ kernel[sock[s].mFd].state = "new"
    /\ kernel' = [kernel EXCEPT ![sock[s].mFd].state = "up"]
    /\ sock' = [sock EXCEPT ![s] = WithConnected(@, TRUE)]
    /\ watch' = SetConnected(watch, s, sock[s], TRUE, {"in"})
    /\ UNCHANGED <<group, calling>>

\* connect with a timeout, when it runs out: the attempt goes on in the
\* kernel, and the socket is not connected.
ConnectTimesOut(s) ==
    /\ sock[s].kind = "client" /\ sock[s].mFd # NoFd /\ kernel[sock[s].mFd].state = "new"
    /\ kernel' = [kernel EXCEPT ![sock[s].mFd].state = "connecting"]
    /\ UNCHANGED <<sock, watch, group, calling>>

\* connectAsync: counts as connected at once, with POLLOUT watched.
ConnectAsync(s) ==
    /\ sock[s].kind = "client" /\ sock[s].mFd # NoFd /\ kernel[sock[s].mFd].state = "new"
    /\ \E st \in {"connecting", "up"} : kernel' = [kernel EXCEPT ![sock[s].mFd].state = st]
    /\ sock' = [sock EXCEPT ![s] = [WithConnected(@, TRUE) EXCEPT !.mConnectedAsync = TRUE]]
    /\ watch' = SetConnected(watch, s, sock[s], TRUE, {"in", "out"})
    /\ UNCHANGED <<group, calling>>

ShutdownSocket(s) ==
    /\ sock[s].mFd # NoFd /\ kernel[sock[s].mFd].state \in {"up", "half"}
    /\ kernel' = [kernel EXCEPT ![sock[s].mFd].state = "down"]
    /\ UNCHANGED <<sock, watch, group, calling>>

\* setSelector: a connected socket moves its registration, for POLLIN only.
SetSelector(s, listener, selector) ==
    /\ sock[s].kind \in {"client", "server", "datagram"}
    /\ sock' = [sock EXCEPT ![s].mListener = listener, ![s].mSelector = selector]
    /\ watch' = LET r == sock[s]
                    w == IF r.mSelector THEN RemoveListener(watch, r.mFd) ELSE watch
                IN  IF ~r.mConnected THEN watch
                    ELSE IF selector /\ listener THEN AddListener(w, r.mFd, {"in"}, s) ELSE w
    /\ UNCHANGED <<kernel, group, calling>>

\* read, on any of them, takes what waits.
ReadSocket(s) ==
    /\ sock[s].mFd # NoFd /\ kernel[sock[s].mFd].data
    /\ sock[s].kind # "server"
    /\ kernel' = [kernel EXCEPT ![sock[s].mFd].data = FALSE]
    /\ UNCHANGED <<sock, watch, group, calling>>

CloseCall(s) ==
    /\ sock[s].kind \in {"client", "server", "datagram"}
    /\ CloseSocket(s)
    /\ UNCHANGED calling

\* bind: a datagram server counts as connected; listen: a stream server does.
BindSocket(s) ==
    /\ sock[s].kind = "datagram" /\ sock[s].mFd # NoFd /\ kernel[sock[s].mFd].state = "new"
    /\ kernel' = [kernel EXCEPT ![sock[s].mFd].state = "bound"]
    /\ sock' = [sock EXCEPT ![s] = WithConnected(@, TRUE)]
    /\ watch' = SetConnected(watch, s, sock[s], TRUE, {"in"})
    /\ UNCHANGED <<group, calling>>

ListenSocket(s) ==
    /\ sock[s].kind = "server" /\ sock[s].mFd # NoFd /\ kernel[sock[s].mFd].state = "new"
    /\ kernel' = [kernel EXCEPT ![sock[s].mFd].state = "listening"]
    /\ sock' = [sock EXCEPT ![s] = WithConnected(@, TRUE)]
    /\ watch' = SetConnected(watch, s, sock[s], TRUE, {"in"})
    /\ UNCHANGED <<group, calling>>

\* joinGroup: the kernel's membership; mAddr is not set.
JoinGroup(s) ==
    /\ sock[s].kind = "datagram" /\ sock[s].mFd # NoFd /\ group[sock[s].mFd] = {}
    /\ group' = [group EXCEPT ![sock[s].mFd] = {"group"}]
    /\ sock' = [sock EXCEPT ![s].mInGroup = TRUE]
    /\ UNCHANGED <<kernel, watch, calling>>

\* leaveGroup: drops the membership of mAddr, which is INADDR_ANY; the kernel
\* refuses what was not joined and nothing changes.
LeaveGroup(s) ==
    /\ sock[s].kind = "datagram" /\ sock[s].mFd # NoFd
    /\ LET refused == "any" \notin group[sock[s].mFd]
       IN  /\ group' = [group EXCEPT ![sock[s].mFd] = @ \ {"any"}]
           /\ sock' = [sock EXCEPT ![s].mInGroup = IF refused THEN @ ELSE FALSE]
    /\ UNCHANGED <<kernel, watch, calling>>

\* FdReaderWriter::setSelector: an open descriptor moves its registration.
ReaderSetSelector(s, selector) ==
    /\ sock[s].kind = "reader" /\ sock[s].mFd # NoFd
    /\ sock' = [sock EXCEPT ![s].mSelector = selector, ![s].mListener = TRUE, ![s].mConnected = TRUE]
    /\ watch' = LET w == IF sock[s].mSelector THEN RemoveListener(watch, sock[s].mFd) ELSE watch
                IN  IF selector THEN AddListener(w, sock[s].mFd, {"in"}, s) ELSE w
    /\ UNCHANGED <<kernel, group, calling>>

\* FdReaderWriter::close neither deregisters nor resets mFd: its client has
\* called setSelector with no selector before, and does not use it again.
ReaderClose(s) ==
    /\ sock[s].kind = "reader" /\ ~sock[s].mSelector
    /\ calling.sock # s
    /\ kernel' = [f \in SockFd |-> IF f = sock[s].mFd THEN Closed ELSE kernel[f]]
    /\ sock' = [sock EXCEPT ![s] = Gone]
    /\ UNCHANGED <<watch, group, calling>>
-----------------------------------------------------------------------------
\* processFileEvents, on the selector's thread: one report at a time.

\* What the selector passes of what is ready: POLLHUP cannot be masked.
Reported(n) == Ready(n.fd) \cap (n.events \cup {"hup"})

\* POLLOUT after connectAsync: POLLIN is watched from now on, and the
\* listener is told that the connection is up whatever SO_ERROR holds; only
\* a getsockopt that fails itself is reported as a failure.
ProcessConnected(n) ==
    /\ calling = NoCall /\ n \in watch /\ "out" \in Reported(n)
    /\ sock[n.sock].kind = "client" /\ sock[n.sock].mConnectedAsync
    /\ sock' = [sock EXCEPT ![n.sock].mConnectedAsync = FALSE]
    /\ watch' = AddListener(RemoveListener(watch, n.fd), sock[n.sock].mFd, {"in"}, n.sock)
    /\ UNCHANGED <<kernel, group, calling>>

\* POLLIN without bytes, or POLLHUP: handleClose is asked.
ProcessClose(n) ==
    /\ calling = NoCall /\ n \in watch
    /\ sock[n.sock].kind = "client"
    /\ ~("out" \in Reported(n) /\ sock[n.sock].mConnectedAsync)
    /\ \/ "in" \in Reported(n) /\ ~kernel[n.fd].data
       \/ "in" \notin Reported(n) /\ "hup" \in Reported(n)
    /\ calling' = [what |-> "handleClose", sock |-> n.sock, server |-> n.sock]
    /\ UNCHANGED <<sock, kernel, watch, group>>

\* The listener says whether it has dealt with the close; if not, close().
HandleCloseReturns ==
    /\ calling.what = "handleClose"
    /\ \/ UNCHANGED <<sock, kernel, watch, group>>
       \/ CloseSocket(calling.sock)
    /\ calling' = NoCall

\* ServerSocket::processFileEvents and accept: the new socket is connected,
\* without a selector, and offered to the listener.
ProcessAccept(n, s) ==
    /\ calling = NoCall /\ n \in watch /\ "in" \in Reported(n)
    /\ sock[n.sock].kind = "server"
    /\ sock[s].kind = "none" /\ FreeFd # NoFd
    /\ sock' = [sock EXCEPT ![s] = [Gone EXCEPT !.kind = "client", !.mFd = FreeFd, !.mConnected = TRUE]]
    /\ kernel' = [kernel EXCEPT ![n.fd].data = FALSE, ![FreeFd].state = "up"]
    /\ calling' = [what |-> "handleAccept", sock |-> s, server |-> n.sock]
    /\ UNCHANGED <<watch, group>>

\* An accepted socket stays with the listener; another is closed and deleted.
HandleAcceptReturns ==
    /\ calling.what = "handleAccept"
    /\ \/ UNCHANGED <<sock, kernel, watch, group>>
       \/ LET r == sock[calling.sock]
          IN  /\ sock' = [sock EXCEPT ![calling.sock] = Gone]
              /\ watch' = IF r.mFd = NoFd THEN watch ELSE SetConnected(watch, calling.sock, r, FALSE, {})
              /\ kernel' = [f \in SockFd |-> IF f = r.mFd THEN Closed ELSE kernel[f]]
              /\ group' = [f \in SockFd |-> IF f = r.mFd THEN {} ELSE group[f]]
    /\ calling' = NoCall

\* handleData returns to code that does nothing more: the listener's calls
\* are the operations above.
SocketNext ==
    \/ KernelStep
    \/ \E s \in Sock :
        \/ NewSocket(s) \/ DeleteSocket(s)
        \/ ConnectSocket(s) \/ ConnectTimesOut(s) \/ ConnectAsync(s)
        \/ ShutdownSocket(s) \/ ReadSocket(s) \/ CloseCall(s)
        \/ \E listener, selector \in BOOLEAN : SetSelector(s, listener, selector)
        \/ BindSocket(s) \/ ListenSocket(s) \/ JoinGroup(s) \/ LeaveGroup(s)
        \/ \E selector \in BOOLEAN : ReaderSetSelector(s, selector)
        \/ ReaderClose(s)
    \/ \E n \in watch : ProcessConnected(n) \/ ProcessClose(n) \/ \E s \in Sock : ProcessAccept(n, s)
    \/ HandleCloseReturns \/ HandleAcceptReturns

SocketSpec == SocketInit /\ [][SocketNext]_sockVars
-----------------------------------------------------------------------------
\* A descriptor is registered exactly while an object that is alive, connected
\* and has a selector and a listener owns it, once and under that object; every
\* open descriptor has one owner, so none is leaked and none is shared with
\* the next object that is given the same number.
DescriptorsAreOwned ==
    /\ {n.sock : n \in watch} =
         {s \in Sock : sock[s].mConnected /\ sock[s].mSelector /\ sock[s].mListener}
    /\ \A n \in watch : n.fd = sock[n.sock].mFd
    /\ \A n, m \in watch : n.sock = m.sock => n = m
    /\ \A f \in SockFd : kernel[f].state # "free" <=> Cardinality({s \in Sock : sock[s].mFd = f}) = 1
=============================================================================
