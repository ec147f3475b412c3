----------------------------- MODULE ServerPool -----------------------------
(***************************************************************************)
(* The threads of the server (server/common/server.cpp): one listener with *)
(* its pool of user slots, a handler thread for each slot that is taken,   *)
(* the thread of StartServer with its ticks, and whoever calls StopServer. *)
(* A slot is handed on through mEndConnection, its thread through mEnded   *)
(* of Thread (custom/cpp_support/wthread.cpp), and neither has a lock.     *)
(*                                                                         *)
(* A session is reduced to reading a command and executing it; what a      *)
(* command does belongs to the engine.  A socket is the client at its      *)
(* other end, None when it is closed or moved away.  The requests that     *)
(* stop the server hold sClosingLock for one step; StartServer holds it    *)
(* while it closes the listener, which is told by where it is.             *)
(***************************************************************************)
EXTENDS Integers

CONSTANTS
    Clients,
    Slots,          \* the number of user slots, max_connections
    AcceptMayFail,  \* may Accept fail on a socket that is open?
    CommandsMayFail,\* may a command fail in a way that stops the server?
    None

ASSUME ServerPoolAssumption ==
    /\ Slots \in Nat \ {0}
    /\ AcceptMayFail \in BOOLEAN
    /\ CommandsMayFail \in BOOLEAN
    /\ None \notin Clients

VARIABLES
    sAcceptUsersConnections,
    sServerStopped,
    sListeners,         \* is the pointer set?
    sListenersMaxFails,
    listenSocket,       \* Listener::mSocket
    mSocket,            \* of each slot,
    mEndConnection,
    timed,              \* and whether its mLastReqTick is not zero
    handler,            \* where the thread of each slot is
    peer,               \* the client it began with
    listener,           \* where the listener's thread is,
    place,              \* the slot it looks at,
    held,               \* the socket it holds
    main,               \* where StartServer is,
    closing,            \* the slot it looks at
    admin,              \* who calls StopServer from outside
    backlog             \* the clients that listen(2) keeps until Accept

flags        == <<sAcceptUsersConnections, sServerStopped, sListeners>>
slotVars     == <<mSocket, mEndConnection, timed>>
handlerVars  == <<handler, peer>>
listenerVars == <<listener, place, held, sListenersMaxFails>>
netVars      == <<listenSocket, backlog>>
mainVars     == <<main, closing>>

vars == <<flags, slotVars, handlerVars, listenerVars, netVars, mainVars, admin>>

SlotSet == 1 .. Slots

Init ==
    /\ sAcceptUsersConnections = TRUE
    /\ sServerStopped = FALSE
    /\ sListeners = TRUE
    /\ sListenersMaxFails = 1
    /\ listenSocket = "none" /\ backlog = {}
    /\ mSocket = [s \in SlotSet |-> None]
    /\ mEndConnection = [s \in SlotSet |-> TRUE]
    /\ timed = [s \in SlotSet |-> FALSE]
    /\ handler = [s \in SlotSet |-> "none"] /\ peer = [s \in SlotSet |-> None]
    /\ listener = "start" /\ place = 1 /\ held = None
    /\ main = "ticks" /\ closing = 1
    /\ admin = "away"

\* mEnded of the thread of slot s is not zero on account of the thread.
Running(s) == handler[s] # "none"

\* StartServer is in WaitToEnd for the thread of slot s.
WaitedFor(s) == main \in {"waitUser", "destroyThread"} /\ closing = s

-----------------------------------------------------------------------------
(* The listener. *)

\* What it does after a connection is dealt with.
NextConnection ==
    /\ listener' = IF sAcceptUsersConnections THEN "accept" ELSE "leave"
    /\ place' = 1 /\ held' = None
    /\ UNCHANGED sListenersMaxFails

ListenerGoto(pc) == listener' = pc /\ UNCHANGED <<place, sListenersMaxFails>>

\* The listening socket is made, or the exception ends the listener.
Listen ==
    /\ listener = "start"
    /\ \/ listenSocket' = "open" /\ NextConnection
       \/ AcceptMayFail /\ ListenerGoto("leave") /\ UNCHANGED <<held, listenSocket>>
    /\ UNCHANGED <<flags, slotVars, handlerVars, backlog, mainVars, admin>>

Accept(c) ==
    /\ listener = "accept" /\ listenSocket = "open"
    /\ c \in backlog
    /\ backlog' = backlog \ {c}
    /\ ListenerGoto("search")
    /\ held' = c
    /\ UNCHANGED <<flags, slotVars, handlerVars, listenSocket, mainVars, admin>>

\* The exception of Accept ends the loop.
AcceptThrows ==
    /\ listener = "accept"
    /\ ListenerGoto("leave")
    /\ UNCHANGED <<flags, slotVars, handlerVars, held, netVars, mainVars, admin>>

AcceptFails   == listenSocket = "open" /\ AcceptMayFail /\ AcceptThrows
AcceptWakesUp == listenSocket = "closed" /\ AcceptThrows

\* SearchFreeUser goes on with the next slot, if there is one.
LookOn ==
    /\ IF place < Slots THEN listener' = "search" /\ place' = place + 1
                        ELSE listener' = "refuse" /\ place' = 1
    /\ UNCHANGED <<held, sListenersMaxFails>>

SkipSlot ==
    /\ listener = "search"
    /\ ~mEndConnection[place]
    /\ LookOn
    /\ UNCHANGED <<flags, slotVars, handlerVars, netVars, mainVars, admin>>

\* Mutant: the listener keeps the socket it has given to the slot.
ClaimSlotCopied ==
    /\ listener = "search"
    /\ mEndConnection[place]
    /\ mSocket' = [mSocket EXCEPT ![place] = held]
    /\ mEndConnection' = [mEndConnection EXCEPT ![place] = FALSE]
    /\ timed' = [timed EXCEPT ![place] = FALSE]
    /\ ListenerGoto("run")
    /\ UNCHANGED <<flags, handlerVars, held, netVars, mainVars, admin>>

\* The slot gets the socket; the one the listener has is invalid from now on.
ClaimSlot ==
    /\ listener = "search"
    /\ mEndConnection[place]
    /\ mSocket' = [mSocket EXCEPT ![place] = held]
    /\ mEndConnection' = [mEndConnection EXCEPT ![place] = FALSE]
    /\ timed' = [timed EXCEPT ![place] = FALSE]
    /\ ListenerGoto("run")
    /\ held' = None
    /\ UNCHANGED <<flags, handlerVars, netVars, mainVars, admin>>

\* Thread::Run finds mEnded zero and starts the handler.
RunThread ==
    /\ listener = "run"
    /\ ~Running(place)
    /\ handler' = [handler EXCEPT ![place] = "start"]
    /\ NextConnection
    /\ UNCHANGED <<flags, slotVars, peer, netVars, mainVars, admin>>

\* Thread::Run finds the previous thread not quite ended, or somebody waiting
\* for it: the slot stays claimed, and the search goes on without a socket.
RunRefused ==
    /\ listener = "run"
    /\ Running(place) \/ WaitedFor(place)
    /\ LookOn
    /\ UNCHANGED <<flags, slotVars, handlerVars, netVars, mainVars, admin>>

\* No slot: the client is told and its socket closed, unless the write throws,
\* because the client is gone or because there is no socket to write to.
Refuse ==
    /\ listener = "refuse"
    /\ \/ held # None /\ NextConnection
       \/ ListenerGoto("leave") /\ held' = None
    /\ UNCHANGED <<flags, slotVars, handlerVars, netVars, mainVars, admin>>

\* Mutant: the listener is counted again and again.
ListenerLeavesAgain ==
    /\ listener = "leave"
    /\ sListenersMaxFails' = sListenersMaxFails - 1
    /\ UNCHANGED <<flags, slotVars, handlerVars, listener, place, held, netVars, mainVars, admin>>

ListenerLeaves ==
    /\ listener = "leave"
    /\ sListenersMaxFails' = sListenersMaxFails - 1
    /\ listener' = "ended"
    /\ UNCHANGED <<flags, slotVars, handlerVars, place, held, netVars, mainVars, admin>>

ListenerStep ==
    \/ Listen \/ AcceptWakesUp \/ SkipSlot \/ ClaimSlot \/ RunThread \/ RunRefused
    \/ Refuse \/ ListenerLeaves
    \/ \E c \in Clients : Accept(c)

-----------------------------------------------------------------------------
(* The handler of slot s: client_handler_routine. *)

\* The thread goes from one place to another.
Moves(s, from, to) ==
    /\ handler[s] \in from
    /\ handler' = [handler EXCEPT ![s] = to]

\* The slot is taken (again), and the authentication timer runs.
StartSession(s) ==
    /\ Moves(s, {"start"}, "reading")
    /\ peer' = [peer EXCEPT ![s] = mSocket[s]]
    /\ mEndConnection' = [mEndConnection EXCEPT ![s] = FALSE]
    /\ timed' = [timed EXCEPT ![s] = TRUE]
    /\ UNCHANGED <<flags, mSocket, listenerVars, netVars, mainVars, admin>>

\* A command arrives: no request timer while it is executed.
ReadCommand(s) ==
    /\ Moves(s, {"reading"}, "executing")
    /\ mSocket[s] # None
    /\ timed' = [timed EXCEPT ![s] = FALSE]
    /\ UNCHANGED <<flags, peer, mSocket, mEndConnection, listenerVars, netVars, mainVars, admin>>

\* The answer is written, and the timer starts again.
Answer(s) ==
    /\ Moves(s, {"executing"}, "reading")
    /\ mSocket[s] # None
    /\ timed' = [timed EXCEPT ![s] = TRUE]
    /\ UNCHANGED <<flags, peer, mSocket, mEndConnection, listenerVars, netVars, mainVars, admin>>

\* Mutant: the slot is given back before its socket is closed.
EndSessionEarly(s) ==
    /\ Moves(s, {"reading", "executing"}, "close")
    /\ mEndConnection' = [mEndConnection EXCEPT ![s] = TRUE]
    /\ UNCHANGED <<flags, peer, mSocket, timed, listenerVars, netVars, mainVars, admin>>

\* CMD_CLOSE_CONN, a client that is gone, or any exception of the session.
EndSession(s) ==
    /\ Moves(s, {"reading", "executing"}, "close")
    /\ UNCHANGED <<flags, peer, slotVars, listenerVars, netVars, mainVars, admin>>

\* A FileException, or one that nobody expects: StopServer is called.
CommandFails(s) ==
    /\ CommandsMayFail
    /\ Moves(s, {"executing"}, "askStop")
    /\ UNCHANGED <<flags, peer, slotVars, listenerVars, netVars, mainVars, admin>>

\* StopServer's first look, without the lock.
StopServerLook == sListeners /\ ~sServerStopped

\* StartServer has sClosingLock while it closes the listener.
ClosingLocked == main \in {"closeListener", "closeMark", "closeSocket", "waitUser"}

StopServer ==
    /\ ~ClosingLocked
    /\ sAcceptUsersConnections' = FALSE
    /\ sServerStopped' = TRUE
    /\ UNCHANGED sListeners

AskStop(s) ==
    /\ Moves(s, {"askStop"}, IF StopServerLook THEN "stopServer" ELSE "close")
    /\ UNCHANGED <<flags, peer, slotVars, listenerVars, netVars, mainVars, admin>>

HandlerStops(s) ==
    /\ Moves(s, {"stopServer"}, "close")
    /\ StopServer
    /\ UNCHANGED <<peer, slotVars, listenerVars, netVars, mainVars, admin>>

CloseSocket(s) ==
    /\ Moves(s, {"close"}, "endConnection")
    /\ mSocket' = [mSocket EXCEPT ![s] = None]
    /\ peer' = [peer EXCEPT ![s] = None]
    /\ UNCHANGED <<flags, mEndConnection, timed, listenerVars, netVars, mainVars, admin>>

EndConnection(s) ==
    /\ Moves(s, {"endConnection"}, "exit")
    /\ mEndConnection' = [mEndConnection EXCEPT ![s] = TRUE]
    /\ timed' = [timed EXCEPT ![s] = FALSE]
    /\ UNCHANGED <<flags, peer, mSocket, listenerVars, netVars, mainVars, admin>>

\* ThreadWrapperRoutine gives mEnded back.
ThreadEnds(s) ==
    /\ Moves(s, {"exit"}, "none")
    /\ UNCHANGED <<flags, peer, slotVars, listenerVars, netVars, mainVars, admin>>

HandlerStep(s) ==
    \/ StartSession(s) \/ ReadCommand(s) \/ Answer(s) \/ EndSession(s) \/ CommandFails(s)
    \/ AskStop(s) \/ HandlerStops(s) \/ CloseSocket(s) \/ EndConnection(s) \/ ThreadEnds(s)

-----------------------------------------------------------------------------
(* StartServer and its ticks. *)

MainMoves(from, to, s) == main = from /\ main' = to /\ closing' = s

\* The slot after the one that is done with, or what follows the last.
MainNextSlot(from, again, after) ==
    IF closing < Slots THEN MainMoves(from, again, closing + 1) ELSE MainMoves(from, after, 1)

MainClosesSocket == mSocket' = [mSocket EXCEPT ![closing] = None]

\* ReqTmoCloseTick finds the timer of slot s run out.
TickLooks(s) ==
    /\ MainMoves("ticks", "late", s)
    /\ ~mEndConnection[s] /\ timed[s]
    /\ UNCHANGED <<flags, slotVars, handlerVars, listenerVars, netVars, admin>>

\* It closes the socket that the slot has by then.
TickCloses ==
    /\ MainMoves("late", "ticks", 1)
    /\ MainClosesSocket
    /\ UNCHANGED <<flags, mEndConnection, timed, handlerVars, listenerVars, netVars, admin>>

\* Mutant: only the listeners end the ticks.
TicksEndWithListeners ==
    /\ MainMoves("ticks", "closeListener", 1)
    /\ sListenersMaxFails <= 0
    /\ UNCHANGED <<flags, slotVars, handlerVars, listenerVars, netVars, admin>>

\* The ticks are over, and sClosingLock is taken; nobody holds it for longer
\* than a step.
TicksEnd ==
    /\ MainMoves("ticks", "closeListener", 1)
    /\ sServerStopped \/ sListenersMaxFails <= 0
    /\ UNCHANGED <<flags, slotVars, handlerVars, listenerVars, netVars, admin>>

\* Listener::Close closes the listening socket,
CloseListener ==
    /\ MainMoves("closeListener", "closeMark", 1)
    /\ listenSocket' = IF listenSocket = "open" THEN "closed" ELSE listenSocket
    /\ backlog' = {}
    /\ UNCHANGED <<flags, slotVars, handlerVars, listenerVars, admin>>

\* then marks each slot,
CloseMark ==
    /\ MainMoves("closeMark", "closeSocket", closing)
    /\ mEndConnection' = [mEndConnection EXCEPT ![closing] = TRUE]
    /\ UNCHANGED <<flags, mSocket, timed, handlerVars, listenerVars, netVars, admin>>

\* closes its socket,
CloseUser ==
    /\ MainMoves("closeSocket", "waitUser", closing)
    /\ MainClosesSocket
    /\ UNCHANGED <<flags, mEndConnection, timed, handlerVars, listenerVars, netVars, admin>>

\* and waits for its thread; after the last the lock is released.
WaitUser ==
    /\ MainNextSlot("waitUser", "closeMark", "unlist")
    /\ ~Running(closing)
    /\ UNCHANGED <<flags, slotVars, handlerVars, listenerVars, netVars, admin>>

Unlist ==
    /\ MainMoves("unlist", "waitListener", 1)
    /\ sListeners' = FALSE
    /\ UNCHANGED <<sAcceptUsersConnections, sServerStopped, slotVars, handlerVars, listenerVars,
                   netVars, admin>>

WaitListener ==
    /\ MainMoves("waitListener", "destroySocket", 1)
    /\ listener = "ended"
    /\ UNCHANGED <<flags, slotVars, handlerVars, listenerVars, netVars, admin>>

\* The slots are destroyed: the destructor of the socket closes it,
DestroySocket ==
    /\ MainMoves("destroySocket", "destroyThread", closing)
    /\ MainClosesSocket
    /\ UNCHANGED <<flags, mEndConnection, timed, handlerVars, listenerVars, netVars, admin>>

\* Mutant: the thread is not waited for.
DestroyThreadAtOnce ==
    /\ MainNextSlot("destroyThread", "destroySocket", "done")
    /\ UNCHANGED <<flags, slotVars, handlerVars, listenerVars, netVars, admin>>

\* that of the thread waits for it.
DestroyThread ==
    /\ MainNextSlot("destroyThread", "destroySocket", "done")
    /\ ~Running(closing)
    /\ UNCHANGED <<flags, slotVars, handlerVars, listenerVars, netVars, admin>>

MainCloses ==
    \/ CloseListener \/ CloseMark \/ CloseUser \/ WaitUser \/ Unlist
    \/ WaitListener \/ DestroySocket \/ DestroyThread

-----------------------------------------------------------------------------
(* StopServer from outside, and the clients. *)

AdminAsks ==
    /\ admin = "away"
    /\ admin' = IF StopServerLook THEN "stopServer" ELSE "done"
    /\ UNCHANGED <<flags, slotVars, handlerVars, listenerVars, netVars, mainVars>>

AdminStops ==
    /\ admin = "stopServer"
    /\ StopServer
    /\ admin' = "done"
    /\ UNCHANGED <<slotVars, handlerVars, listenerVars, netVars, mainVars>>

\* A client connects, the first time or after the server has closed its last
\* connection.
Connect(c) ==
    /\ listenSocket = "open"
    /\ c \notin backlog /\ held # c
    /\ \A s \in SlotSet : mSocket[s] # c /\ peer[s] # c
    /\ backlog' = backlog \cup {c}
    /\ UNCHANGED <<flags, slotVars, handlerVars, listenerVars, listenSocket, mainVars, admin>>

Next ==
    \/ ListenerStep
    \/ AcceptFails
    \/ \E s \in SlotSet : HandlerStep(s) \/ TickLooks(s)
    \/ TickCloses
    \/ TicksEnd
    \/ MainCloses
    \/ AdminAsks
    \/ AdminStops
    \/ \E c \in Clients : Connect(c)

Spec == Init /\ [][Next]_vars

\* Every thread runs, the ticks look at the flags in each round, and a command
\* ends; nothing is asked of the clients, of whoever stops the server, and of
\* Accept, which need not fail on a socket that is open.
FairSpec ==
    /\ Spec
    /\ WF_vars(ListenerStep)
    /\ \A s \in SlotSet : WF_vars(HandlerStep(s))
    /\ SF_vars(TicksEnd)
    /\ WF_vars(MainCloses)
    /\ WF_vars(TickCloses)

-----------------------------------------------------------------------------
(* Properties. *)

\* Every variable has its type.
TypeOK ==
    /\ sAcceptUsersConnections \in BOOLEAN /\ sServerStopped \in BOOLEAN
    /\ sListeners \in BOOLEAN
    /\ sListenersMaxFails \in 0 .. 1
    /\ listenSocket \in {"none", "open", "closed"} /\ backlog \subseteq Clients
    /\ mSocket \in [SlotSet -> Clients \cup {None}]
    /\ mEndConnection \in [SlotSet -> BOOLEAN]
    /\ timed \in [SlotSet -> BOOLEAN]
    /\ handler \in [SlotSet -> {"none", "start", "reading", "executing", "askStop",
                                "stopServer", "close", "endConnection", "exit"}]
    /\ peer \in [SlotSet -> Clients \cup {None}]
    /\ listener \in {"start", "accept", "search", "run", "refuse", "leave", "ended"}
    /\ place \in SlotSet /\ held \in Clients \cup {None}
    /\ main \in {"ticks", "late", "closeListener", "closeMark", "closeSocket", "waitUser",
                 "unlist", "waitListener", "destroySocket", "destroyThread", "done"}
    /\ closing \in SlotSet
    /\ admin \in {"away", "stopServer", "done"}

\* The places from which a handler uses its socket.
InSession == {"reading", "executing", "askStop", "stopServer", "close"}

\* Until Close begins, a handler works on the socket of the client it began
\* with, or on none: no slot is handed on under a session.
SessionKeepsItsClient ==
    main \in {"ticks", "late"} =>
        \A s \in SlotSet : handler[s] \in InSession => mSocket[s] \in {peer[s], None}

\* A client has one connection, and so one place where the server keeps it.
OnePlaceForAClient ==
    /\ \A s, r \in SlotSet : mSocket[s] = mSocket[r] /\ mSocket[s] # None => s = r
    /\ \A s \in SlotSet : mSocket[s] # None => mSocket[s] # held /\ mSocket[s] \notin backlog
    /\ held \notin backlog

\* StartServer returns after the last thread that uses the listeners has ended,
\* though handlers may start as late as during Close.
ThreadsEndFirst ==
    main = "done" => listener = "ended" /\ \A s \in SlotSet : ~Running(s)

\* The listener goes on until the server stops or its socket is of no use (it
\* refuses a connection "because of unavailable slots", server.cpp:392).
ListenerStays ==
    listener \in {"leave", "ended"} => ~sAcceptUsersConnections \/ listenSocket # "open"

\* No session stays with its client, in a command or waiting for the next.
SessionsEnd == \A s \in SlotSet : []<>(handler[s] \notin {"reading", "executing"})

\* Close waits, with the lock, for a handler that waits for the lock to ask for
\* what Close is doing (server.cpp:508-515): neither will ever go on.
CloseWaitsForStopper == main = "waitUser" /\ handler[closing] = "stopServer"

\* A server that was asked to stop ("Waiting for the next tick...",
\* server.cpp:515), or whose listener has ended, stops when the sessions end, but
\* for that one embrace: no other order of ticks, handlers and Close holds it up.
ServerStopsWhenSessionsEnd ==
    SessionsEnd =>
        (sServerStopped \/ sListenersMaxFails = 0 ~> main = "done" \/ CloseWaitsForStopper)
=============================================================================
