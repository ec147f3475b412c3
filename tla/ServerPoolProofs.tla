-------------------------- MODULE ServerPoolProofs --------------------------
(***************************************************************************)
(* Proofs about the slots of the server: for any number of slots and of    *)
(* clients no slot changes its client under a session, a client is in one  *)
(* place, and StartServer returns after the last thread has ended.         *)
(***************************************************************************)
EXTENDS ServerPool, TLAPS

USE DEF flags, slotVars, handlerVars, listenerVars, netVars, mainVars

OutsideStep == AdminAsks \/ AdminStops \/ \E c \in Clients : Connect(c)

MainStep == TicksEnd \/ TickCloses \/ MainCloses

-----------------------------------------------------------------------------
(* Types.  The listener is counted as long as it has not ended. *)

ListenerCounted == sListenersMaxFails = IF listener = "ended" THEN 0 ELSE 1

TInv == TypeOK /\ ListenerCounted

LEMMA TInvInit == Init => TInv
<1> SUFFICES ASSUME Init PROVE TInv
  OBVIOUS
<1>1. 1 \in SlotSet
  BY ServerPoolAssumption DEF SlotSet
<1>2. mEndConnection \in [SlotSet -> BOOLEAN] /\ timed \in [SlotSet -> BOOLEAN]
  BY Zenon DEF Init
<1>3. sListenersMaxFails \in 0 .. 1 /\ ListenerCounted
  BY DEF Init, ListenerCounted
<1> QED
  BY <1>1, <1>2, <1>3 DEF Init, TInv, TypeOK

LEMMA TInvListener == TInv /\ (ListenerStep \/ AcceptFails) => TInv'
<1> SUFFICES ASSUME TInv, ListenerStep \/ AcceptFails PROVE TInv'
  OBVIOUS
<1> USE ServerPoolAssumption
    DEF TInv, TypeOK, ListenerCounted, SlotSet, NextConnection, LookOn, ListenerGoto
<1>1. CASE Listen
  BY <1>1 DEF Listen
<1>2. CASE AcceptThrows
  BY <1>2 DEF AcceptThrows
<1>3. CASE SkipSlot
  BY <1>3 DEF SkipSlot
<1>4. CASE ClaimSlot
  BY <1>4 DEF ClaimSlot
<1>5. CASE RunThread
  BY <1>5 DEF RunThread
<1>6. CASE RunRefused
  BY <1>6 DEF RunRefused
<1>7. CASE Refuse
  BY <1>7 DEF Refuse
<1>8. CASE ListenerLeaves
  BY <1>8 DEF ListenerLeaves
<1>9. ASSUME NEW c \in Clients, Accept(c) PROVE TInv'
  BY <1>9 DEF Accept
<1> QED
  BY <1>1, <1>2, <1>3, <1>4, <1>5, <1>6, <1>7, <1>8, <1>9
  DEF ListenerStep, AcceptFails, AcceptWakesUp

LEMMA TInvHandler == ASSUME TInv, NEW s \in SlotSet, HandlerStep(s) PROVE TInv'
<1> USE DEF TInv, TypeOK, ListenerCounted, Moves
<1>1. CASE StartSession(s)
  BY <1>1 DEF StartSession
<1>2. CASE ReadCommand(s)
  BY <1>2 DEF ReadCommand
<1>3. CASE Answer(s)
  BY <1>3 DEF Answer
<1>4. CASE EndSession(s)
  BY <1>4 DEF EndSession
<1>5. CASE CommandFails(s)
  BY <1>5 DEF CommandFails
<1>6. CASE AskStop(s)
  BY <1>6 DEF AskStop
<1>7. CASE HandlerStops(s)
  BY ZenonT(60), <1>7 DEF HandlerStops, StopServer
<1>8. CASE CloseSocket(s)
  BY <1>8 DEF CloseSocket
<1>9. CASE EndConnection(s)
  BY <1>9 DEF EndConnection
<1>10. CASE ThreadEnds(s)
  BY <1>10 DEF ThreadEnds
<1> QED
  BY <1>1, <1>2, <1>3, <1>4, <1>5, <1>6, <1>7, <1>8, <1>9, <1>10 DEF HandlerStep

LEMMA TInvMain ==
    TInv /\ (MainStep \/ \E s \in SlotSet : TickLooks(s)) => TInv'
<1> SUFFICES ASSUME TInv, MainStep \/ \E s \in SlotSet : TickLooks(s) PROVE TInv'
  OBVIOUS
<1> USE ServerPoolAssumption
    DEF TInv, TypeOK, ListenerCounted, MainMoves, MainNextSlot, MainClosesSocket, SlotSet
<1>1. CASE TicksEnd
  BY <1>1 DEF TicksEnd
<1>2. CASE TickCloses
  BY <1>2 DEF TickCloses
<1>3. CASE CloseListener
  BY <1>3 DEF CloseListener
<1>4. CASE Unlist
  <2>1. sListeners' \in BOOLEAN
    BY <1>4, Zenon DEF Unlist
  <2> QED
    BY <1>4, <2>1, SMT DEF Unlist
<1>11. CASE WaitListener
  BY <1>11 DEF WaitListener
<1>5. CASE CloseMark
  BY <1>5 DEF CloseMark
<1>6. CASE CloseUser
  BY <1>6 DEF CloseUser
<1>7. CASE DestroySocket
  BY <1>7 DEF DestroySocket
<1>8. CASE WaitUser
  BY <1>8 DEF WaitUser
<1>9. CASE DestroyThread
  BY <1>9 DEF DestroyThread
<1>10. ASSUME NEW s \in SlotSet, TickLooks(s) PROVE TInv'
  BY <1>10 DEF TickLooks
<1> QED
  BY <1>1, <1>2, <1>3, <1>4, <1>5, <1>6, <1>7, <1>8, <1>9, <1>10, <1>11
  DEF MainStep, MainCloses

LEMMA TInvOutside == TInv /\ (OutsideStep \/ UNCHANGED vars) => TInv'
<1> SUFFICES ASSUME TInv, OutsideStep \/ UNCHANGED vars PROVE TInv'
  OBVIOUS
<1> USE DEF TInv, TypeOK, ListenerCounted
<1>1. CASE AdminAsks
  BY <1>1 DEF AdminAsks
<1>2. CASE AdminStops
  BY <1>2 DEF AdminStops, StopServer
<1>3. ASSUME NEW c \in Clients, Connect(c) PROVE TInv'
  BY <1>3 DEF Connect
<1>4. CASE UNCHANGED vars
  BY <1>4 DEF vars
<1> QED
  BY <1>1, <1>2, <1>3, <1>4 DEF OutsideStep

LEMMA TInvNext == TInv /\ [Next]_vars => TInv'
  BY TInvListener, TInvHandler, TInvMain, TInvOutside DEF Next, MainStep, OutsideStep

LEMMA TInvAlways == Spec => []TInv
  BY TInvInit, TInvNext, PTL DEF Spec

\* The server keeps its types, for any number of slots and clients.
THEOREM TypeCorrect == Spec => []TypeOK
<1>1. TInv => TypeOK
  BY DEF TInv
<1> QED
  BY TInvAlways, <1>1, PTL

-----------------------------------------------------------------------------
(* A slot is free only when its thread is done with it, as long as nobody  *)
(* closes the listener: so the listener claims a slot that no session has, *)
(* and the slot stays claimed until the thread for it runs.                *)

Open == main \in {"ticks", "late"}

Done(s) == handler[s] \in {"none", "exit"}

SessionInv ==
    /\ TInv
    /\ Open => /\ \A s \in SlotSet : mEndConnection[s] => Done(s)
               /\ listener = "run" => ~mEndConnection[place] /\ Done(place)
    /\ SessionKeepsItsClient

LEMMA SessionInit == Init => SessionInv
<1> SUFFICES ASSUME Init PROVE SessionInv
  OBVIOUS
<1>1. \A s \in SlotSet : handler[s] = "none"
  BY DEF Init
<1> QED
  BY <1>1, TInvInit DEF SessionInv, Init, Open, Done, SessionKeepsItsClient, InSession

LEMMA SessionListener ==
    SessionInv /\ (ListenerStep \/ AcceptFails) => SessionInv'
<1> SUFFICES ASSUME SessionInv, ListenerStep \/ AcceptFails PROVE SessionInv'
  OBVIOUS
<1>1. TInv /\ TInv'
  BY TInvListener DEF SessionInv
<1> USE DEF SessionInv, Open, Done, SessionKeepsItsClient, InSession
<1>2. ASSUME UNCHANGED <<handlerVars, slotVars, main>>, listener' # "run" PROVE SessionInv'
  BY <1>1, <1>2
<1>3. CASE ClaimSlot
  BY <1>1, <1>3 DEF ClaimSlot, ListenerGoto, TInv, TypeOK
<1>4. CASE RunThread
  BY <1>1, <1>4 DEF RunThread, NextConnection, TInv, TypeOK
<1>5. CASE Listen \/ AcceptThrows \/ SkipSlot \/ RunRefused \/ Refuse \/ ListenerLeaves
  BY <1>2, <1>5 DEF Listen, AcceptThrows, SkipSlot, RunRefused, Refuse, ListenerLeaves,
                    NextConnection, LookOn, ListenerGoto
<1>6. ASSUME NEW c \in Clients, Accept(c) PROVE SessionInv'
  BY <1>2, <1>6 DEF Accept, ListenerGoto
<1> QED
  BY <1>3, <1>4, <1>5, <1>6 DEF ListenerStep, AcceptFails, AcceptWakesUp

LEMMA SessionHandler ==
    ASSUME SessionInv, NEW s \in SlotSet, HandlerStep(s) PROVE SessionInv'
<1>1. TInv /\ TInv'
  BY TInvHandler DEF SessionInv
<1> USE DEF SessionInv, Open, Done, SessionKeepsItsClient, InSession, Moves
<1>2. CASE StartSession(s)
  BY <1>1, <1>2 DEF StartSession, TInv, TypeOK
<1>3. CASE ReadCommand(s) \/ Answer(s) \/ EndSession(s) \/ CommandFails(s) \/ AskStop(s)
  BY <1>1, <1>3 DEF ReadCommand, Answer, EndSession, CommandFails, AskStop, TInv, TypeOK
<1>4. CASE HandlerStops(s)
  BY <1>1, <1>4 DEF HandlerStops, TInv, TypeOK
<1>5. CASE CloseSocket(s)
  BY <1>1, <1>5 DEF CloseSocket, TInv, TypeOK
<1>6. CASE EndConnection(s)
  BY <1>1, <1>6 DEF EndConnection, TInv, TypeOK
<1>7. CASE ThreadEnds(s)
  BY <1>1, <1>7 DEF ThreadEnds, TInv, TypeOK
<1> QED
  BY <1>2, <1>3, <1>4, <1>5, <1>6, <1>7 DEF HandlerStep

LEMMA SessionMain ==
    SessionInv /\ (MainStep \/ \E s \in SlotSet : TickLooks(s)) => SessionInv'
<1> SUFFICES ASSUME SessionInv, MainStep \/ \E s \in SlotSet : TickLooks(s) PROVE SessionInv'
  OBVIOUS
<1>1. TInv /\ TInv'
  BY TInvMain DEF SessionInv
<1> USE DEF SessionInv, Open, Done, SessionKeepsItsClient, InSession, MainMoves
<1>2. CASE TicksEnd
  BY <1>1, <1>2 DEF TicksEnd
<1>3. CASE TickCloses
  BY <1>1, <1>3 DEF TickCloses, MainClosesSocket, TInv, TypeOK
<1>4. CASE MainCloses
  <2>1. main' \notin {"ticks", "late"}
    BY <1>4 DEF MainCloses, CloseListener, CloseMark, CloseUser, WaitUser, Unlist,
                WaitListener, DestroySocket, DestroyThread, MainNextSlot
  <2> QED
    BY <1>1, <2>1
<1>5. ASSUME NEW s \in SlotSet, TickLooks(s) PROVE SessionInv'
  BY <1>1, <1>5 DEF TickLooks
<1> QED
  BY <1>2, <1>3, <1>4, <1>5 DEF MainStep

LEMMA SessionOutside == SessionInv /\ (OutsideStep \/ UNCHANGED vars) => SessionInv'
<1> SUFFICES ASSUME SessionInv, OutsideStep \/ UNCHANGED vars PROVE SessionInv'
  OBVIOUS
<1>1. TInv'
  BY TInvOutside DEF SessionInv
<1>2. UNCHANGED <<handlerVars, slotVars, listener, place, main>>
  BY DEF OutsideStep, AdminAsks, AdminStops, Connect, vars
<1> QED
  BY <1>1, <1>2 DEF SessionInv, Open, Done, SessionKeepsItsClient, InSession

LEMMA SessionNext == SessionInv /\ [Next]_vars => SessionInv'
  BY SessionListener, SessionHandler, SessionMain, SessionOutside
  DEF Next, MainStep, OutsideStep

\* Until the listener is closed, no slot is handed on under a session.
THEOREM SessionsSafe == Spec => []SessionKeepsItsClient
<1>1. SessionInv => SessionKeepsItsClient
  BY DEF SessionInv
<1> QED
  BY SessionInit, SessionNext, <1>1, PTL DEF Spec

-----------------------------------------------------------------------------
(* A socket moves: from the backlog to the listener, and on to one slot.   *)

PlaceInv == TInv /\ OnePlaceForAClient

LEMMA PlaceInit == Init => PlaceInv
<1> SUFFICES ASSUME Init PROVE PlaceInv
  OBVIOUS
<1>1. \A s \in SlotSet : mSocket[s] = None
  BY DEF Init
<1> QED
  BY <1>1, TInvInit DEF PlaceInv, Init, OnePlaceForAClient

LEMMA PlaceListener == PlaceInv /\ (ListenerStep \/ AcceptFails) => PlaceInv'
<1> SUFFICES ASSUME PlaceInv, ListenerStep \/ AcceptFails PROVE PlaceInv'
  OBVIOUS
<1>1. TInv /\ TInv'
  BY TInvListener DEF PlaceInv
<1> USE ServerPoolAssumption DEF PlaceInv, OnePlaceForAClient
<1>2. ASSUME UNCHANGED <<mSocket, backlog>>, held' \in {held, None} PROVE PlaceInv'
  BY <1>1, <1>2 DEF TInv, TypeOK
<1>3. CASE ClaimSlot
  BY <1>1, <1>3 DEF ClaimSlot, TInv, TypeOK
<1>4. CASE Listen \/ AcceptThrows \/ SkipSlot \/ RunThread \/ RunRefused \/ Refuse
           \/ ListenerLeaves
  BY <1>2, <1>4 DEF Listen, AcceptThrows, SkipSlot, RunThread, RunRefused, Refuse,
                    ListenerLeaves, NextConnection, LookOn, ListenerGoto
<1>5. ASSUME NEW c \in Clients, Accept(c) PROVE PlaceInv'
  BY <1>1, <1>5 DEF Accept
<1> QED
  BY <1>3, <1>4, <1>5 DEF ListenerStep, AcceptFails, AcceptWakesUp

LEMMA SocketCloses ==
    ASSUME PlaceInv, TInv', NEW s \in SlotSet, UNCHANGED <<backlog, held>>,
           mSocket' = [mSocket EXCEPT ![s] = None]
    PROVE  PlaceInv'
  BY DEF PlaceInv, OnePlaceForAClient, TInv, TypeOK

LEMMA PlaceHandler == ASSUME PlaceInv, NEW s \in SlotSet, HandlerStep(s) PROVE PlaceInv'
<1>1. TInv'
  BY TInvHandler DEF PlaceInv
<1>2. CASE CloseSocket(s)
  BY <1>1, <1>2, SocketCloses DEF CloseSocket
<1>3. CASE ~CloseSocket(s)
  <2>1. UNCHANGED <<mSocket, backlog, held>>
    BY <1>3 DEF HandlerStep, StartSession, ReadCommand, Answer, EndSession, CommandFails,
                AskStop, HandlerStops, EndConnection, ThreadEnds
  <2> QED
    BY <1>1, <2>1 DEF PlaceInv, OnePlaceForAClient
<1> QED
  BY <1>2, <1>3

LEMMA PlaceMain ==
    PlaceInv /\ (MainStep \/ \E s \in SlotSet : TickLooks(s)) => PlaceInv'
<1> SUFFICES ASSUME PlaceInv, MainStep \/ \E s \in SlotSet : TickLooks(s) PROVE PlaceInv'
  OBVIOUS
<1>1. TInv /\ TInv'
  BY TInvMain DEF PlaceInv
<1>2. CASE TickCloses \/ CloseUser \/ DestroySocket
  <2>1. closing \in SlotSet
    BY <1>1 DEF TInv, TypeOK
  <2>2. mSocket' = [mSocket EXCEPT ![closing] = None] /\ UNCHANGED <<backlog, held>>
    BY <1>2 DEF TickCloses, CloseUser, DestroySocket, MainClosesSocket
  <2> QED
    BY <1>1, <2>1, <2>2, SocketCloses
<1>3. CASE CloseListener
  BY <1>1, <1>3 DEF CloseListener, PlaceInv, OnePlaceForAClient
<1>4. CASE TicksEnd \/ CloseMark \/ WaitUser \/ Unlist \/ WaitListener \/ DestroyThread
           \/ \E s \in SlotSet : TickLooks(s)
  <2>1. UNCHANGED <<mSocket, backlog, held>>
    BY <1>4 DEF TicksEnd, CloseMark, WaitUser, Unlist, WaitListener, DestroyThread, TickLooks
  <2> QED
    BY <1>1, <2>1 DEF PlaceInv, OnePlaceForAClient
<1> QED
  BY <1>2, <1>3, <1>4 DEF MainStep, MainCloses

LEMMA PlaceOutside == PlaceInv /\ (OutsideStep \/ UNCHANGED vars) => PlaceInv'
<1> SUFFICES ASSUME PlaceInv, OutsideStep \/ UNCHANGED vars PROVE PlaceInv'
  OBVIOUS
<1>1. TInv'
  BY TInvOutside DEF PlaceInv
<1> USE DEF PlaceInv, OnePlaceForAClient
<1>2. ASSUME NEW c \in Clients, Connect(c) PROVE PlaceInv'
  BY <1>1, <1>2 DEF Connect
<1>3. CASE AdminAsks \/ AdminStops \/ UNCHANGED vars
  BY <1>1, <1>3 DEF AdminAsks, AdminStops, vars
<1> QED
  BY <1>2, <1>3 DEF OutsideStep

LEMMA PlaceNext == PlaceInv /\ [Next]_vars => PlaceInv'
  BY PlaceListener, PlaceHandler, PlaceMain, PlaceOutside DEF Next, MainStep, OutsideStep

\* A connection is never in two slots, nor in a slot and with the listener.
THEOREM OnePlaceSafe == Spec => []OnePlaceForAClient
<1>1. PlaceInv => OnePlaceForAClient
  BY DEF PlaceInv
<1> QED
  BY PlaceInit, PlaceNext, <1>1, PTL DEF Spec

-----------------------------------------------------------------------------
(* The slots are destroyed once the listener, which alone starts handlers, *)
(* has ended; each destructor waits for its thread.                        *)

Destroying == main \in {"destroySocket", "destroyThread"}

EndsInv ==
    /\ TInv
    /\ Destroying => /\ listener = "ended"
                     /\ \A s \in SlotSet : s < closing => ~Running(s)
    /\ ThreadsEndFirst

LEMMA EndsInit == Init => EndsInv
  BY TInvInit DEF Init, EndsInv, Destroying, ThreadsEndFirst

LEMMA EndsListener == EndsInv /\ (ListenerStep \/ AcceptFails) => EndsInv'
<1> SUFFICES ASSUME EndsInv, ListenerStep \/ AcceptFails PROVE EndsInv'
  OBVIOUS
<1>1. TInv'
  BY TInvListener DEF EndsInv
<1>2. listener # "ended" /\ UNCHANGED <<main, closing>>
  BY DEF ListenerStep, Listen, AcceptWakesUp, AcceptThrows, SkipSlot, ClaimSlot, RunThread,
         RunRefused, Refuse, ListenerLeaves, Accept, AcceptFails
<1> QED
  BY <1>1, <1>2 DEF EndsInv, Destroying, ThreadsEndFirst

LEMMA EndsHandler == ASSUME EndsInv, NEW s \in SlotSet, HandlerStep(s) PROVE EndsInv'
<1>1. TInv /\ TInv'
  BY TInvHandler DEF EndsInv
<1>2. Running(s) /\ \A r \in SlotSet : Running(r)' => Running(r)
  BY <1>1 DEF HandlerStep, StartSession, ReadCommand, Answer, EndSession, CommandFails, AskStop,
              HandlerStops, CloseSocket, EndConnection, ThreadEnds, Moves, Running, TInv, TypeOK
<1>3. UNCHANGED <<listener, main, closing>>
  BY DEF HandlerStep, StartSession, ReadCommand, Answer, EndSession, CommandFails, AskStop,
         HandlerStops, CloseSocket, EndConnection, ThreadEnds
<1> QED
  BY <1>1, <1>2, <1>3 DEF EndsInv, Destroying, ThreadsEndFirst

LEMMA EndsMain ==
    EndsInv /\ (MainStep \/ \E s \in SlotSet : TickLooks(s)) => EndsInv'
<1> SUFFICES ASSUME EndsInv, MainStep \/ \E s \in SlotSet : TickLooks(s) PROVE EndsInv'
  OBVIOUS
<1>1. TInv /\ TInv'
  BY TInvMain DEF EndsInv
<1> USE DEF EndsInv, Destroying, ThreadsEndFirst, MainMoves, Running
<1>2. CASE WaitListener
  BY <1>1, <1>2 DEF WaitListener, SlotSet
<1>3. CASE DestroySocket
  BY <1>1, <1>3 DEF DestroySocket
<1>4. CASE DestroyThread
  BY <1>1, <1>4, ServerPoolAssumption DEF DestroyThread, MainNextSlot, SlotSet, TInv, TypeOK
<1>5. CASE TicksEnd \/ TickCloses \/ CloseListener \/ CloseMark \/ CloseUser \/ Unlist
           \/ \E s \in SlotSet : TickLooks(s)
  BY <1>1, <1>5 DEF TicksEnd, TickCloses, CloseListener, CloseMark, CloseUser, Unlist, TickLooks
<1>6. CASE WaitUser
  BY <1>1, <1>6 DEF WaitUser, MainNextSlot
<1> QED
  BY <1>2, <1>3, <1>4, <1>5, <1>6 DEF MainStep, MainCloses

LEMMA EndsOutside == EndsInv /\ (OutsideStep \/ UNCHANGED vars) => EndsInv'
<1> SUFFICES ASSUME EndsInv, OutsideStep \/ UNCHANGED vars PROVE EndsInv'
  OBVIOUS
<1>1. TInv'
  BY TInvOutside DEF EndsInv
<1>2. UNCHANGED <<handler, listener, main, closing>>
  BY DEF OutsideStep, AdminAsks, AdminStops, Connect, vars
<1> QED
  BY <1>1, <1>2 DEF EndsInv, Destroying, ThreadsEndFirst, Running

LEMMA EndsNext == EndsInv /\ [Next]_vars => EndsInv'
  BY EndsListener, EndsHandler, EndsMain, EndsOutside DEF Next, MainStep, OutsideStep

\* StartServer returns after the last thread that uses the listeners has ended.
THEOREM EndsSafe == Spec => []ThreadsEndFirst
<1>1. EndsInv => ThreadsEndFirst
  BY DEF EndsInv
<1> QED
  BY EndsInit, EndsNext, <1>1, PTL DEF Spec
=============================================================================
