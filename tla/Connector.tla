----------------------------- MODULE Connector -----------------------------
(***************************************************************************)
(* A client of the server: the handle of client/src/connector.c and the    *)
(* session that serves it, client_handler_routine (server/common/          *)
(* server.cpp) with its ClientConnection and the commands of commands.cpp  *)
(* and stack_cmds.cpp.                                                     *)
(*                                                                         *)
(* The calls that change the stack of the session are not sent one by one: *)
(* the client gathers them in its frame, puts an update that goes on where *)
(* the one before ended into that one, and sends the frame when it is full *)
(* or when it is told to.  The answer to a command stays in the same frame *)
(* and serves the calls that read, until it is overwritten or outdated.    *)
(*                                                                         *)
(* A session ends at any time (timeouts, the stop of the server, failures  *)
(* of a command); the transport neither loses nor reorders.  Ciphers, sums *)
(* and the cookies, which are checked as the frame numbers are, are left   *)
(* out.  A call is for one value: a text or an array on top of the stack;  *)
(* tables and fields take other bytes of a frame the same way.             *)
(***************************************************************************)
EXTENDS Naturals, Sequences, SequencesExt

CONSTANTS
    Items,              \* characters and elements
    Room,               \* what a frame holds: max_data_size
    Globals,            \* the number of global values, known by 1, 2, ...
    NamesPerFrame,      \* names an answer has room for
    Ids,                \* frame numbers go round after this many
    MaxDepth,           \* bound: values on the stack
    MaxItems            \* bound: length of a value

ASSUME ConnectorAssumption ==
    /\ Globals \in Nat /\ {Room, NamesPerFrame, Ids} \subseteq Nat \ {0}

Types == {"text", "array"}

VARIABLES
    client,     \* the handle
    waits,      \* the call that waits for its answer
    wire,       \* the request or the answer under way
    server,     \* the session: whether it lives, its frame number, its stack
    asked,      \* history: stack calls accepted since the last flush was over
    garbled,    \* history: an update was merged into a command it does not follow
    fetched     \* history: names WFetchGlobal returned since WStartGlobalsList, until
                \* another call

vars == <<client, waits, wire, server, asked, garbled, fetched>>

NoCall   == [cmd |-> "none"]
Nothing  == <<>>
NoList   == [index |-> 0, count |-> 0, left |-> <<>>, valid |-> FALSE]
Next1(id) == (id + 1) % Ids

-----------------------------------------------------------------------------
(* The stack of a session and what the commands make of it. *)

Push(type)            == [op |-> "push", type |-> type]
Pop                   == [op |-> "pop"]
Update(type, off, it) == [op |-> "update", type |-> type, off |-> off, items |-> <<it>>]

\* Bytes of a frame no command can be found in.
Garbage == [op |-> "garbage"]

Refused(stack) == [stack |-> stack, status |-> "refused"]
Done(stack)    == [stack |-> stack, status |-> "ok"]

\* The items go over those of the value, or behind them, but leave no gap.
Overwritten(value, off, items) ==
    SubSeq(value, 1, off) \o items \o SubSeq(value, off + Len(items) + 1, Len(value))

cmd_pop_stack(stack) == Done(IF stack = <<>> THEN stack ELSE Front(stack))

\* The value a push or a procedure leaves.
Null(type) == [type |-> type, items |-> <<>>]

cmd_push_stack(stack, type) == Done(Append(stack, Null(type)))

cmd_update_stack_top(stack, c) ==
    IF stack = <<>> \/ Last(stack).type # c.type \/ c.off > Len(Last(stack).items)
    THEN Refused(stack)
    ELSE Done([stack EXCEPT ![Len(stack)].items = Overwritten(@, c.off, c.items)])

Applied(stack, c) ==
    CASE c.op = "push"   -> cmd_push_stack(stack, c.type)
      [] c.op = "pop"    -> cmd_pop_stack(stack)
      [] c.op = "update" -> cmd_update_stack_top(stack, c)

\* The commands of a frame, up to the first one that is refused.
AppliedNext(r, c) == IF r.status = "ok" THEN Applied(r.stack, c) ELSE r

cmd_update_stack(stack, frame) ==
    LET upTo[n \in 0 .. Len(frame)] == IF n = 0 THEN Done(stack) ELSE AppliedNext(upTo[n - 1], frame[n])
    IN upTo[Len(frame)]

-----------------------------------------------------------------------------
(* The frame of the client. *)

CommandSize(c) == IF c.op = "update" THEN 1 + Len(c.items) ELSE 2
FrameSize(f)   == LET upTo[n \in 0 .. Len(f)] == IF n = 0 THEN 0 ELSE upTo[n - 1] + CommandSize(f[n])
                  IN upTo[Len(f)]
HasRoom(c)     == CommandSize(c) + FrameSize(client.frame) <= Room

\* LAST_UPDATE_OFF: the command that starts there is an update.
IsUpdate(h, i) == i <= Len(h.frame) /\ h.frame[i].op = "update"

GoesOn(prev, c) == prev.op = "update" /\ prev.type = c.type /\ prev.off + Len(prev.items) = c.off

Longer(prev, c) == [prev EXCEPT !.items = @ \o c.items]

\* Mutant: an update of the same value is merged wherever it goes.
MergesTextAnywhere(h, c) ==
    c.type = "text" /\ IsUpdate(h, h.last) /\ h.frame[1].op = "update" /\ h.frame[1].type = "text"

\* stack_top_text_update looks for an update at LAST_UPDATE_OFF, but for its
\* text at the start of the frame, and ends the frame behind it.
MergesText(h, c) == c.type = "text" /\ IsUpdate(h, h.last) /\ GoesOn(h.frame[1], c)

\* stack_top_array_basic_update counts the element in the update at
\* LAST_UPDATE_OFF and puts it at the end of the frame.
MergesArray(h, c) == c.type = "array" /\ IsUpdate(h, h.last) /\ GoesOn(h.frame[h.last], c)

MergedText(h, c)  == IF h.last = 1 THEN <<Longer(h.frame[1], c)>> ELSE <<Garbage>>
MergedArray(h, c) == IF h.last = Len(h.frame) THEN [h.frame EXCEPT ![h.last] = Longer(@, c)] ELSE <<Garbage>>

\* The frame a call starts with, which takes the place of an answer.
Begun(h) == IF h.building THEN h ELSE [h EXCEPT !.frame = <<>>, !.data = Nothing, !.list.left = <<>>]

\* The handle with one more command in its frame.  A push and a pop clear
\* cmdInternal, and with it LAST_UPDATE_OFF and the list of globals.
Added(h, c) ==
    IF c.op # "update"
    THEN [h EXCEPT !.frame = Append(@, c), !.last = 1, !.list = NoList, !.building = TRUE]
    ELSE IF MergesText(h, c) THEN [h EXCEPT !.frame = MergedText(h, c), !.building = TRUE]
    ELSE IF MergesArray(h, c) THEN [h EXCEPT !.frame = MergedArray(h, c), !.building = TRUE]
    ELSE [h EXCEPT !.frame = Append(@, c), !.last = Len(h.frame) + 1, !.building = TRUE]

MergesWrong(h, c) ==
    /\ c.op = "update"
    /\ \/ MergesText(h, c) /\ Len(h.frame) > 1
       \/ MergesArray(h, c) /\ h.last # Len(h.frame)

\* The handle and the histories take a command.
Add(h, c, before) ==
    /\ client' = Added(h, c)
    /\ garbled' = (garbled \/ MergesWrong(h, c))
    /\ asked' = IF garbled' THEN <<>> ELSE Append(before, c)
    /\ fetched' = <<>>

-----------------------------------------------------------------------------
(* The calls of the client. *)

NewHandle == [open |-> TRUE, id |-> 0, building |-> FALSE, frame |-> <<>>, last |-> 1,
              lastRsp |-> "none", data |-> Nothing, list |-> NoList]

Session(up) == [up |-> up, id |-> 0, stack |-> <<>>]

Init ==
    /\ client = NewHandle
    /\ waits = NoCall
    /\ wire = <<>>
    /\ server = Session(TRUE)
    /\ asked = <<>> /\ garbled = FALSE /\ fetched = <<>>

Idle == client.open /\ waits = NoCall

\* send_command; the frame's number is the expected one, which goes up.  The
\* request takes the place of the names that were in the frame.
Send(cmd, body, then) ==
    /\ wire' = <<[way |-> "request", id |-> client.id, cmd |-> cmd, body |-> body]>>
    /\ waits' = [cmd |-> cmd, then |-> then]
    /\ client' = [client EXCEPT !.id = Next1(@), !.building = FALSE, !.frame = <<>>, !.list.left = <<>>]
    /\ fetched' = IF cmd = "list" /\ then # <<>> THEN fetched ELSE <<>>
    /\ UNCHANGED <<server, garbled>>

\* WPushValue, WPopValues and WUpdateValue: the command goes into the frame,
\* after a flush when there is no room for it.
StackCall(c) ==
    /\ Idle
    /\ CommandSize(c) <= Room
    /\ IF ~client.building \/ HasRoom(c)
       THEN Add(Begun(client), c, asked) /\ UNCHANGED <<waits, wire, server>>
       ELSE Send("update", client.frame, <<c>>) /\ UNCHANGED asked

WPushValue(type) ==
    /\ Len(cmd_update_stack(server.stack, asked).stack) < MaxDepth
    /\ StackCall(Push(type))

WPopValues == StackCall(Pop)

WUpdateValue(type, off, it) == StackCall(Update(type, off, it))

WFlush ==
    /\ Idle /\ client.building
    /\ \/ /\ client.frame # <<>>
          /\ Send("update", client.frame, <<>>)
          /\ UNCHANGED asked
       \/ /\ client.frame = <<>>
          /\ client' = [client EXCEPT !.building = FALSE]
          /\ UNCHANGED <<waits, wire, server, asked, garbled, fetched>>

\* The calls below are refused while commands are in the frame.
Call(cmd, body) == Idle /\ ~client.building /\ Send(cmd, body, <<>>) /\ UNCHANGED asked

WPingServer == Call("ping", Nothing)

\* WExecuteProcedure flushes first; the caller may do that as well.
WExecuteProcedure == Call("execute", Nothing)

\* WValueEntry asks the server unless the last answer has the value.
HasValue == client.lastRsp = "read" /\ client.data # Nothing

WValueEntry == ~HasValue /\ Call("read", Nothing)

WStartGlobalsList == Call("list", 0)

\* WFetchGlobal takes the next name from the answer, or asks for more; with
\* other bytes in the frame it gives up.
WFetchGlobal ==
    LET list == client.list IN
    /\ Idle /\ client.lastRsp = "list" /\ list.valid
    /\ \/ /\ client.building
          /\ client' = [client EXCEPT !.lastRsp = "none"]
          /\ UNCHANGED <<waits, wire, server, asked, garbled, fetched>>
       \/ /\ ~client.building /\ list.index < list.count /\ list.left # <<>>
          /\ fetched' = Append(fetched, Head(list.left))
          /\ client' = [client EXCEPT !.list.index = @ + 1, !.list.left = Tail(@)]
          /\ UNCHANGED <<waits, wire, server, asked, garbled>>
       \/ /\ ~client.building /\ list.index < list.count /\ list.left = <<>>
          /\ Send("list", list.index, <<"fetch">>)
          /\ UNCHANGED asked

\* The end of a handle; WConnect makes another one, whose session begins with
\* an authentication that may fail.
WClose ==
    /\ Idle
    /\ wire' = <<[way |-> "request", id |-> client.id, cmd |-> "close", body |-> Nothing]>>
    /\ client' = [client EXCEPT !.open = FALSE]
    /\ UNCHANGED <<waits, server, asked, garbled, fetched>>

WConnect ==
    /\ ~server.up /\ waits = NoCall
    /\ client' = NewHandle
    /\ \E accepted \in BOOLEAN : server' = Session(accepted)
    /\ wire' = <<>> /\ asked' = <<>> /\ garbled' = FALSE /\ fetched' = <<>>
    /\ UNCHANGED waits

-----------------------------------------------------------------------------
(* The answers reach the client. *)

IsRequest == wire # <<>> /\ Head(wire).way = "request"
IsAnswer  == wire # <<>> /\ Head(wire).way = "answer"

\* Mutant: only another value or list takes the place of the one that is kept.
AnsweredKeeping(h, cmd) == IF cmd \in {"list", "read"} THEN [h EXCEPT !.lastRsp = cmd, !.data = Nothing] ELSE h

\* recieve_answer: the call is over, and lastCmdRespReceived tells what the
\* answer was for (only lists and values are looked at again).
Answered(h, cmd) == [h EXCEPT !.lastRsp = IF cmd \in {"list", "read"} THEN cmd ELSE "none", !.data = Nothing]

\* WUpdateValue begins a frame even when the flush it needed has failed.
BuildsOn(then) == then # <<>> /\ Head(then).op = "update"

Receive ==
    /\ waits # NoCall /\ IsAnswer
    /\ wire' = <<>> /\ waits' = NoCall
    /\ UNCHANGED server
    /\ LET answer == Head(wire)
           h      == Answered(client, answer.cmd)
       IN IF answer.id # client.id \/ answer.cmd # waits.cmd
          THEN /\ client' = [client EXCEPT !.open = FALSE, !.lastRsp = "none"]
               /\ UNCHANGED <<asked, garbled, fetched>>
          ELSE \/ /\ answer.cmd = "update" /\ (answer.status # "ok" \/ waits.then = <<>>)
                  /\ client' = [h EXCEPT !.last = 1, !.list = NoList, !.building = BuildsOn(waits.then)]
                  /\ asked' = <<>> /\ garbled' = FALSE
                  /\ UNCHANGED fetched
               \/ /\ answer.cmd = "update" /\ answer.status = "ok" /\ waits.then # <<>>
                  /\ client' = Added([h EXCEPT !.last = 1, !.list = NoList], Head(waits.then))
                  /\ asked' = waits.then /\ garbled' = FALSE
                  /\ UNCHANGED fetched
               \/ /\ answer.cmd = "list"
                  /\ IF answer.status # "ok"
                     THEN client' = [h EXCEPT !.lastRsp = "none"] /\ UNCHANGED fetched
                     ELSE IF waits.then = <<>> \/ answer.body.left = <<>>
                     THEN client' = [h EXCEPT !.list = answer.body] /\ UNCHANGED fetched
                     ELSE /\ client' = [h EXCEPT !.list = [answer.body EXCEPT !.index = @ + 1, !.left = Tail(@)]]
                          /\ fetched' = Append(fetched, Head(answer.body.left))
                  /\ UNCHANGED <<asked, garbled>>
               \/ /\ answer.cmd = "read"
                  /\ client' = [h EXCEPT !.data = answer.body, !.list = NoList]
                  /\ UNCHANGED <<asked, garbled, fetched>>
               \/ /\ answer.cmd \in {"ping", "execute"}
                  /\ client' = h
                  /\ UNCHANGED <<asked, garbled, fetched>>

\* Mutant: a connection is found gone when there is something to send only.
DroppedOnSend ==
    /\ waits # NoCall /\ ~server.up /\ IsRequest
    /\ waits' = NoCall /\ wire' = <<>> /\ asked' = <<>> /\ garbled' = FALSE
    /\ UNCHANGED <<client, server, fetched>>

\* The connection is gone: WCS_DROPPED, and the handle is as it was sent.
Dropped ==
    /\ waits # NoCall /\ ~server.up /\ ~IsAnswer
    /\ waits' = NoCall /\ wire' = <<>>
    /\ client' = CASE waits.cmd = "list"   -> [client EXCEPT !.lastRsp = "none"]
                   [] waits.cmd = "update" -> [client EXCEPT !.building = BuildsOn(waits.then)]
                   [] OTHER                -> client
    /\ asked' = <<>> /\ garbled' = FALSE
    /\ UNCHANGED <<server, fetched>>

-----------------------------------------------------------------------------
(* The session. *)

SessionEnds == server.up /\ server' = Session(FALSE)

\* SendCmdResponse: the next frame number for the answer and what follows it.
Answer(cmd, status, body, stack) ==
    /\ server' = [server EXCEPT !.id = Next1(@), !.stack = stack]
    /\ wire' = <<[way |-> "answer", id |-> Next1(server.id), cmd |-> cmd, status |-> status, body |-> body]>>

\* cmd_list_globals: the names from the hint on, as many as there is room for.
Names(hint) ==
    [index |-> hint, count |-> Globals, valid |-> TRUE,
     left |-> [i \in 1 .. (IF Globals - hint < NamesPerFrame THEN Globals - hint ELSE NamesPerFrame) |-> hint + i]]

\* Where a procedure leaves the stack: without its parameters, with its result.
Executed(stack) ==
    {stack} \cup { Append(s, Null(t)) : s \in {stack, IF stack = <<>> THEN stack ELSE Front(stack)}, t \in Types }

HandleCommand ==
    LET request == Head(wire) IN
    /\ server.up /\ IsRequest
    /\ UNCHANGED <<client, waits, asked, garbled, fetched>>
    /\ \/ /\ \/ request.id # server.id \/ request.cmd = "close"
             \/ request.cmd = "update" /\ Garbage \in ToSet(request.body)
          /\ SessionEnds /\ wire' = <<>>
       \/ /\ request.id = server.id
          /\ \/ /\ request.cmd = "update" /\ Garbage \notin ToSet(request.body)
                /\ LET r == cmd_update_stack(server.stack, request.body)
                   IN Answer("update", r.status, Nothing, r.stack)
             \/ /\ request.cmd = "execute"
                /\ \E stack \in Executed(server.stack) :
                     /\ Len(stack) <= MaxDepth
                     /\ Answer("execute", "ok", Nothing, stack)
             \/ /\ request.cmd = "read"
                /\ LET has == server.stack # <<>>
                   IN Answer("read", IF has THEN "ok" ELSE "refused",
                             IF has THEN <<Last(server.stack)>> ELSE Nothing, server.stack)
             \/ /\ request.cmd = "list"
                /\ IF Globals > 0 /\ request.body >= Globals
                   THEN Answer("list", "refused", NoList, server.stack)
                   ELSE Answer("list", "ok", Names(request.body), server.stack)
             \/ /\ request.cmd = "ping"
                /\ Answer("ping", "ok", Nothing, server.stack)

\* ReqTmoCloseTick, StopServer or an exception.
SessionFails ==
    /\ SessionEnds
    /\ wire' = IF IsRequest THEN <<>> ELSE wire
    /\ UNCHANGED <<client, waits, asked, garbled, fetched>>

-----------------------------------------------------------------------------
Next ==
    \/ \E type \in Types : WPushValue(type)
    \/ WPopValues
    \/ \E type \in Types, off \in 0 .. MaxItems - 1, it \in Items : WUpdateValue(type, off, it)
    \/ WFlush \/ WPingServer \/ WExecuteProcedure \/ WValueEntry
    \/ WStartGlobalsList \/ WFetchGlobal
    \/ WClose \/ WConnect
    \/ Receive \/ Dropped
    \/ HandleCommand \/ SessionFails

\* The client's thread waits in recieve_answer, the session's thread reads
\* and answers: both go on when they can.
Spec == Init /\ [][Next]_vars /\ WF_vars(Receive \/ Dropped \/ HandleCommand)

-----------------------------------------------------------------------------
(* Properties. *)

\* The commands that are not applied yet.
Pending == IF IsRequest /\ Head(wire).cmd = "update" THEN Head(wire).body
           ELSE IF client.building THEN client.frame ELSE <<>>

\* What is in the frame, however it was merged, makes of the session's stack
\* what the calls asked for, one after the other, up to the first that the
\* server refuses; it fits the frame, too.  That is so until an update is
\* merged into a command that is not the last one of the frame.
UpdatesInOrder ==
    server.up /\ ~garbled /\ client.open /\ (IsAnswer => Head(wire).cmd # "update") =>
        /\ cmd_update_stack(server.stack, Pending) = cmd_update_stack(server.stack, asked)
        /\ FrameSize(Pending) <= Room

\* The value the last answer left with the client is the one on top of the
\* stack, and the names fetched since the list was started are the first ones,
\* each once, whatever was called in between; client and server count frames
\* alike, so that no answer is refused.
AnswersAreCurrent ==
    /\ server.up /\ Idle /\ ~client.building /\ HasValue =>
          server.stack # <<>> /\ client.data = <<Last(server.stack)>>
    /\ fetched = [i \in 1 .. Len(fetched) |-> i]
    /\ server.up /\ Idle => client.id = server.id

\* Every call returns, with its answer or when the connection is gone.
CallReturns == (waits # NoCall) ~> (waits = NoCall)
=============================================================================
