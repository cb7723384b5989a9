------------------------------- MODULE Server -------------------------------
(***************************************************************************)
(* The language server (crates/increparse-lsp/src/server.rs): the message   *)
(* loop, the store of open documents and the diagnostics the client shows,  *)
(* over stdio, with the reader and the writer thread of lsp-server at each  *)
(* end and a client that says what it likes and may leave at any time.      *)
(*                                                                         *)
(* The contents of a document are the changes that made it, in order, and    *)
(* its diagnostics are its contents: Document and Engine have the rest.      *)
(***************************************************************************)
EXTENDS Integers, Sequences

CONSTANTS
  Uri,           \* Documents.
  Method,        \* Requests, "shutdown" aside,
  Supported,     \* and those the language supports.
  MaxMessages,   \* Bounds: the messages the client sends, shutdown and exit
  PipeSize       \* aside, and those a pipe holds.

ASSUME MethodAssumption == Supported \subseteq Method /\ "shutdown" \notin Method
ASSUME BoundsAssumption == MaxMessages \in Nat /\ PipeSize \in Nat \ {0}

VARIABLES
  client,     \* "here", "leaving" (it sent exit) or "gone" (it closed its end).
  mirror,     \* What each document is for the client: contents or Closed.
  shown,      \* The diagnostics it shows.
  asked,      \* The requests it made, in order, and the answers it got.
  answered,
  messages,   \* Bounded counter: messages sent.
  inbox,      \* Pipe to the server,
  reader,     \* the message its reader thread hands over (at most one),
  server,     \* "loop", "shutdown" (awaits exit), "joining", "done", "failed",
  docs,       \* the documents it keeps,
  outgoing,   \* the message it hands to the writer thread (at most one),
  writer,     \* the message that thread writes (at most one),
  outbox,     \* and the pipe to the client.
  ended       \* Threads that ended.

clientVars == <<client, mirror, shown, asked, answered, messages>>
serverVars == <<server, docs, outgoing>>
ioVars     == <<inbox, reader, writer, outbox, ended>>
vars       == <<clientVars, serverVars, ioVars>>

Closed == <<>>   \* An open document holds at least the text it was opened with.

ShutdownId == MaxMessages   \* Other requests are numbered below.

Init ==
  /\ client = "here" /\ messages = 0 /\ asked = <<>> /\ answered = <<>>
  /\ mirror = [uri \in Uri |-> Closed] /\ shown = [uri \in Uri |-> Closed]
  /\ inbox = <<>> /\ reader = <<>> /\ writer = <<>> /\ outbox = <<>> /\ ended = {}
  /\ server = "loop" /\ docs = [uri \in Uri |-> Closed] /\ outgoing = <<>>

----------------------------------------------------------------------------
(* Messages. A request is known by its number; "ok": its parameters parse. A *)
(* didOpen, didChange or didClose whose parameters do not is "malformed".    *)

Request(method, id, ok) ==
  [kind |-> "request", method |-> method, id |-> id, ok |-> ok]

Notification(kind, uri, stamp) == [kind |-> kind, uri |-> uri, stamp |-> stamp]

Response(id) == [kind |-> "response", id |-> id]

Diagnostics(uri, contents) ==
  [kind |-> "diagnostics", uri |-> uri, contents |-> contents]

(* A document after a notification about it: a change to a document that is *)
(* not open means nothing.                                                 *)
After(contents, m) ==
  CASE m.kind = "didOpen"                          -> <<m.stamp>>
    [] m.kind = "didClose"                         -> Closed
    [] m.kind = "didChange" /\ contents # Closed   -> Append(contents, m.stamp)
    [] OTHER                                       -> contents

----------------------------------------------------------------------------
(* The client.                                                             *)

Send(m) ==
  /\ client = "here" /\ Len(inbox) < PipeSize
  /\ inbox' = Append(inbox, m)
  /\ UNCHANGED <<shown, answered, serverVars, reader, writer, outbox, ended>>

Ask(method, ok) ==
  /\ messages < MaxMessages /\ messages' = messages + 1
  /\ ok \/ method \in Supported   \* Nobody parses the others.
  /\ Send(Request(method, messages, ok))
  /\ asked' = Append(asked, messages)
  /\ UNCHANGED <<client, mirror>>

Notify(kind, uri) ==
  /\ messages < MaxMessages /\ messages' = messages + 1
  /\ LET m == Notification(kind, uri, messages) IN
       /\ Send(m)
       /\ mirror' = [mirror EXCEPT ![uri] = After(@, m)]
  /\ UNCHANGED <<client, asked>>

Babble(kind) ==
  /\ messages < MaxMessages /\ messages' = messages + 1
  /\ Send([kind |-> kind])
  /\ UNCHANGED <<client, mirror, asked>>

AskShutdown ==
  /\ ShutdownId \notin {asked[i] : i \in 1 .. Len(asked)}
  /\ Send(Request("shutdown", ShutdownId, TRUE))
  /\ asked' = Append(asked, ShutdownId)
  /\ UNCHANGED <<client, mirror, messages>>

Exit ==
  /\ Send([kind |-> "exit"])
  /\ client' = "leaving"
  /\ UNCHANGED <<mirror, asked, messages>>

ClientReceive ==
  /\ client # "gone" /\ outbox # <<>>
  /\ LET m == Head(outbox) IN
       IF m.kind = "response"
       THEN answered' = Append(answered, m.id) /\ UNCHANGED shown
       ELSE shown' = [shown EXCEPT ![m.uri] = m.contents] /\ UNCHANGED answered
  /\ outbox' = Tail(outbox)
  /\ UNCHANGED <<client, mirror, asked, messages, serverVars, inbox, reader, writer, ended>>

(* The client, or the editor that runs it, dies.                           *)
Vanish ==
  /\ client # "gone" /\ client' = "gone"
  /\ outbox' = <<>>
  /\ UNCHANGED <<mirror, shown, asked, answered, messages, serverVars,
                 inbox, reader, writer, ended>>

----------------------------------------------------------------------------
(* The threads of lsp-server, until the process ends. The reader ends after  *)
(* exit or at the end of the input; the writer when nobody can send any more *)
(* (the slip: serve_on only borrows the connection) or the client is gone.   *)
Alive == server \notin {"done", "failed"}

DroppedAfterJoin == ~Alive

ConnectionDropped == server = "joining"

ReadMessage ==
  /\ Alive /\ "reader" \notin ended
  /\ reader = <<>> /\ inbox # <<>>
  /\ reader' = <<Head(inbox)>> /\ inbox' = Tail(inbox)
  /\ UNCHANGED <<clientVars, serverVars, writer, outbox, ended>>

ReaderEnds ==
  /\ Alive /\ "reader" \notin ended
  /\ reader = <<>> /\ inbox = <<>> /\ client = "gone"
  /\ ended' = ended \union {"reader"}
  /\ UNCHANGED <<clientVars, serverVars, inbox, reader, writer, outbox>>

TakeMessage ==
  /\ Alive /\ "writer" \notin ended
  /\ writer = <<>> /\ outgoing # <<>>
  /\ writer' = outgoing /\ outgoing' = <<>>
  /\ UNCHANGED <<clientVars, server, docs, inbox, reader, outbox, ended>>

WriteMessage ==
  /\ Alive /\ writer # <<>> /\ client # "gone" /\ Len(outbox) < PipeSize
  /\ outbox' = outbox \o writer /\ writer' = <<>>
  /\ UNCHANGED <<clientVars, serverVars, inbox, reader, ended>>

WriterEnds ==
  /\ Alive /\ "writer" \notin ended
  /\ \/ writer = <<>> /\ outgoing = <<>> /\ ConnectionDropped
     \/ writer # <<>> /\ client = "gone"
  /\ ended' = ended \union {"writer"} /\ writer' = <<>>
  /\ UNCHANGED <<clientVars, serverVars, inbox, reader, outbox>>

----------------------------------------------------------------------------
(* run_loop. A handler sends at most one message, last; the next message is  *)
(* read when the writer has taken it.                                      *)

Message == Head(reader)

Receive(from) ==
  /\ server = from /\ outgoing = <<>> /\ reader # <<>>
  /\ reader' = <<>>
  /\ ended' = IF Message.kind = "exit" THEN ended \union {"reader"} ELSE ended
  /\ UNCHANGED <<clientVars, inbox, writer, outbox>>

(* handle_shutdown answers, then waits for exit; a request nobody handles    *)
(* is refused (the slip: passed over). Parameters that do not parse, where   *)
(* they are looked at, end the loop with an error.                          *)
AnswerIfSupported(m) == IF m.method \in Supported THEN <<Response(m.id)>> ELSE <<>>

Answer(m) == <<Response(m.id)>>

Shutdown ==
  /\ Receive("loop") /\ Message.kind = "request" /\ Message.method = "shutdown"
  /\ server' = "shutdown" /\ outgoing' = Answer(Message)
  /\ UNCHANGED docs

HandleRequest ==
  /\ Receive("loop") /\ Message.kind = "request" /\ Message.method # "shutdown"
  /\ Message.ok
  /\ outgoing' = Answer(Message)
  /\ UNCHANGED <<server, docs>>

HandleMalformed ==
  /\ Receive("loop")
  /\ Message.kind = "malformed" \/ (Message.kind = "request" /\ ~Message.ok)
  /\ server' = "failed"
  /\ UNCHANGED <<docs, outgoing>>

(* didOpen, didChange, didClose: the store, then what the client is told     *)
(* (the slips: a close only forgets; parse and lint diagnostics apart).     *)
PublishIfKept(m, contents) ==
  IF contents = Closed THEN <<>> ELSE <<Diagnostics(m.uri, contents)>>

PublishTwice(m, contents) ==
  [part \in 1 .. 2 |-> Diagnostics(m.uri, contents)]

Publish(m, contents) ==
  IF m.kind = "didChange" /\ contents = Closed
  THEN <<>> ELSE <<Diagnostics(m.uri, contents)>>

HandleDocument ==
  /\ Receive("loop") /\ Message.kind \in {"didOpen", "didChange", "didClose"}
  /\ docs' = [docs EXCEPT ![Message.uri] = After(@, Message)]
  /\ outgoing' = Publish(Message, docs'[Message.uri])
  /\ UNCHANGED server

(* Notifications of other kinds, exit among them, and responses.            *)
HandleOther ==
  /\ Receive("loop") /\ Message.kind \in {"exit", "other"}
  /\ UNCHANGED serverVars

(* The wait of handle_shutdown, at most 30 seconds.                         *)
AwaitExit ==
  /\ Receive("shutdown")
  /\ server' = IF Message.kind = "exit" THEN "joining" ELSE "failed"
  /\ UNCHANGED <<docs, outgoing>>

TimeOut ==
  /\ server = "shutdown" /\ outgoing = <<>> /\ reader = <<>>
  /\ server' = "failed"
  /\ UNCHANGED <<clientVars, docs, outgoing, ioVars>>

(* The receiver is disconnected: the loop ends as after exit.               *)
LoopEnds ==
  /\ server = "loop" /\ outgoing = <<>> /\ reader = <<>> /\ "reader" \in ended
  /\ server' = "joining"
  /\ UNCHANGED <<clientVars, docs, outgoing, ioVars>>

(* Nobody takes the message; only handle_shutdown does not care.            *)
SendFails ==
  /\ outgoing # <<>> /\ "writer" \in ended
  /\ server' = IF server = "shutdown" THEN server ELSE "failed"
  /\ outgoing' = <<>>
  /\ UNCHANGED <<clientVars, docs, ioVars>>

(* serve: io_threads.join() (the slip: of the reader alone).                *)
JoinReader ==
  /\ server = "joining" /\ "reader" \in ended
  /\ server' = "done"
  /\ UNCHANGED <<clientVars, docs, outgoing, ioVars>>

Join ==
  /\ server = "joining" /\ ended = {"reader", "writer"}
  /\ server' = "done"
  /\ UNCHANGED <<clientVars, docs, outgoing, ioVars>>

----------------------------------------------------------------------------

MainThread ==
  \/ Shutdown \/ HandleRequest \/ HandleDocument \/ HandleOther \/ HandleMalformed
  \/ AwaitExit \/ TimeOut \/ LoopEnds \/ SendFails \/ Join

Next ==
  \/ \E method \in Method, ok \in BOOLEAN : Ask(method, ok)
  \/ \E kind \in {"didOpen", "didChange", "didClose"}, uri \in Uri : Notify(kind, uri)
  \/ \E kind \in {"other", "malformed"} : Babble(kind)
  \/ AskShutdown \/ Exit \/ ClientReceive \/ Vanish
  \/ ReadMessage \/ ReaderEnds \/ TakeMessage \/ WriteMessage \/ WriterEnds
  \/ MainThread

(* Every thread runs on, a wait of 30 seconds ends, and a client that is     *)
(* there reads what it is sent.                                            *)
Fairness ==
  /\ WF_vars(MainThread)
  /\ WF_vars(ReadMessage \/ ReaderEnds)
  /\ WF_vars(TakeMessage \/ WriteMessage \/ WriterEnds)
  /\ WF_vars(ClientReceive)

Spec == Init /\ [][Next]_vars /\ Fairness

----------------------------------------------------------------------------
(* Messages on their way from the server and to it, oldest first.           *)
FromServer == outbox \o writer \o outgoing

ToServer == reader \o inbox

IdOf(m) == IF m.kind \in {"request", "response"} THEN <<m.id>> ELSE <<>>

Ids(s) ==
  LET upTo[n \in 0 .. Len(s)] == IF n = 0 THEN <<>> ELSE upTo[n - 1] \o IdOf(s[n])
  IN  upTo[Len(s)]

(* What the messages are, in each direction.                                *)
Id == 0 .. MaxMessages
Contents == Seq(Id)
Document == {"didOpen", "didChange", "didClose"}

AnyRequest ==
  [kind : {"request"}, method : Method \union {"shutdown"}, id : Id, ok : BOOLEAN]
AnyNotification == [kind : Document, uri : Uri, stamp : Id]
AnythingElse == [kind : {"other", "malformed", "exit"}]

FromClient == AnyRequest \union AnyNotification \union AnythingElse
ForClient == [kind : {"response"}, id : Id] \union
             [kind : {"diagnostics"}, uri : Uri, contents : Contents]

(* What the client knows and the server keeps has its type, and the message  *)
(* at every place on its way is one of the protocol's, about a document or a *)
(* request there is; pipes and hand-overs hold what they can.                *)
TypeOK ==
  /\ client \in {"here", "leaving", "gone"}
  /\ server \in {"loop", "shutdown", "joining", "done", "failed"}
  /\ {mirror, shown, docs} \subseteq [Uri -> Contents]
  /\ {asked, answered} \subseteq Seq(Id)
  /\ messages \in Id
  /\ {inbox, reader} \subseteq Seq(FromClient)
  /\ {outgoing, writer, outbox} \subseteq Seq(ForClient)
  /\ Len(inbox) <= PipeSize /\ Len(outbox) <= PipeSize
  /\ Len(reader) <= 1 /\ Len(writer) <= 1 /\ Len(outgoing) <= 1
  /\ ended \subseteq {"reader", "writer"}

(* Every request is answered exactly once, supported or not, in the order    *)
(* they were made: the answers the client has, those on their way and the    *)
(* requests still to be handled are the requests it made.                   *)
EachRequestAnsweredOnce ==
  Alive /\ client # "gone" =>
    answered \o Ids(FromServer \o ToServer) = asked

(* When nothing is on its way the client shows the diagnostics of what each  *)
(* document is for it now, and none for a document it closed, whatever it    *)
(* opened twice, changed before opening or closed in between.               *)
ShownWhatIsOpen ==
  server \in {"loop", "done"} /\ client # "gone" /\ FromServer = <<>> /\ ToServer = <<>>
    => shown = mirror

(* A client that says exit, or goes away, ends the server: no thread waits   *)
(* for another for ever ("shutdown unable to deadlock", server.rs).         *)
ServeReturns == client # "here" ~> server \in {"done", "failed"}

(* A request is answered even if exit follows at once: the writer is joined  *)
(* after it wrote everything. Only a server that failed owes nothing.        *)
AnswersArrive ==
  \A id \in 0 .. ShutdownId :
    (\E i \in 1 .. Len(asked) : asked[i] = id) ~>
      \/ \E i \in 1 .. Len(answered) : answered[i] = id
      \/ server = "failed" \/ client = "gone"

============================================================================
