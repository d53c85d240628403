----------------------------- MODULE LiveLink -----------------------------
(***************************************************************************)
(* The link between one live voice client and the gateway                  *)
(* (realtime-gateway.ts, with app.js and RealtimeVoiceSession.kt as the    *)
(* clients): sockets that open and die, sessions that a reconnecting       *)
(* client resumes with a token, numbered server messages that are buffered *)
(* while the socket is not open, the grace timer, and the upstream model   *)
(* connection a session owns, which the gateway replaces on goAway.        *)
(*                                                                         *)
(* A step runs from one callback of the gateway, the client or the network *)
(* to its next await.  The socket of a session dies silently: the client   *)
(* and the gateway each notice when their own close event comes, and what  *)
(* was in flight is lost.                                                  *)
(*                                                                         *)
(* Bounds: MaxSocket connections, MaxSession sessions, MaxSeq messages of  *)
(* the model per session, BufferCap buffered messages (500 in the code),   *)
(* MaxGoAway upstream replacements per session.                            *)
(***************************************************************************)
EXTENDS Naturals, Sequences, SequencesExt, FiniteSets

CONSTANTS MaxSocket, MaxSession, MaxSeq, BufferCap, MaxGoAway,
          Client       \* "web" (app.js) or "android" (RealtimeVoiceSession.kt)

ASSUME BoundsAssumption ==
  /\ {MaxSocket, MaxSession, BufferCap} \subseteq Nat \ {0}
  /\ {MaxSeq, MaxGoAway} \subseteq Nat
ASSUME ClientAssumption == Client \in {"web", "android"}

VARIABLES
  sessions,   \* the gateway's ActiveSession objects, by number
  nextSession,
  ready,     \* the gateway's view of each socket
  watched,   \* sockets that got their close handler while still open
  down,      \* messages in flight to the client, per socket
  hello,     \* the first message of the client, in flight
  cut,       \* sockets whose connection is gone
  client,    \* what the client remembers, and the socket it uses
  copies,    \* history: how often each message reached the client
  lost       \* history: messages handed to a connection that died

linkVars == <<sessions, nextSession, ready, watched, down, hello, cut, client, copies, lost>>

Socket == 1 .. MaxSocket
Session == 1 .. MaxSession
Nil == 0

(* Every session sends at most MaxSeq model messages, and two more for     *)
(* each announcement, one for each resume and one for each goAway.         *)
LastSeq == MaxSeq + 3 * (1 + MaxGoAway) + MaxSocket
Message == [kind : {"start", "text", "audio"}, sess : Session, seq : 1 .. LastSeq, token : Nat]

(* A session in activeSessions is `live`.  `starter` is the socket the     *)
(* running startNewSession captured; `up` the state of its connect.        *)
(* History: a session is `strayed' once it was resumed with a number that  *)
(* counts another session's messages, `untold' once the end of its         *)
(* upstream was told to a socket that its client had left.                 *)
Fresh == [live |-> FALSE, ws |-> Nil, starter |-> Nil, configured |-> FALSE,
          token |-> 0, seq |-> 0, buf |-> <<>>, grace |-> FALSE,
          up |-> "none", setup |-> FALSE, clientReady |-> FALSE, startSent |-> FALSE,
          said |-> 0, goAways |-> 0, strayed |-> FALSE, untold |-> FALSE]

NoHello == [type |-> "none"]
FirstHello == [type |-> IF Client = "web" THEN "configure" ELSE "audio"]

LinkInit ==
  /\ sessions = [s \in Session |-> Fresh]
  /\ nextSession = 1
  /\ ready = [k \in Socket |-> "none"]
  /\ watched = {}
  /\ down = [k \in Socket |-> <<>>]
  /\ hello = [k \in Socket |-> NoHello]
  /\ cut = {}
  /\ client = [sock |-> Nil, sess |-> Nil, token |-> 0, last |-> 0, of |-> Nil]
  /\ copies = [s \in Session |-> [n \in 1 .. LastSeq |-> 0]]
  /\ lost = {}

-----------------------------------------------------------------------------
(* Sending to the client                                                   *)

Seqs(msgs) == {<<m.sess, m.seq>> : m \in ToSet(msgs)}

Numbered(s, r, kinds) ==
  [i \in DOMAIN kinds |-> [kind |-> kinds[i], sess |-> s, seq |-> r.seq + i, token |-> r.token]]

(* The buffer of a session whose socket is not open drops its oldest.      *)
Capped(buf) == IF Len(buf) > BufferCap THEN SubSeq(buf, Len(buf) - BufferCap + 1, Len(buf)) ELSE buf

(* What ws.send does with messages: they are in flight, or, on a dead      *)
(* connection the gateway still believes open, gone.                       *)
OnWire(k, msgs) ==
  /\ down' = [down EXCEPT ![k] = IF k \in cut THEN @ ELSE @ \o msgs]
  /\ lost' = lost \union (IF k \in cut THEN Seqs(msgs) ELSE {})

(* sendToClient for each of `kinds`, from session s with fields r.         *)
SendToClient(s, r, kinds) ==
  LET msgs == Numbered(s, r, kinds)
      sent == [r EXCEPT !.seq = @ + Len(kinds)]
  IN IF ready[r.ws] = "open"
       THEN /\ sessions' = [sessions EXCEPT ![s] = sent]
            /\ OnWire(r.ws, msgs)
       ELSE LET all == r.buf \o msgs
            IN /\ sessions' = [sessions EXCEPT ![s] = [sent EXCEPT !.buf = Capped(all)]]
               /\ lost' = lost \union (Seqs(all) \ Seqs(Capped(all)))
               /\ UNCHANGED down

(* sendLiveStartWhenReady: announce the session once both the model and    *)
(* the client handlers are ready.                                          *)
SendLiveStartWhenReady(s, r) ==
  IF r.setup /\ r.clientReady /\ ~r.startSent
    THEN SendToClient(s, [r EXCEPT !.startSent = TRUE], <<"text", "start">>)
    ELSE /\ sessions' = [sessions EXCEPT ![s] = r]
         /\ UNCHANGED <<down, lost>>

-----------------------------------------------------------------------------
(* The client                                                              *)

(* ensureLiveSocket / openWebSocket, and its onOpen message: reconnect     *)
(* when a session is known; otherwise the web client's workspace, or what   *)
(* the Android client happens to say first.                                *)
ClientOpens(k) ==
  /\ client.sock = Nil
  /\ ready[k] = "none"
  /\ \A j \in Socket : j < k => ready[j] # "none"
  /\ ready' = [ready EXCEPT ![k] = "fresh"]
  /\ client' = [client EXCEPT !.sock = k]
  /\ hello' = [hello EXCEPT ![k] =
       IF client.sess # Nil
         THEN [type |-> "reconnect", sess |-> client.sess, token |-> client.token,
                  last |-> client.last, of |-> client.of]
         ELSE FirstHello]
  /\ UNCHANGED <<sessions, nextSession, watched, down, cut, copies, lost>>

(* The message moves the number the client will resume from: the web       *)
(* client keeps the highest it saw; Android the last one, and does not     *)
(* count audio.                                                            *)
Counts(m) == IF Client = "web" THEN m.seq > client.last ELSE m.kind # "audio"

(* `of' is history: the session whose message `last' is the number of.     *)
Remembered(m) ==
  [client EXCEPT !.last = IF Counts(m) THEN m.seq ELSE @,
                 !.of = IF Counts(m) THEN m.sess ELSE @,
                 !.sess = IF m.kind = "start" THEN m.sess ELSE @,
                 !.token = IF m.kind = "start" THEN m.token ELSE @]

ClientReceives(k) ==
  /\ client.sock = k
  /\ down[k] # <<>>
  /\ LET m == Head(down[k])
     IN /\ client' = Remembered(m)
        /\ copies' = [copies EXCEPT ![m.sess][m.seq] = IF @ < 2 THEN @ + 1 ELSE @]
  /\ down' = [down EXCEPT ![k] = Tail(@)]
  /\ UNCHANGED <<sessions, nextSession, ready, watched, hello, cut, lost>>

(* The client's own close event; it opens another socket later, or never.  *)
ClientSeesClose(k) ==
  /\ client.sock = k
  /\ k \in cut \/ (ready[k] \in {"closing", "closed"} /\ down[k] = <<>>)
  /\ client' = [client EXCEPT !.sock = Nil]
  /\ cut' = cut \union {k}
  /\ UNCHANGED <<sessions, nextSession, ready, watched, down, hello, copies, lost>>

(* The network drops the connection, or the page or phone goes away.       *)
Cut(k) ==
  /\ ready[k] \in {"fresh", "open"}
  /\ k \notin cut
  /\ cut' = cut \union {k}
  /\ lost' = lost \union Seqs(down[k])
  /\ down' = [down EXCEPT ![k] = <<>>]
  /\ UNCHANGED <<sessions, nextSession, ready, watched, hello, client, copies>>

-----------------------------------------------------------------------------
(* Sessions                                                                *)

Closed(rd, k) == IF rd[k] = "open" THEN [rd EXCEPT ![k] = "closing"] ELSE rd

(* startNewSession for a new client, up to its await of the connect.       *)
StartNewSession(k, configured) ==
  /\ nextSession \in Session
  /\ sessions' = [sessions EXCEPT ![nextSession] =
       [Fresh EXCEPT !.live = TRUE, !.ws = k, !.starter = k, !.up = "connecting",
                     !.configured = configured]]
  /\ nextSession' = nextSession + 1
  /\ UNCHANGED <<down, lost, watched>>

\* Mutated TakeOver: the start goes out before what the client missed.
TakeOverStartFirst(k, s, r, rd, missed) ==
  /\ ready' = rd
  /\ watched' = watched \union {k}
  /\ OnWire(k, Numbered(s, r, <<"start">>) \o missed)
  /\ sessions' = [sessions EXCEPT ![s] = [r EXCEPT !.buf = missed, !.seq = @ + 1]]
  /\ UNCHANGED nextSession

(* The session, with fields r, speaks through socket k from now on: what   *)
(* the client missed is sent again, then a start with the current token.   *)
TakeOver(k, s, r, rd, missed) ==
  /\ ready' = rd
  /\ watched' = watched \union {k}
  /\ OnWire(k, missed \o Numbered(s, r, <<"start">>))
  /\ sessions' = [sessions EXCEPT ![s] = [r EXCEPT !.buf = missed, !.seq = @ + 1]]
  /\ UNCHANGED nextSession

\* Mutated Resumed: the token is not rotated.
ResumedSameToken(k, h) ==
  [sessions[h.sess] EXCEPT !.grace = FALSE, !.ws = k, !.strayed = @ \/ h.of # h.sess]

Resumed(k, h) ==
  [sessions[h.sess] EXCEPT !.token = @ + 1, !.grace = FALSE, !.ws = k,
                           !.strayed = @ \/ h.of # h.sess]

(* What flushPendingServerMessages keeps of the buffer: the messages after *)
(* the last one the client says it received.  They are its end, since the  *)
(* buffer is in the order of the numbers (BufferInOrder).                  *)
Missed(buf, last) ==
  SubSeq(buf, Cardinality({i \in DOMAIN buf : buf[i].seq <= last}) + 1, Len(buf))

\* Mutated ResumeSession: the superseded socket stays open.
ResumeSessionKeepsOld(k, h) ==
  TakeOver(k, h.sess, Resumed(k, h), [ready EXCEPT ![k] = "open"],
           Missed(sessions[h.sess].buf, h.last))

\* Mutated ResumeSession: off by one, the first missed message is skipped.
ResumeSessionSkipsOne(k, h) ==
  TakeOver(k, h.sess, Resumed(k, h),
           Closed([ready EXCEPT ![k] = "open"], sessions[h.sess].ws),
           Missed(sessions[h.sess].buf, h.last + 1))

(* resumeSession with the right token: the session moves to socket k, the  *)
(* superseded socket is closed, the token rotates and the timer stops.     *)
ResumeSession(k, h) ==
  TakeOver(k, h.sess, Resumed(k, h),
           Closed([ready EXCEPT ![k] = "open"], sessions[h.sess].ws),
           Missed(sessions[h.sess].buf, h.last))

(* handleRealtimeGateway: the first message of a socket resumes a session  *)
(* the gateway still knows, is refused for a stale token, or starts a new  *)
(* session.                                                                *)
FirstMessage(k) ==
  /\ ready[k] = "fresh"
  /\ k \notin cut
  /\ hello[k] # NoHello
  /\ hello' = [hello EXCEPT ![k] = NoHello]
  /\ LET h == hello[k]
         known == h.type = "reconnect" /\ sessions[h.sess].live
     IN \/ /\ known
           /\ h.token = sessions[h.sess].token
           /\ ResumeSession(k, h)
        \/ /\ known
           /\ h.token # sessions[h.sess].token
           /\ ready' = [ready EXCEPT ![k] = "closing"]
           /\ UNCHANGED <<sessions, nextSession, watched, down, lost>>
        \/ /\ ~known
           /\ ready' = [ready EXCEPT ![k] = "open"]
           /\ StartNewSession(k, h.type = "configure")
  /\ UNCHANGED <<cut, client, copies>>

(* Half a second without a first message: a new session, even if the       *)
(* socket has closed meanwhile (nothing watches it yet).  A first message  *)
(* that comes later is not looked at.                                      *)
InitTimeout(k) ==
  /\ ready[k] \in {"fresh", "closedFresh"}
  /\ ready' = [ready EXCEPT ![k] = IF @ = "fresh" THEN "open" ELSE "closed"]
  /\ hello' = [hello EXCEPT ![k] = NoHello]
  /\ StartNewSession(k, FALSE)
  /\ UNCHANGED <<cut, client, copies>>

(* The close event of a socket at the gateway.  A watched socket that the  *)
(* session still uses arms the grace timer.                                *)
SocketCloses(k) ==
  /\ (k \in cut /\ ready[k] \in {"fresh", "open"}) \/ ready[k] = "closing"
  /\ ready' = [ready EXCEPT ![k] = IF @ = "fresh" THEN "closedFresh" ELSE "closed"]
  /\ sessions' = [s \in Session |->
       IF k \in watched /\ sessions[s].ws = k THEN [sessions[s] EXCEPT !.grace = TRUE] ELSE sessions[s]]
  /\ UNCHANGED <<nextSession, watched, down, hello, cut, client, copies, lost>>

(* The client did not come back within the grace period.                   *)
GraceFires(s) ==
  /\ sessions[s].grace
  /\ sessions' = [sessions EXCEPT ![s].grace = FALSE, ![s].live = FALSE,
                                ![s].up = IF @ = "open" THEN "closed" ELSE @]
  /\ UNCHANGED <<nextSession, ready, watched, down, hello, cut, client, copies, lost>>

-----------------------------------------------------------------------------
(* The upstream model connection                                           *)

(* setupSocketHandlers, once per socket: a socket that has closed already  *)
(* raises no close event any more.                                         *)
Watch(k) == IF ready[k] \in {"open", "closing"} THEN watched \union {k} ELSE watched

(* The connect of startNewSession resolves.  A first message naming a      *)
(* workspace outside the root ends the session here.                       *)
ConnectResolves(s, accepted) ==
  LET r == [sessions[s] EXCEPT !.up = "open"]
  IN /\ sessions[s].up = "connecting"
     /\ accepted \/ sessions[s].configured
     /\ watched' = Watch(r.ws)
     /\ \/ /\ accepted
           /\ SendLiveStartWhenReady(s, [r EXCEPT !.clientReady = TRUE, !.configured = FALSE])
           /\ UNCHANGED ready
        \/ /\ ~accepted
           /\ sessions' = [sessions EXCEPT ![s] =
                [r EXCEPT !.live = FALSE, !.up = "closed", !.configured = FALSE]]
           /\ ready' = Closed(ready, r.starter)
           /\ UNCHANGED <<down, lost>>
     /\ UNCHANGED <<nextSession, hello, cut, client, copies>>

\* Mutated ConnectFails: nobody tells the client.
ConnectFailsQuietly(s) ==
  /\ sessions[s].up = "connecting"
  /\ sessions' = [sessions EXCEPT ![s].live = FALSE, ![s].up = "closed"]
  /\ UNCHANGED <<nextSession, ready, watched, down, hello, cut, client, copies, lost>>

(* The connect fails: the session is forgotten and the socket that         *)
(* startNewSession was called with is closed.                              *)
ConnectFails(s) ==
  /\ sessions[s].up = "connecting"
  /\ sessions' = [sessions EXCEPT ![s].live = FALSE, ![s].up = "closed",
                                  ![s].untold = sessions[s].ws # sessions[s].starter]
  /\ ready' = Closed(ready, sessions[s].starter)
  /\ UNCHANGED <<nextSession, watched, down, hello, cut, client, copies, lost>>

(* setupComplete comes from the model, before or after the connect         *)
(* resolves.                                                               *)
SetupComplete(s) ==
  /\ sessions[s].up \in {"connecting", "open"}
  /\ ~sessions[s].setup
  /\ SendLiveStartWhenReady(s, [sessions[s] EXCEPT !.setup = TRUE])
  /\ UNCHANGED <<nextSession, ready, watched, hello, cut, client, copies>>

(* The model speaks: a transcript, a tool event or an audio frame.         *)
ModelSays(s, kind) ==
  /\ sessions[s].up = "open"
  /\ sessions[s].startSent
  /\ sessions[s].said < MaxSeq
  /\ SendToClient(s, [sessions[s] EXCEPT !.said = @ + 1], <<kind>>)
  /\ UNCHANGED <<nextSession, ready, watched, hello, cut, client, copies>>

(* goAway: tell the client, drop the upstream session and start again on   *)
(* the same socket (reconnectLiveSession, startNewSession).                *)
GoAway(s) ==
  /\ sessions[s].up = "open"
  /\ sessions[s].setup
  /\ sessions[s].goAways < MaxGoAway
  /\ SendToClient(s,
       [sessions[s] EXCEPT !.live = TRUE, !.starter = sessions[s].ws, !.up = "connecting",
                          !.setup = FALSE, !.startSent = FALSE, !.goAways = @ + 1],
       <<"text">>)
  /\ UNCHANGED <<nextSession, ready, watched, hello, cut, client, copies>>

(* The model closes the connection: the session ends with it.              *)
UpstreamCloses(s) ==
  /\ sessions[s].up = "open"
  /\ sessions' = [sessions EXCEPT ![s].live = FALSE, ![s].up = "closed"]
  /\ ready' = Closed(ready, sessions[s].ws)
  /\ UNCHANGED <<nextSession, watched, down, hello, cut, client, copies, lost>>

-----------------------------------------------------------------------------

LinkNext ==
  \/ \E k \in Socket :
       \/ ClientOpens(k) \/ ClientReceives(k) \/ ClientSeesClose(k) \/ Cut(k)
       \/ FirstMessage(k) \/ InitTimeout(k) \/ SocketCloses(k)
  \/ \E s \in Session :
       \/ GraceFires(s)
       \/ \E accepted \in BOOLEAN : ConnectResolves(s, accepted)
       \/ ConnectFails(s) \/ SetupComplete(s)
       \/ \E kind \in {"text", "audio"} : ModelSays(s, kind)
       \/ GoAway(s) \/ UpstreamCloses(s)

(* Timers fire, a connect ends, and the close event of a dead socket       *)
(* comes (TCP and the ping of the WebSocket library see to it).  Nothing   *)
(* is assumed of the client, the network or the model.                     *)
LinkFairness ==
  /\ \A k \in Socket : WF_linkVars(SocketCloses(k)) /\ WF_linkVars(InitTimeout(k))
  /\ \A s \in Session :
       /\ WF_linkVars(GraceFires(s))
       /\ WF_linkVars(ConnectFails(s) \/ \E accepted \in BOOLEAN : ConnectResolves(s, accepted))

LinkSpec == LinkInit /\ [][LinkNext]_linkVars /\ LinkFairness

-----------------------------------------------------------------------------

ActiveSession ==
  [live : BOOLEAN, ws : Socket \union {Nil}, starter : Socket \union {Nil},
   configured : BOOLEAN, token : Nat, seq : 0 .. LastSeq, buf : Seq(Message), grace : BOOLEAN,
   up : {"none", "connecting", "open", "closed"}, setup : BOOLEAN, clientReady : BOOLEAN,
   startSent : BOOLEAN, said : 0 .. MaxSeq, goAways : 0 .. MaxGoAway,
   strayed : BOOLEAN, untold : BOOLEAN]
Reconnect ==
  [type : {"reconnect"}, sess : Session, token : Nat, last : 0 .. LastSeq,
   of : Session \union {Nil}]

LinkTypeOK ==
  /\ sessions \in [Session -> ActiveSession]
  /\ \A s \in Session : Len(sessions[s].buf) <= BufferCap
  /\ nextSession \in 1 .. MaxSession + 1
  /\ ready \in [Socket -> {"none", "fresh", "closedFresh", "open", "closing", "closed"}]
  /\ watched \subseteq Socket
  /\ down \in [Socket -> Seq(Message)]
  /\ hello \in [Socket -> {NoHello, FirstHello} \union Reconnect]
  /\ cut \subseteq Socket
  /\ client \in [sock : Socket \union {Nil}, sess : Session \union {Nil}, token : Nat,
                 last : 0 .. LastSeq, of : Session \union {Nil}]
  /\ copies \in [Session -> [1 .. LastSeq -> 0 .. 2]]
  /\ lost \subseteq Session \X (1 .. LastSeq)

(* A session never has two open sockets that could both drive it: resuming *)
(* on a new socket closes the one it supersedes, whichever of the two      *)
(* close events the gateway sees first (resumeSession).                    *)
OneOpenSocket ==
  \A k \in watched : ready[k] = "open" => \E s \in Session : sessions[s].ws = k

(* The grace timer runs only while the client is away, so that it never    *)
(* tears down a session whose client has come back on another socket       *)
(* (setupSocketHandlers, resumeSession).                                   *)
GraceOnlyWhenGone ==
  \A s \in Session : sessions[s].grace => ready[sessions[s].ws] = "closed"

(* A client that knew its session and is gone is not waited for longer     *)
(* than the grace period: once its socket has closed, the timer runs for   *)
(* as long as the session is kept, through resumes and one goAway.  (When  *)
(* the timer fires while the upstream is being replaced, the session       *)
(* outlives it, and a second goAway registers it again without a timer.)   *)
DisconnectArmsGrace ==
  \A s \in Session :
    LET r == sessions[s]
    IN client.sess = s /\ r.live /\ ready[r.ws] = "closed" /\ r.goAways < 2 => r.grace

(* The session is announced exactly when the model and the client handlers *)
(* are both ready, in whichever order the two became so, and again after a *)
(* goAway (sendLiveStartWhenReady).                                        *)
AnnouncedWhenReady ==
  \A s \in Session : sessions[s].startSent <=> sessions[s].setup /\ sessions[s].clientReady

(* The buffer is in the order of the numbers, though buffered messages are *)
(* kept when they are flushed and others are buffered behind them.         *)
BufferInOrder ==
  \A s \in Session : LET buf == sessions[s].buf
                     IN \A i, j \in DOMAIN buf : i < j => buf[i].seq < buf[j].seq

(* Types, one open socket, a grace timer exactly while the client is away, *)
(* one announcement and an ordered buffer: what the handlers of a session  *)
(* keep up between them over all its sockets.                              *)
Attended ==
  /\ LinkTypeOK
  /\ OneOpenSocket /\ GraceOnlyWhenGone /\ DisconnectArmsGrace
  /\ AnnouncedWhenReady /\ BufferInOrder

InFlight == UNION {Seqs(down[k]) : k \in Socket}

(* No message is silently lost: whatever number the gateway gave out in a  *)
(* live session is with the client, on its way, waiting in the buffer, or  *)
(* was handed to a connection that died or pushed out of a full buffer     *)
(* (sendToClient, flushPendingServerMessages) - unless the client asked    *)
(* for what comes after a message of another session.                      *)
NoSilentLoss ==
  \A s \in Session : sessions[s].live /\ ~sessions[s].strayed =>
    \A n \in 1 .. sessions[s].seq :
      \/ copies[s][n] > 0
      \/ <<s, n>> \in InFlight \union Seqs(sessions[s].buf) \union lost

(* Messages reach the client in the order the gateway numbered them,       *)
(* across all its reconnections (the resume flush against sendToClient).   *)
InOrder ==
  [][\A k \in Socket :
       down[k] # <<>> /\ copies' # copies /\ down'[k] = Tail(down[k]) =>
         LET m == Head(down[k])
         IN ~sessions[m.sess].strayed => \A n \in m.seq .. LastSeq : copies[m.sess][n] = 0]_linkVars

(* When the gateway gives a session up, the client that uses it is told:   *)
(* no socket stays open on a session without its upstream connection,      *)
(* unless the client had left the socket on which the replacement of its   *)
(* upstream was begun.                                                     *)
EndReachesClient ==
  \A s \in Session : LET r == sessions[s]
                     IN r.up = "closed" /\ ~r.untold => ready[r.ws] # "open"

(* A message reaches the client at most once across all its reconnections  *)
(* (what docs/realtime-readiness-evidence.md says of the reconnect         *)
(* message, which carries the last sequence number the client received).   *)
(* On Android, audio does not move that number: what keeps a flushed       *)
(* frame from being flushed again is that only a client that received the  *)
(* start behind it can resume again.  Where the number is that of another  *)
(* session's message, nothing keeps it.                                    *)
NoDuplicate ==
  \A s \in Session : ~sessions[s].strayed => \A n \in 1 .. LastSeq : copies[s][n] <= 1

(* What docs/realtime-readiness-evidence.md means the reconnect message to *)
(* carry is a number of the session it resumes.  This does not hold once a *)
(* client has gone from one session to the next, since neither client      *)
(* resets its number when a reconnect is answered with a new session       *)
(* (handleLiveSocketMessage, handleTextMessage).  No run checks it; README,*)
(* section 4, shows how to see it fail.                                    *)
CursorIsOwn == \A s \in Session : ~sessions[s].strayed

=============================================================================
