----------------------------- MODULE Voice_proofs -----------------------------
(***************************************************************************)
(* Theorems about the two voice components, for every value of their       *)
(* constants: the live session link (LiveLink) and, in the last part, the  *)
(* local voice layer of the Pi extension (VoiceLayer).                     *)
(*                                                                         *)
(* LinkIInv is the inductive invariant of the link.  It says which sockets *)
(* may carry messages (SocketInv), what the handlers of one session keep   *)
(* up over all its sockets (SessionInv), that a socket speaks for one      *)
(* session (OwnSocket), that whatever is in flight or buffered was given   *)
(* its number by the session whose socket or buffer it is, in order        *)
(* (WireInv), and, of a session whose client counted only its messages,    *)
(* that every number is accounted for and that what is in flight comes     *)
(* after everything received (StreamInv).  What is buffered may be sent    *)
(* again: why it does not arrive twice differs between the clients (WebInv *)
(* and AndroidInv).                                                        *)
(***************************************************************************)
EXTENDS LiveLink, VoiceLayer, SequenceTheorems, FiniteSetTheorems, TLAPS

(* The gateway accepted the socket: a session speaks or spoke through it.  *)
Used(k) == ready[k] \in {"open", "closing", "closed"}

(* Sockets are opened one after the other; only the client's own carries   *)
(* messages, and a reconnect message says what the client still remembers. *)
SocketInv ==
  /\ \A k \in Socket : ready[k] = "none" => \A j \in Socket : j > k => ready[j] = "none"
  /\ \A k \in watched : Used(k) /\ (ready[k] = "open" => \E s \in Session : sessions[s].ws = k)
  /\ client.sock # Nil =>
       /\ ready[client.sock] # "none"
       /\ \A j \in Socket : j > client.sock => ready[j] = "none"
  /\ \A k \in Socket : ready[k] # "none" /\ k \notin cut => k = client.sock
  /\ \A k \in Socket : down[k] # <<>> => ready[k] # "none" /\ k \notin cut
  /\ \A k \in Socket : ready[k] = "fresh" /\ k \notin cut /\ hello[k].type = "reconnect" =>
       /\ k = client.sock
       /\ hello[k].sess = client.sess /\ hello[k].token = client.token
       /\ hello[k].last = client.last /\ hello[k].of = client.of

(* The client heard of the session, or is about to.                        *)
Known(s) == client.sess = s \/ \E k \in Socket : \E i \in DOMAIN down[k] : down[k][i].sess = s

(* What the handlers of one session keep up.                               *)
SessionInv(s) ==
  LET r == sessions[s]
  IN /\ s >= nextSession => r = Fresh
     /\ s < nextSession => r.ws # Nil /\ r.starter # Nil /\ r.up # "none"
     /\ r.ws # Nil => Used(r.ws) /\ r.token < r.ws
     /\ r.seq <= r.said + 3 * r.goAways + r.token + (IF r.startSent THEN 2 ELSE 0)
     /\ r.startSent <=> r.setup /\ r.clientReady
     /\ r.clientReady => r.ws \in watched \/ ready[r.ws] = "closed"
     /\ r.up = "open" => r.clientReady
     /\ r.grace => ready[r.ws] = "closed"
     /\ r.up = "closed" => ~r.live /\ (~r.untold => ready[r.ws] # "open")
     /\ r.up \in {"connecting", "open"} /\ ~r.live => r.goAways >= 1
     /\ r.up = "connecting" /\ r.goAways = 0 =>
          r.ws = r.starter /\ r.ws \notin watched /\ ~r.clientReady /\ ~r.grace
     /\ r.configured /\ r.up # "closed" => r.up = "connecting" /\ r.goAways = 0
     /\ Known(s) =>
          /\ s < nextSession
          /\ r.ws \in watched
          /\ r.live /\ ready[r.ws] = "closed" /\ r.goAways < 2 => r.grace

(* A socket speaks for one session.                                        *)
OwnSocket == \A s, t \in Session : sessions[s].ws # Nil /\ sessions[s].ws = sessions[t].ws => s = t

Ordered(msgs) == \A i, j \in DOMAIN msgs : i < j => msgs[i].seq < msgs[j].seq
Numbers(m) == m.seq <= sessions[m.sess].seq /\ m.token <= sessions[m.sess].token

(* What is in flight or buffered is in order and was given its number by   *)
(* the session whose socket or buffer it is; so was what was received.     *)
WireInv ==
  /\ \A k \in Socket :
       /\ Ordered(down[k])
       /\ \A i \in DOMAIN down[k] : Numbers(down[k][i]) /\ sessions[down[k][i].sess].ws = k
  /\ \A s \in Session :
       LET buf == sessions[s].buf
       IN Ordered(buf) /\ \A i \in DOMAIN buf : Numbers(buf[i]) /\ buf[i].sess = s
  /\ \A s \in Session, n \in 1 .. LastSeq : copies[s][n] > 0 => n <= sessions[s].seq
  /\ client.of # Nil => client.last # 0 /\ copies[client.of][client.last] > 0

Sent(s, n) == copies[s][n] > 0 \/ <<s, n>> \in InFlight
Covered(s, n) == Sent(s, n) \/ <<s, n>> \in lost
Above(s, n) == \A m \in 1 .. LastSeq : Sent(s, m) => m < n

(* What is in the buffer only comes after everything that was sent.        *)
LossInv(s) ==
  \A n \in 1 .. sessions[s].seq : ~Covered(s, n) =>
    /\ <<s, n>> \in Seqs(sessions[s].buf)
    /\ ready[sessions[s].ws] # "open"
    /\ Above(s, n)

(* What is in flight comes after everything that was received.             *)
OrderInv(s) ==
  /\ \A k \in Socket : \A i \in DOMAIN down[k] :
       down[k][i].sess = s => \A n \in down[k][i].seq .. LastSeq : copies[s][n] = 0
  /\ \A n \in 1 .. LastSeq : copies[s][n] <= 1

(* The web client remembers the highest number it saw.                     *)
WebInv == \A s \in Session, n \in 1 .. LastSeq : copies[s][n] > 0 => n <= client.last

(* The Android client does not, since audio does not count.  A buffered    *)
(* message was sent already, and then whoever has the token, or is about   *)
(* to get it, remembers a number behind it (Passed); or it was not, and   *)
(* then it comes after everything that was sent.                           *)
Passed(s, n) ==
  /\ \A k \in Socket : \A i \in DOMAIN down[k] :
       LET m == down[k][i]
       IN m.sess = s /\ m.kind = "start" /\ m.token = sessions[s].token => m.seq > n
  /\ client.sess = s /\ client.of = s /\ client.token = sessions[s].token => client.last >= n

AndroidInv(s) ==
  /\ client.sess = s /\ client.sock = sessions[s].ws /\ client.sock # Nil => client.of = s
  /\ \A i \in DOMAIN sessions[s].buf :
       LET n == sessions[s].buf[i].seq
       IN Passed(s, n) \/ (ready[sessions[s].ws] # "open" /\ Above(s, n))

StreamInv ==
  /\ Client = "web" => WebInv
  /\ \A s \in Session : ~sessions[s].strayed =>
       LossInv(s) /\ OrderInv(s) /\ (Client = "android" => AndroidInv(s))

LinkIInv ==
  LinkTypeOK /\ SocketInv /\ (\A s \in Session : SessionInv(s)) /\ OwnSocket /\ WireInv /\ StreamInv

-----------------------------------------------------------------------------
(* Numbers and sequences.                                                  *)

LEMMA Numerals ==
  /\ LastSeq \in Nat /\ Nil \notin Socket /\ Nil \notin Session
  /\ Socket \subseteq Nat /\ Session \subseteq Nat
BY BoundsAssumption DEF LastSeq, Nil, Socket, Session

LEMMA SeqsMember ==
  ASSUME NEW msgs \in Seq(Message), NEW s, NEW n
  PROVE  <<s, n>> \in Seqs(msgs) <=> \E i \in DOMAIN msgs : msgs[i].sess = s /\ msgs[i].seq = n
BY DEF Seqs, ToSet

LEMMA InFlightIn ==
  ASSUME NEW d, \A k \in Socket : d[k] \in Seq(Message), NEW s, NEW n
  PROVE  <<s, n>> \in UNION {Seqs(d[k]) : k \in Socket} <=>
           \E k \in Socket : \E i \in DOMAIN d[k] : d[k][i].sess = s /\ d[k][i].seq = n
<1>1. <<s, n>> \in UNION {Seqs(d[k]) : k \in Socket} <=> \E k \in Socket : <<s, n>> \in Seqs(d[k])
  OBVIOUS
<1> QED
  BY <1>1, SeqsMember

LEMMA InFlightMember ==
  ASSUME LinkTypeOK, NEW s, NEW n
  PROVE  <<s, n>> \in InFlight <=>
           \E k \in Socket : \E i \in DOMAIN down[k] : down[k][i].sess = s /\ down[k][i].seq = n
<1>1. \A k \in Socket : down[k] \in Seq(Message)
  BY DEF LinkTypeOK
<1>2. <<s, n>> \in UNION {Seqs(down[k]) : k \in Socket} <=>
        \E k \in Socket : \E i \in DOMAIN down[k] : down[k][i].sess = s /\ down[k][i].seq = n
  BY <1>1, InFlightIn
<1> QED
  BY <1>2 DEF InFlight

(* The end of a sequence of messages.                                      *)
LEMMA EndOfSeq ==
  ASSUME NEW b \in Seq(Message), NEW d \in 0 .. Len(b)
  PROVE  LET t == SubSeq(b, d + 1, Len(b))
         IN /\ t \in Seq(Message) /\ Len(t) = Len(b) - d /\ DOMAIN t = 1 .. Len(b) - d
            /\ \A i \in DOMAIN t : i + d \in DOMAIN b /\ t[i] = b[i + d]
<1> DEFINE t == SubSeq(b, d + 1, Len(b))
<1>1. Len(b) \in Nat /\ DOMAIN b = 1 .. Len(b) /\ \A i \in 1 .. Len(b) : b[i] \in Message
  BY LenProperties, ElementOfSeq
<1>2. /\ t \in Seq(Message) /\ Len(t) = IF d + 1 <= Len(b) THEN Len(b) - (d + 1) + 1 ELSE 0
      /\ \A i \in 1 .. Len(b) - (d + 1) + 1 : t[i] = b[d + 1 + i - 1]
  BY <1>1, SubSeqProperties
<1> DEFINE n == Len(b)
<1>a. n \in Nat /\ d \in Nat /\ d <= n
  BY <1>1
<1>b. Len(t) = IF d + 1 <= n THEN n - (d + 1) + 1 ELSE 0
  BY <1>2
<1>c. \A i \in 1 .. n - (d + 1) + 1 : t[i] = b[d + 1 + i - 1]
  BY <1>2
<1>d. DOMAIN b = 1 .. n
  BY <1>1
<1> HIDE DEF t, n
<1>3. Len(t) = n - d
  BY <1>a, <1>b
<1>4. DOMAIN t = 1 .. n - d
  BY <1>2, <1>3, LenProperties
<1>5. \A i \in 1 .. n - d : i + d \in 1 .. n /\ t[i] = b[i + d]
  <2> TAKE i \in 1 .. n - d
  <2>1. i \in 1 .. n - (d + 1) + 1 /\ d + 1 + i - 1 = i + d /\ i + d \in 1 .. n
    BY <1>a
  <2> QED
    BY <1>c, <2>1
<1> QED
  BY <1>2, <1>3, <1>4, <1>5, <1>d DEF t, n

LEMMA CappedEnd ==
  ASSUME NEW b \in Seq(Message)
  PROVE  \E d \in 0 .. Len(b) :
           /\ Capped(b) = SubSeq(b, d + 1, Len(b)) /\ Len(b) - d <= BufferCap
           /\ d # 0 => Len(b) - d = BufferCap
<1>1. Len(b) \in Nat /\ BufferCap \in Nat
  BY BoundsAssumption, LenProperties
<1>2. CASE Len(b) > BufferCap
  <2> DEFINE d == Len(b) - BufferCap
  <2>1. d \in 0 .. Len(b) /\ Len(b) - d = BufferCap
    BY <1>1, <1>2
  <2>2. Capped(b) = SubSeq(b, d + 1, Len(b))
    BY <1>2 DEF Capped
  <2> HIDE DEF d
  <2> QED
    BY <1>1, <2>1, <2>2
<1>3. CASE ~(Len(b) > BufferCap)
  <2>1. SubSeq(b, 1, Len(b)) = b /\ 0 + 1 = 1
    BY SubSeqFull
  <2>2. Capped(b) = SubSeq(b, 0 + 1, Len(b))
    BY <1>3, <2>1 DEF Capped
  <2>3. 0 \in 0 .. Len(b) /\ Len(b) - 0 <= BufferCap
    BY <1>1, <1>3
  <2> QED
    BY <2>2, <2>3
<1> QED
  BY <1>2, <1>3

(* What was missed of an ordered buffer is its end beyond the number.      *)
LEMMA MissedEnd ==
  ASSUME NEW b \in Seq(Message), Ordered(b), NEW last \in Nat
  PROVE  \E d \in 0 .. Len(b) :
           /\ Missed(b, last) = SubSeq(b, d + 1, Len(b))
           /\ \A i \in DOMAIN b : b[i].seq > last <=> i > d
<1> DEFINE old == {i \in DOMAIN b : b[i].seq <= last}
           d == Cardinality(old)
<1>1. Len(b) \in Nat /\ DOMAIN b = 1 .. Len(b) /\ \A i \in 1 .. Len(b) : b[i] \in Message
  BY LenProperties, ElementOfSeq
<1>2. \A i \in 1 .. Len(b) : b[i].seq \in Nat
  BY <1>1 DEF Message
<1>3. IsFiniteSet(1 .. Len(b)) /\ Cardinality(1 .. Len(b)) = Len(b)
  <2>1. /\ IsFiniteSet(1 .. Len(b))
        /\ Cardinality(1 .. Len(b)) = IF 1 > Len(b) THEN 0 ELSE Len(b) - 1 + 1
    BY <1>1, FS_Interval
  <2> QED
    BY <1>1, <2>1
<1>4. old \in SUBSET (1 .. Len(b))
  BY <1>1
<1>5. IsFiniteSet(old) /\ d <= Len(b) /\ d \in Nat
  BY <1>3, <1>4, FS_Subset, FS_CardinalityType
<1>6. ASSUME NEW i \in 1 .. Len(b), b[i].seq <= last
      PROVE  i <= d
  <2>1. 1 .. i \in SUBSET old
    <3> SUFFICES ASSUME NEW j \in 1 .. i PROVE j \in old
      OBVIOUS
    <3>1. j \in 1 .. Len(b) /\ (j = i \/ b[j].seq < b[i].seq)
      BY <1>1 DEF Ordered
    <3> QED
      BY <1>1, <1>2, <1>6, <3>1
  <2>2. Cardinality(1 .. i) <= d
    BY <1>5, <2>1, FS_Subset
  <2>3. Cardinality(1 .. i) = i
    BY FS_Interval
  <2> QED
    BY <2>2, <2>3
<1>7. ASSUME NEW i \in 1 .. Len(b), ~(b[i].seq <= last)
      PROVE  i > d
  <2>1. old \in SUBSET (1 .. i - 1)
    <3> SUFFICES ASSUME NEW j \in 1 .. Len(b), b[j].seq <= last PROVE j <= i - 1
      BY <1>1
    <3>1. ~(j = i)
      BY <1>7
    <3>2. ~(i < j)
      <4> SUFFICES ASSUME i < j PROVE FALSE
        OBVIOUS
      <4>1. b[i].seq < b[j].seq
        BY <1>1 DEF Ordered
      <4> QED
        BY <1>2, <1>7, <4>1
    <3> QED
      BY <3>1, <3>2
  <2>2. IsFiniteSet(1 .. i - 1) /\ Cardinality(1 .. i - 1) = i - 1
    BY FS_Interval
  <2>3. d <= i - 1
    BY <2>1, <2>2, FS_Subset
  <2> QED
    BY <1>5, <2>3
<1>8. Missed(b, last) = SubSeq(b, d + 1, Len(b))
  BY DEF Missed
<1>9. \A i \in DOMAIN b : b[i].seq > last <=> i > d
  <2> HIDE DEF d
  <2> QED
    BY <1>1, <1>2, <1>5, <1>6, <1>7
<1> HIDE DEF d
<1> QED
  BY <1>1, <1>5, <1>8, <1>9

LEMMA OrderedEnd ==
  ASSUME NEW b \in Seq(Message), Ordered(b), NEW d \in 0 .. Len(b)
  PROVE  Ordered(SubSeq(b, d + 1, Len(b)))
<1> DEFINE t == SubSeq(b, d + 1, Len(b))
<1>1. DOMAIN t = 1 .. Len(b) - d /\ \A i \in DOMAIN t : i + d \in DOMAIN b /\ t[i] = b[i + d]
  BY EndOfSeq
<1>2. Len(b) \in Nat
  BY LenProperties
<1> HIDE DEF t
<1> SUFFICES Ordered(t)
  BY DEF t
<1> QED
  BY <1>1, <1>2 DEF Ordered

LEMMA OrderedConcat ==
  ASSUME NEW a \in Seq(Message), NEW b \in Seq(Message), Ordered(a), Ordered(b),
         \A i \in DOMAIN a, j \in DOMAIN b : a[i].seq < b[j].seq
  PROVE  /\ a \o b \in Seq(Message) /\ DOMAIN (a \o b) = 1 .. Len(a) + Len(b)
         /\ Ordered(a \o b)
         /\ \A i \in DOMAIN (a \o b) :
              \/ i \in DOMAIN a /\ (a \o b)[i] = a[i]
              \/ i - Len(a) \in DOMAIN b /\ (a \o b)[i] = b[i - Len(a)]
         /\ \A i \in DOMAIN a : i \in DOMAIN (a \o b) /\ (a \o b)[i] = a[i]
         /\ \A i \in DOMAIN b : i + Len(a) \in DOMAIN (a \o b) /\ (a \o b)[i + Len(a)] = b[i]
<1>1. /\ Len(a) \in Nat /\ Len(b) \in Nat /\ DOMAIN a = 1 .. Len(a) /\ DOMAIN b = 1 .. Len(b)
      /\ \A i \in DOMAIN a : a[i] \in Message
      /\ \A i \in DOMAIN b : b[i] \in Message
  BY LenProperties, ElementOfSeq
<1> DEFINE c == a \o b
<1>2. /\ c \in Seq(Message) /\ Len(c) = Len(a) + Len(b)
      /\ \A i \in 1 .. Len(a) + Len(b) : c[i] = IF i <= Len(a) THEN a[i] ELSE b[i - Len(a)]
  BY ConcatProperties
<1>3. DOMAIN c = 1 .. Len(a) + Len(b)
  BY <1>2, LenProperties
<1> HIDE DEF c
<1>4. \A i \in DOMAIN c : \/ i \in DOMAIN a /\ c[i] = a[i]
                          \/ i - Len(a) \in DOMAIN b /\ c[i] = b[i - Len(a)]
  BY <1>1, <1>2, <1>3
<1>5. \A i \in DOMAIN a : i \in DOMAIN c /\ c[i] = a[i]
  BY <1>1, <1>2, <1>3
<1>6. \A i \in DOMAIN b : i + Len(a) \in DOMAIN c /\ c[i + Len(a)] = b[i]
  BY <1>1, <1>2, <1>3
<1>7. Ordered(c)
  <2> SUFFICES ASSUME NEW i \in DOMAIN c, NEW j \in DOMAIN c, i < j
               PROVE  c[i].seq < c[j].seq
    BY DEF Ordered
  <2>1. CASE j <= Len(a)
    BY <1>1, <1>2, <1>3, <2>1 DEF Ordered
  <2>2. CASE i > Len(a)
    <3>1. /\ i - Len(a) \in DOMAIN b /\ j - Len(a) \in DOMAIN b /\ i - Len(a) < j - Len(a)
          /\ c[i] = b[i - Len(a)] /\ c[j] = b[j - Len(a)]
      BY <1>1, <1>2, <1>3, <2>2
    <3> QED
      BY <3>1 DEF Ordered
  <2>3. CASE i <= Len(a) /\ j > Len(a)
    <3>1. i \in DOMAIN a /\ j - Len(a) \in DOMAIN b /\ c[i] = a[i] /\ c[j] = b[j - Len(a)]
      BY <1>1, <1>2, <1>3, <2>3
    <3> QED
      BY <3>1
  <2> QED
    BY <1>1, <1>3, <2>1, <2>2, <2>3
<1> QED
  BY <1>2, <1>3, <1>4, <1>5, <1>6, <1>7 DEF c

Kind == {"start", "text", "audio"}

(* The messages of a send.                                                 *)
LEMMA NumberedMessages ==
  ASSUME NEW s \in Session, NEW r \in ActiveSession, NEW kinds \in Seq(Kind),
         r.seq + Len(kinds) <= LastSeq
  PROVE  LET msgs == Numbered(s, r, kinds)
         IN /\ msgs \in Seq(Message) /\ Ordered(msgs)
            /\ DOMAIN msgs = 1 .. Len(kinds) /\ Len(msgs) = Len(kinds)
            /\ \A i \in 1 .. Len(kinds) :
                 msgs[i] = [kind |-> kinds[i], sess |-> s, seq |-> r.seq + i, token |-> r.token]
<1> DEFINE n == Len(kinds)
           msgs == Numbered(s, r, kinds)
<1>1. n \in Nat /\ DOMAIN kinds = 1 .. n /\ \A i \in 1 .. n : kinds[i] \in Kind
  BY LenProperties, ElementOfSeq
<1>2. msgs = [i \in 1 .. n |-> [kind |-> kinds[i], sess |-> s, seq |-> r.seq + i, token |-> r.token]]
  BY <1>1 DEF Numbered
<1>3. r.seq \in Nat /\ r.token \in Nat /\ LastSeq \in Nat
  BY Numerals DEF ActiveSession
<1>4. \A i \in 1 .. n :
        [kind |-> kinds[i], sess |-> s, seq |-> r.seq + i, token |-> r.token] \in Message
  BY <1>1, <1>3 DEF Message, Kind
<1> HIDE DEF n, msgs
<1>5. msgs \in [1 .. n -> Message]
  BY <1>2, <1>4
<1>6. msgs \in Seq(Message) /\ Len(msgs) = n
  BY <1>1, <1>5
<1>7. Ordered(msgs)
  BY <1>1, <1>2, <1>3 DEF Ordered
<1> QED
  BY <1>2, <1>6, <1>7 DEF n, msgs

-----------------------------------------------------------------------------

LEMMA LinkInitIInv == LinkInit => LinkIInv
<1> SUFFICES ASSUME LinkInit PROVE LinkIInv
  OBVIOUS
<1> USE Numerals, BoundsAssumption
<1>1. Fresh \in ActiveSession /\ Fresh.buf = <<>> /\ Fresh.seq = 0 /\ Fresh.ws = Nil
  BY DEF Fresh, ActiveSession
<1>2. LinkTypeOK
  <2>1. sessions \in [Session -> ActiveSession] /\ \A s \in Session : Len(sessions[s].buf) <= BufferCap
    BY <1>1 DEF LinkInit
  <2>2. down \in [Socket -> Seq(Message)]
    BY DEF LinkInit
  <2>3. hello \in [Socket -> {NoHello, FirstHello} \union Reconnect]
    BY DEF LinkInit
  <2>4. copies \in [Session -> [1 .. LastSeq -> 0 .. 2]]
    BY DEF LinkInit
  <2> QED
    BY <2>1, <2>2, <2>3, <2>4 DEF LinkInit, LinkTypeOK
<1>3. \A k \in Socket : DOMAIN down[k] = {}
  BY DEF LinkInit
<1>4. SocketInv
  BY <1>3 DEF LinkInit, SocketInv, Socket, NoHello
<1>5. \A s \in Session : ~Known(s)
  BY <1>3 DEF LinkInit, Known
<1>6. \A s \in Session : SessionInv(s)
  BY <1>1, <1>5 DEF LinkInit, SessionInv, Fresh, Session
<1>7. OwnSocket
  BY <1>1 DEF LinkInit, OwnSocket
<1>8. WireInv
  BY <1>1, <1>3 DEF LinkInit, WireInv, Ordered
<1>9. StreamInv
  <2>1. \A s \in Session : sessions[s].seq = 0 /\ sessions[s].buf = <<>>
    BY <1>1 DEF LinkInit
  <2>2. \A s \in Session : LossInv(s)
    <3>1. \A n \in 1 .. 0 : FALSE
      OBVIOUS
    <3> QED
      BY <2>1, <3>1 DEF LossInv
  <2>3. \A s \in Session : OrderInv(s)
    BY <1>3 DEF LinkInit, OrderInv
  <2>4. WebInv
    BY DEF LinkInit, WebInv
  <2>5. \A s \in Session : AndroidInv(s)
    BY <2>1, <1>3 DEF LinkInit, AndroidInv
  <2> QED
    BY <2>2, <2>3, <2>4, <2>5 DEF StreamInv
<1> QED
  BY <1>2, <1>4, <1>6, <1>7, <1>8, <1>9 DEF LinkIInv

(* What a step does not touch of a session stays as it was.                *)
LEMMA KeepSession ==
  ASSUME LinkTypeOK, NEW t \in Session, SessionInv(t), sessions'[t] = sessions[t],
         nextSession' \in Nat, t >= nextSession' => t >= nextSession,
         t < nextSession' => t < nextSession,
         LET w == sessions[t].ws
         IN w # Nil => /\ Used(w) => Used(w)'
                       /\ ready[w] = "closed" <=> ready'[w] = "closed"
                       /\ ready'[w] = "open" => ready[w] = "open"
                       /\ w \in watched <=> w \in watched',
         Known(t)' => Known(t)
  PROVE  SessionInv(t)'
<1> DEFINE r == sessions[t]
<1>1. r \in ActiveSession /\ nextSession \in Nat /\ t \in Nat
  BY Numerals DEF LinkTypeOK
<1>2. CASE r.ws = Nil
  <2>1. t >= nextSession /\ r = Fresh
    BY <1>1, <1>2 DEF SessionInv
  <2> QED
    BY <1>1, <2>1 DEF SessionInv, Fresh
<1>3. CASE r.ws # Nil
  BY <1>1, <1>3 DEF SessionInv
<1> QED
  BY <1>2, <1>3


-----------------------------------------------------------------------------
(* Steps that send nothing, and start at most a session nobody heard of.   *)

LEMMA Unused ==
  ASSUME LinkIInv, NEW s \in Session, sessions[s].ws = Nil
  PROVE  sessions[s] = Fresh /\ s >= nextSession
<1>1. SessionInv(s) /\ nextSession \in Nat /\ s \in Nat
  BY Numerals DEF LinkIInv, LinkTypeOK
<1> QED
  BY <1>1 DEF SessionInv

(* The part of a session that its messages depend on.                      *)
SameStream(r, q) ==
  r.ws = q.ws /\ r.seq = q.seq /\ r.token = q.token /\ r.buf = q.buf /\ r.strayed = q.strayed

LEMMA SilentStep ==
  ASSUME LinkIInv, UNCHANGED <<down, copies, lost>>,
         \A s \in Session :
           \/ SameStream(sessions[s], sessions'[s])
           \/ /\ ~Known(s)
              /\ sessions[s].seq = 0 /\ sessions'[s].seq = 0
              /\ sessions[s].buf = <<>> /\ sessions'[s].buf = <<>>,
         client' = [client EXCEPT !.sock = client'.sock],
         \/ client'.sock \in {client.sock, Nil}
         \/ \A s \in Session : sessions[s].ws # client'.sock,
         \A s \in Session : sessions[s].ws # Nil /\ ready'[sessions[s].ws] = "open"
                              => ready[sessions[s].ws] = "open"
  PROVE  WireInv' /\ StreamInv' /\ \A s \in Session : Known(s)' <=> Known(s)
<1>1. client \in [sock : Socket \union {Nil}, sess : Session \union {Nil}, token : Nat,
                  last : 0 .. LastSeq, of : Session \union {Nil}]
  BY DEF LinkIInv, LinkTypeOK
<1>2. /\ client'.sess = client.sess /\ client'.token = client.token
      /\ client'.last = client.last /\ client'.of = client.of
  BY <1>1
<1>3. \A s \in Session :
        /\ sessions'[s].seq = sessions[s].seq /\ sessions'[s].buf = sessions[s].buf
        /\ Known(s) \/ SameStream(sessions[s], sessions'[s]) =>
             /\ sessions'[s].ws = sessions[s].ws /\ sessions'[s].token = sessions[s].token
             /\ sessions'[s].strayed = sessions[s].strayed
        /\ ~SameStream(sessions[s], sessions'[s]) =>
             ~Known(s) /\ sessions[s].seq = 0 /\ sessions[s].buf = <<>>
  BY DEF SameStream
<1>4. \A k \in Socket : \A i \in DOMAIN down[k] : down[k][i].sess \in Session
  <2>1. \A k \in Socket : down[k] \in Seq(Message)
    BY DEF LinkIInv, LinkTypeOK
  <2>2. \A k \in Socket : \A i \in DOMAIN down[k] : down[k][i] \in Message
    BY <2>1, ElementOfSeq, LenProperties
  <2> QED
    BY <2>2 DEF Message
<1>5. WireInv'
  <2>1. WireInv
    BY DEF LinkIInv
  <2>2. \A s \in Session : \A i \in DOMAIN sessions[s].buf : sessions[s].buf[i].sess \in Session
    BY <2>1 DEF WireInv
  <2>3. (\A k \in Socket :
           /\ Ordered(down[k])
           /\ \A i \in DOMAIN down[k] : Numbers(down[k][i]) /\ sessions[down[k][i].sess].ws = k)'
    <3>1. \A k \in Socket : \A i \in DOMAIN down[k] : Known(down[k][i].sess)
      BY <1>4 DEF Known
    <3> QED
      BY <1>3, <1>4, <2>1, <3>1 DEF WireInv, Numbers, Ordered
  <2>4. (\A s \in Session :
           LET buf == sessions[s].buf
           IN Ordered(buf) /\ \A i \in DOMAIN buf : Numbers(buf[i]) /\ buf[i].sess = s)'
    <3> SUFFICES ASSUME NEW s \in Session
                 PROVE  /\ Ordered(sessions'[s].buf)
                        /\ \A i \in DOMAIN sessions'[s].buf :
                             Numbers(sessions[s].buf[i])' /\ sessions'[s].buf[i].sess = s
      BY DEF Ordered
    <3>1. CASE SameStream(sessions[s], sessions'[s])
      BY <1>3, <2>1, <3>1 DEF WireInv, Numbers, Ordered
    <3>2. CASE ~SameStream(sessions[s], sessions'[s])
      <4>1. sessions'[s].buf = <<>>
        BY <1>3, <3>2
      <4> QED
        BY <4>1 DEF Ordered
    <3> QED
      BY <3>1, <3>2
  <2>5. (\A s \in Session, n \in 1 .. LastSeq : copies[s][n] > 0 => n <= sessions[s].seq)'
    BY <1>3, <2>1 DEF WireInv
  <2>6. (client.of # Nil => client.last # 0 /\ copies[client.of][client.last] > 0)'
    BY <1>2, <2>1 DEF WireInv
  <2> QED
    BY <2>3, <2>4, <2>5, <2>6 DEF WireInv
<1>6. InFlight' = InFlight
  BY DEF InFlight
<1>7. ASSUME NEW s \in Session, NEW n \in Nat, SameStream(sessions[s], sessions'[s])
      PROVE  /\ Sent(s, n)' <=> Sent(s, n)
             /\ Covered(s, n)' <=> Covered(s, n)
             /\ Above(s, n)' <=> Above(s, n)
             /\ Passed(s, n)' <=> Passed(s, n)
  <2>1. \A m : Sent(s, m)' <=> Sent(s, m)
    BY <1>6 DEF Sent
  <2> QED
    BY <1>2, <1>3, <1>7, <2>1 DEF Covered, Above, Passed
<1>8. ASSUME NEW s \in Session, ~sessions'[s].strayed, SameStream(sessions[s], sessions'[s])
      PROVE  LossInv(s)' /\ OrderInv(s)' /\ (Client = "android" => AndroidInv(s)')
  <2>1. LossInv(s) /\ OrderInv(s) /\ (Client = "android" => AndroidInv(s))
    BY <1>3, <1>8 DEF LinkIInv, StreamInv
  <2>2. CASE sessions[s].ws = Nil
    <3>1. sessions[s].seq = 0 /\ sessions[s].buf = <<>>
      BY <2>2, Unused DEF Fresh
    <3>2. LossInv(s)'
      BY <1>3, <1>8, <3>1 DEF LossInv
    <3>3. OrderInv(s)'
      BY <2>1 DEF OrderInv
    <3>4. AndroidInv(s)'
      BY <1>3, <1>8, <2>2, <3>1 DEF AndroidInv
    <3> QED
      BY <3>2, <3>3, <3>4
  <2>3. CASE sessions[s].ws # Nil
    <3>1. LossInv(s)'
      <4>1. \A n \in 1 .. sessions[s].seq : n \in Nat
        OBVIOUS
      <4> QED
        BY <1>3, <1>7, <1>8, <2>1, <2>3, <4>1 DEF LossInv
    <3>2. OrderInv(s)'
      BY <2>1 DEF OrderInv
    <3>3. ASSUME Client = "android" PROVE AndroidInv(s)'
      <4>1. \A i \in DOMAIN sessions[s].buf : sessions[s].buf[i].seq \in Nat
        <5>1. sessions[s].buf \in Seq(Message)
          BY DEF LinkIInv, LinkTypeOK, ActiveSession
        <5>2. \A i \in DOMAIN sessions[s].buf : sessions[s].buf[i] \in Message
          BY <5>1, ElementOfSeq, LenProperties
        <5> QED
          BY <5>2 DEF Message
      <4>2. AndroidInv(s)
        BY <2>1, <3>3
      <4>3. (\A i \in DOMAIN sessions[s].buf :
               LET n == sessions[s].buf[i].seq
               IN Passed(s, n) \/ (ready[sessions[s].ws] # "open" /\ Above(s, n)))'
        BY <1>3, <1>7, <1>8, <2>3, <4>1, <4>2 DEF AndroidInv
      <4>4. (client.sess = s /\ client.sock = sessions[s].ws /\ client.sock # Nil => client.of = s)'
        BY <1>2, <1>3, <1>8, <4>2 DEF AndroidInv
      <4> QED
        BY <4>3, <4>4 DEF AndroidInv
    <3> QED
      BY <3>1, <3>2, <3>3
  <2> QED
    BY <2>2, <2>3
<1>9. Client = "web" => WebInv'
  BY <1>2 DEF LinkIInv, StreamInv, WebInv
<1>10. ASSUME NEW s \in Session, ~SameStream(sessions[s], sessions'[s])
       PROVE  LossInv(s)' /\ OrderInv(s)' /\ AndroidInv(s)'
  <2>1. ~Known(s) /\ sessions[s].seq = 0 /\ sessions'[s].seq = 0 /\ sessions'[s].buf = <<>>
    BY <1>3, <1>10
  <2>2. LossInv(s)'
    BY <2>1 DEF LossInv
  <2>3. \A n \in 1 .. LastSeq : copies[s][n] = 0
    <3>1. \A n \in 1 .. LastSeq : copies[s][n] \in 0 .. 2 /\ n > 0
      <4>1. copies[s] \in [1 .. LastSeq -> 0 .. 2]
        BY DEF LinkIInv, LinkTypeOK
      <4> QED
        BY <4>1, Numerals
    <3> QED
      BY <2>1, <3>1 DEF LinkIInv, WireInv
  <2>4. OrderInv(s)'
    BY <2>1, <2>3 DEF OrderInv, Known
  <2>5. AndroidInv(s)'
    BY <1>2, <2>1 DEF AndroidInv, Known
  <2> QED
    BY <2>2, <2>4, <2>5
<1>11. \A s \in Session : Known(s)' <=> Known(s)
  BY <1>2 DEF Known
<1> QED
  BY <1>5, <1>8, <1>9, <1>11, <1>10 DEF StreamInv

-----------------------------------------------------------------------------
(* Sending.                                                                *)

LEMMA MessageFields ==
  ASSUME NEW msgs \in Seq(Message)
  PROVE  \A i \in DOMAIN msgs : /\ msgs[i] \in Message /\ msgs[i].sess \in Session
                                /\ msgs[i].seq \in 1 .. LastSeq /\ msgs[i].token \in Nat
                                /\ msgs[i].kind \in Kind
<1>1. \A i \in DOMAIN msgs : msgs[i] \in Message
  BY ElementOfSeq, LenProperties
<1> QED
  BY <1>1 DEF Message, Kind

LEMMA Fields ==
  ASSUME LinkTypeOK
  PROVE  /\ \A s \in Session :
              /\ sessions[s] \in ActiveSession /\ sessions[s].ws \in Socket \union {Nil}
              /\ sessions[s].seq \in 0 .. LastSeq /\ sessions[s].seq \in Nat
              /\ sessions[s].token \in Nat
              /\ sessions[s].buf \in Seq(Message)
         /\ \A k \in Socket : down[k] \in Seq(Message)
         /\ \A s \in Session, n \in 1 .. LastSeq : copies[s][n] \in 0 .. 2
         /\ client.last \in Nat /\ client.token \in Nat
BY Numerals DEF LinkTypeOK, ActiveSession

(* What was sent has a number the session gave out.                        *)
LEMMA SentNumbers ==
  ASSUME LinkIInv, NEW s \in Session, NEW n \in 1 .. LastSeq, Sent(s, n)
  PROVE  n <= sessions[s].seq
<1>1. CASE copies[s][n] > 0
  BY <1>1 DEF LinkIInv, WireInv
<1>2. CASE <<s, n>> \in InFlight
  <2>1. PICK k \in Socket : \E i \in DOMAIN down[k] : down[k][i].sess = s /\ down[k][i].seq = n
    BY <1>2, InFlightMember DEF LinkIInv
  <2>2. PICK i \in DOMAIN down[k] : down[k][i].sess = s /\ down[k][i].seq = n
    BY <2>1
  <2> QED
    BY <2>2 DEF LinkIInv, WireInv, Numbers
<1> QED
  BY <1>1, <1>2 DEF Sent

(* The buffer of a send on a socket that is not open.                      *)
LEMMA BufferedMessages ==
  ASSUME NEW b \in Seq(Message), NEW msgs \in Seq(Message), Ordered(b), Ordered(msgs),
         \A i \in DOMAIN b, j \in DOMAIN msgs : b[i].seq < msgs[j].seq
  PROVE  LET all == b \o msgs
             buf == Capped(all)
         IN /\ buf \in Seq(Message) /\ Len(buf) <= BufferCap /\ Ordered(buf)
            /\ \A i \in DOMAIN buf : \/ \E j \in DOMAIN b : buf[i] = b[j]
                                     \/ \E j \in DOMAIN msgs : buf[i] = msgs[j]
            /\ all \in Seq(Message)
            /\ \A s, n : <<s, n>> \in Seqs(all) <=> <<s, n>> \in Seqs(b) \union Seqs(msgs)
<1> DEFINE all == b \o msgs
           buf == Capped(all)
<1>1. /\ all \in Seq(Message) /\ Ordered(all)
      /\ \A i \in DOMAIN all : \/ i \in DOMAIN b /\ all[i] = b[i]
                               \/ i - Len(b) \in DOMAIN msgs /\ all[i] = msgs[i - Len(b)]
      /\ \A i \in DOMAIN b : i \in DOMAIN all /\ all[i] = b[i]
      /\ \A i \in DOMAIN msgs : i + Len(b) \in DOMAIN all /\ all[i + Len(b)] = msgs[i]
  BY OrderedConcat
<1> HIDE DEF all
<1>2. PICK d \in 0 .. Len(all) :
        Capped(all) = SubSeq(all, d + 1, Len(all)) /\ Len(all) - d <= BufferCap
  BY <1>1, CappedEnd
<1>3. buf = SubSeq(all, d + 1, Len(all))
  BY <1>2
<1>4. /\ buf \in Seq(Message) /\ Len(buf) = Len(all) - d
      /\ \A i \in DOMAIN buf : i + d \in DOMAIN all /\ buf[i] = all[i + d]
  BY <1>1, <1>3, EndOfSeq
<1>5. Ordered(buf)
  BY <1>1, <1>3, OrderedEnd
<1> HIDE DEF buf
<1>6. ASSUME NEW i \in DOMAIN buf
      PROVE  \/ \E j \in DOMAIN b : buf[i] = b[j]
             \/ \E j \in DOMAIN msgs : buf[i] = msgs[j]
  <2>1. i + d \in DOMAIN all /\ buf[i] = all[i + d]
    BY <1>4
  <2> DEFINE j == i + d
  <2> HIDE DEF j
  <2>2. j \in DOMAIN all /\ buf[i] = all[j]
    BY <2>1 DEF j
  <2>3. CASE j \in DOMAIN b /\ all[j] = b[j]
    BY <2>2, <2>3
  <2>4. CASE j - Len(b) \in DOMAIN msgs /\ all[j] = msgs[j - Len(b)]
    BY <2>2, <2>4
  <2> QED
    BY <1>1, <2>2, <2>3, <2>4
<1>7. ASSUME NEW s, NEW n
      PROVE  <<s, n>> \in Seqs(all) <=> <<s, n>> \in Seqs(b) \union Seqs(msgs)
  <2>1. <<s, n>> \in Seqs(all) <=> \E i \in DOMAIN all : all[i].sess = s /\ all[i].seq = n
    <3>1. all \in Seq(Message)
      BY <1>1
    <3> QED
      BY <3>1, SeqsMember
  <2>2. <<s, n>> \in Seqs(b) <=> \E i \in DOMAIN b : b[i].sess = s /\ b[i].seq = n
    BY SeqsMember
  <2>3. <<s, n>> \in Seqs(msgs) <=> \E i \in DOMAIN msgs : msgs[i].sess = s /\ msgs[i].seq = n
    BY SeqsMember
  <2>4. ASSUME <<s, n>> \in Seqs(all) PROVE <<s, n>> \in Seqs(b) \union Seqs(msgs)
    BY <1>1, <2>1, <2>2, <2>3, <2>4
  <2>5. ASSUME <<s, n>> \in Seqs(b) \union Seqs(msgs) PROVE <<s, n>> \in Seqs(all)
    <3>1. CASE <<s, n>> \in Seqs(b)
      BY <1>1, <2>1, <2>2, <3>1
    <3>2. CASE <<s, n>> \in Seqs(msgs)
      BY <1>1, <2>1, <2>3, <3>2
    <3> QED
      BY <2>5, <3>1, <3>2
  <2> QED
    BY <2>4, <2>5
<1>8. Len(buf) <= BufferCap
  BY <1>2, <1>4
<1> QED
  BY <1>1, <1>4, <1>5, <1>6, <1>7, <1>8 DEF all, buf

(* What a send does to the session, the wire and the buffer.               *)
LEMMA SendFacts ==
  ASSUME LinkIInv, NEW s \in Session, NEW r \in ActiveSession, NEW kinds \in Seq(Kind),
         SameStream(r, sessions[s]), r.ws # Nil, r.seq + Len(kinds) <= LastSeq,
         SendToClient(s, r, kinds), UNCHANGED <<ready, cut, client, copies>>
  PROVE  LET q == sessions'[s]
             msgs == Numbered(s, r, kinds)
             wired == ready[r.ws] = "open" /\ r.ws \notin cut
         IN /\ sessions' = [sessions EXCEPT ![s] = q]
            /\ q = [r EXCEPT !.seq = r.seq + Len(kinds), !.buf = q.buf]
            /\ q.buf \in Seq(Message) /\ Len(q.buf) <= BufferCap /\ Ordered(q.buf)
            /\ \A i \in DOMAIN q.buf :
                 \/ \E j \in DOMAIN r.buf : q.buf[i] = r.buf[j]
                 \/ ready[r.ws] # "open" /\ \E j \in DOMAIN msgs : q.buf[i] = msgs[j]
            /\ \A n : \/ <<s, n>> \in Seqs(r.buf)
                      \/ <<s, n>> \in Seqs(msgs) /\ ready[r.ws] # "open"
                      => <<s, n>> \in Seqs(q.buf) \union lost'
            /\ \A n : <<s, n>> \in Seqs(msgs) /\ ready[r.ws] = "open" /\ r.ws \in cut
                        => <<s, n>> \in lost'
            /\ lost \subseteq lost' /\ lost' \subseteq Session \X (1 .. LastSeq)
            /\ down' = [down EXCEPT ![r.ws] = IF wired THEN @ \o msgs ELSE @]
<1> DEFINE q == sessions'[s]
           msgs == Numbered(s, r, kinds)
           n == Len(kinds)
           sent == [r EXCEPT !.seq = @ + n]
           all == r.buf \o msgs
<1>1. /\ r.ws \in Socket /\ r.seq \in Nat /\ r.buf \in Seq(Message)
      /\ r.buf = sessions[s].buf /\ r.seq = sessions[s].seq /\ Len(r.buf) <= BufferCap
  BY Numerals DEF SameStream, ActiveSession, LinkIInv, LinkTypeOK
<1>2. /\ msgs \in Seq(Message) /\ Ordered(msgs) /\ DOMAIN msgs = 1 .. n /\ n \in Nat
      /\ \A i \in 1 .. n : msgs[i] = [kind |-> kinds[i], sess |-> s, seq |-> r.seq + i, token |-> r.token]
  BY NumberedMessages, LenProperties
<1>3. Ordered(r.buf) /\ \A i \in DOMAIN r.buf : r.buf[i].seq <= r.seq /\ r.buf[i].sess = s
  BY <1>1 DEF LinkIInv, WireInv, Numbers
<1>4. Seqs(msgs) \subseteq Session \X (1 .. LastSeq) /\ Seqs(r.buf) \subseteq Session \X (1 .. LastSeq)
  <2>1. ASSUME NEW b \in Seq(Message) PROVE Seqs(b) \subseteq Session \X (1 .. LastSeq)
    <3>1. ToSet(b) \subseteq Message
      BY MessageFields DEF ToSet
    <3> QED
      BY <3>1 DEF Seqs, Message
  <2> QED
    BY <1>1, <1>2, <2>1
<1>5. lost \subseteq Session \X (1 .. LastSeq) /\ sessions \in [Session -> ActiveSession]
      /\ down \in [Socket -> Seq(Message)]
  BY DEF LinkIInv, LinkTypeOK
<1>6. /\ sent = [r EXCEPT !.seq = r.seq + n] /\ DOMAIN sent = DOMAIN r
      /\ sent.buf = r.buf /\ sent.seq = r.seq + n
      /\ "seq" \in DOMAIN r /\ "buf" \in DOMAIN r
  <2>1. "seq" \in DOMAIN r /\ "buf" \in DOMAIN r
    BY DEF ActiveSession
  <2> QED
    BY <2>1
<1> HIDE DEF msgs, sent, n
<1>7. CASE ready[r.ws] = "open"
  <2>1. sessions' = [sessions EXCEPT ![s] = sent] /\ OnWire(r.ws, msgs)
    BY <1>7 DEF SendToClient, msgs, sent, n
  <2>2. q = sent
    BY <1>5, <2>1
  <2>3. sessions' = [sessions EXCEPT ![s] = q]
    BY <2>1, <2>2
  <2>4. q = [r EXCEPT !.seq = r.seq + n, !.buf = q.buf] /\ q.buf = r.buf
    BY <1>6, <2>2
  <2>5. lost' = lost \union (IF r.ws \in cut THEN Seqs(msgs) ELSE {})
    BY <2>1 DEF OnWire
  <2>6. /\ lost \subseteq lost' /\ lost' \subseteq Session \X (1 .. LastSeq)
        /\ \A m : <<s, m>> \in Seqs(msgs) /\ r.ws \in cut => <<s, m>> \in lost'
    BY <1>4, <1>5, <2>5
  <2>7. down' = [down EXCEPT ![r.ws] = IF ready[r.ws] = "open" /\ r.ws \notin cut THEN @ \o msgs ELSE @]
    BY <1>7, <2>1 DEF OnWire
  <2> HIDE DEF q
  <2> QED
    BY <1>1, <1>3, <1>7, <2>3, <2>4, <2>6, <2>7 DEF q, msgs, n
<1>8. CASE ready[r.ws] # "open"
  <2>1. /\ sessions' = [sessions EXCEPT ![s] = [sent EXCEPT !.buf = Capped(all)]]
        /\ lost' = lost \union (Seqs(all) \ Seqs(Capped(all))) /\ down' = down
    BY <1>8 DEF SendToClient, msgs, sent, n, all
  <2>2. q = [sent EXCEPT !.buf = Capped(all)]
    BY <1>5, <2>1
  <2>3. sessions' = [sessions EXCEPT ![s] = q]
    BY <2>1, <2>2
  <2>4. q.buf = Capped(all)
    BY <1>6, <2>2
  <2>5. q = [r EXCEPT !.seq = r.seq + n, !.buf = q.buf]
    BY <1>6, <2>2, <2>4
  <2>6. \A i \in DOMAIN r.buf, j \in DOMAIN msgs : r.buf[i].seq < msgs[j].seq
    <3>1. \A i \in DOMAIN r.buf : r.buf[i].seq \in Nat
      BY <1>1, MessageFields
    <3> QED
      BY <1>1, <1>2, <1>3, <3>1
  <2>7. /\ q.buf \in Seq(Message) /\ Len(q.buf) <= BufferCap /\ Ordered(q.buf)
        /\ \A i \in DOMAIN q.buf : \/ \E j \in DOMAIN r.buf : q.buf[i] = r.buf[j]
                                   \/ \E j \in DOMAIN msgs : q.buf[i] = msgs[j]
        /\ \A t, m : <<t, m>> \in Seqs(all) <=> <<t, m>> \in Seqs(r.buf) \union Seqs(msgs)
    <3>1. r.buf \in Seq(Message) /\ msgs \in Seq(Message) /\ Ordered(r.buf) /\ Ordered(msgs)
      BY <1>1, <1>2, <1>3
    <3>2. /\ Capped(all) \in Seq(Message) /\ Len(Capped(all)) <= BufferCap /\ Ordered(Capped(all))
          /\ \A i \in DOMAIN Capped(all) : \/ \E j \in DOMAIN r.buf : Capped(all)[i] = r.buf[j]
                                          \/ \E j \in DOMAIN msgs : Capped(all)[i] = msgs[j]
          /\ \A t, m : <<t, m>> \in Seqs(all) <=> <<t, m>> \in Seqs(r.buf) \union Seqs(msgs)
      BY <2>6, <3>1, BufferedMessages
    <3> HIDE DEF q, all
    <3> QED
      BY <2>4, <3>2
  <2>8. Seqs(all) \subseteq Session \X (1 .. LastSeq)
    <3>1. all \in Seq(Message)
      BY <1>1, <1>2, ConcatProperties
    <3>2. ToSet(all) \subseteq Message
      BY <3>1, MessageFields DEF ToSet
    <3> QED
      BY <3>2 DEF Seqs, Message
  <2>9. /\ lost \subseteq lost' /\ lost' \subseteq Session \X (1 .. LastSeq)
        /\ \A m : <<s, m>> \in Seqs(r.buf) \/ <<s, m>> \in Seqs(msgs)
                    => <<s, m>> \in Seqs(q.buf) \union lost'
    BY <1>5, <2>1, <2>4, <2>7, <2>8
  <2>10. down' = [down EXCEPT ![r.ws] = IF ready[r.ws] = "open" /\ r.ws \notin cut THEN @ \o msgs ELSE @]
    BY <1>5, <1>8, <2>1
  <2> HIDE DEF q, all
  <2> QED
    BY <1>8, <2>3, <2>5, <2>7, <2>9, <2>10 DEF q, msgs, n
<1> QED
  BY <1>7, <1>8

(* A send keeps the messages in order and forgets none of them.            *)
LEMMA SendWire ==
  ASSUME LinkIInv, NEW s \in Session, NEW r \in ActiveSession, NEW kinds \in Seq(Kind),
         SameStream(r, sessions[s]), r.ws # Nil, r.seq + Len(kinds) <= LastSeq,
         SendToClient(s, r, kinds), UNCHANGED <<ready, cut, client, copies>>
  PROVE  /\ sessions' = [sessions EXCEPT ![s] = sessions'[s]]
         /\ sessions'[s] = [r EXCEPT !.seq = r.seq + Len(kinds), !.buf = sessions'[s].buf]
         /\ sessions'[s] \in ActiveSession /\ Len(sessions'[s].buf) <= BufferCap
         /\ down' \in [Socket -> Seq(Message)] /\ lost' \subseteq Session \X (1 .. LastSeq)
         /\ \A k \in Socket : down'[k] # <<>> =>
              down[k] # <<>> \/ (k = r.ws /\ ready[k] = "open" /\ k \notin cut)
         /\ \A t \in Session : Known(t)' => Known(t) \/ (t = s /\ ready[r.ws] = "open" /\ r.ws \notin cut)
         /\ WireInv' /\ StreamInv'
<1> DEFINE q == sessions'[s]
           msgs == Numbered(s, r, kinds)
           len == Len(kinds)
           wired == ready[r.ws] = "open" /\ r.ws \notin cut
           fresh(n) == n \in r.seq + 1 .. r.seq + len
<1> USE DEF SameStream
<1>1. /\ sessions' = [sessions EXCEPT ![s] = q]
      /\ q = [r EXCEPT !.seq = r.seq + len, !.buf = q.buf]
      /\ q.buf \in Seq(Message) /\ Len(q.buf) <= BufferCap /\ Ordered(q.buf)
      /\ \A i \in DOMAIN q.buf :
           \/ \E j \in DOMAIN r.buf : q.buf[i] = r.buf[j]
           \/ ready[r.ws] # "open" /\ \E j \in DOMAIN msgs : q.buf[i] = msgs[j]
      /\ \A n : \/ <<s, n>> \in Seqs(r.buf)
                \/ <<s, n>> \in Seqs(msgs) /\ ready[r.ws] # "open"
                => <<s, n>> \in Seqs(q.buf) \union lost'
      /\ \A n : <<s, n>> \in Seqs(msgs) /\ ready[r.ws] = "open" /\ r.ws \in cut
                  => <<s, n>> \in lost'
      /\ lost \subseteq lost' /\ lost' \subseteq Session \X (1 .. LastSeq)
      /\ down' = [down EXCEPT ![r.ws] = IF wired THEN @ \o msgs ELSE @]
  BY SendFacts
<1> HIDE DEF q
<1>2. /\ msgs \in Seq(Message) /\ Ordered(msgs) /\ DOMAIN msgs = 1 .. len
      /\ \A i \in 1 .. len : msgs[i] = [kind |-> kinds[i], sess |-> s, seq |-> r.seq + i, token |-> r.token]
  BY NumberedMessages
<1> HIDE DEF msgs
<1>3. /\ r.ws \in Socket /\ r.seq \in Nat /\ r.token \in Nat /\ len \in Nat /\ LastSeq \in Nat
      /\ r.buf \in Seq(Message)
  BY Numerals, LenProperties DEF ActiveSession
<1>4. /\ r.ws = sessions[s].ws /\ r.seq = sessions[s].seq /\ r.token = sessions[s].token
      /\ r.buf = sessions[s].buf /\ r.strayed = sessions[s].strayed
  OBVIOUS
<1>5. /\ q \in ActiveSession /\ q.ws = r.ws /\ q.seq = r.seq + len /\ q.token = r.token
      /\ q.strayed = r.strayed
  <2>1. r.seq + len \in 0 .. LastSeq
    BY <1>3
  <2> HIDE DEF len
  <2> QED
    BY <1>1, <2>1 DEF ActiveSession
<1> HIDE DEF len
<1>6. /\ sessions \in [Session -> ActiveSession] /\ down \in [Socket -> Seq(Message)]
      /\ WireInv /\ OwnSocket /\ StreamInv
  BY DEF LinkIInv, LinkTypeOK
<1>7. /\ sessions'[s] = q /\ \A t \in Session : t # s => sessions'[t] = sessions[t]
      /\ DOMAIN sessions' = Session
  BY <1>1, <1>6 DEF q
<1>8. /\ \A k \in Socket : k # r.ws => down'[k] = down[k]
      /\ down'[r.ws] = IF wired THEN down[r.ws] \o msgs ELSE down[r.ws]
  BY <1>1, <1>3, <1>6
<1>9. \A i \in DOMAIN down[r.ws] : down[r.ws][i].sess = s /\ down[r.ws][i].seq <= r.seq
  <2>1. \A i \in DOMAIN down[r.ws] : down[r.ws][i].sess \in Session
    BY <1>3, <1>6, MessageFields
  <2> SUFFICES ASSUME NEW i \in DOMAIN down[r.ws]
               PROVE  down[r.ws][i].sess = s /\ down[r.ws][i].seq <= r.seq
    OBVIOUS
  <2>2. Numbers(down[r.ws][i]) /\ sessions[down[r.ws][i].sess].ws = r.ws
    BY <1>3, <1>6 DEF WireInv
  <2>3. sessions[s].ws # Nil
    BY <1>4
  <2>4. down[r.ws][i].sess = s
    BY <1>4, <1>6, <2>1, <2>2, <2>3 DEF OwnSocket
  <2> QED
    BY <1>4, <2>2, <2>4 DEF Numbers
<1>10. \A i \in DOMAIN down[r.ws], j \in DOMAIN msgs : down[r.ws][i].seq < msgs[j].seq
  <2>1. \A i \in DOMAIN down[r.ws] : down[r.ws][i].seq \in Nat
    BY <1>3, <1>6, MessageFields
  <2> QED
    BY <1>2, <1>3, <1>9, <2>1
<1>11. ASSUME NEW k \in Socket
       PROVE  /\ down'[k] \in Seq(Message) /\ Ordered(down'[k])
              /\ \A i \in DOMAIN down'[k] :
                   \/ i \in DOMAIN down[k] /\ down'[k][i] = down[k][i]
                   \/ k = r.ws /\ wired /\ \E j \in DOMAIN msgs : down'[k][i] = msgs[j]
              /\ \A i \in DOMAIN down[k] : i \in DOMAIN down'[k] /\ down'[k][i] = down[k][i]
              /\ k = r.ws /\ wired =>
                   \A j \in DOMAIN msgs : \E i \in DOMAIN down'[k] : down'[k][i] = msgs[j]
  <2>1. down[k] \in Seq(Message) /\ Ordered(down[k])
    BY <1>6 DEF WireInv
  <2>2. CASE ~(k = r.ws /\ wired)
    BY <1>8, <2>1, <2>2
  <2>3. CASE k = r.ws /\ wired
    <3>1. down'[k] = down[k] \o msgs
      BY <1>8, <2>3
    <3> HIDE DEF wired
    <3>2. /\ down[k] \o msgs \in Seq(Message) /\ Ordered(down[k] \o msgs)
          /\ \A i \in DOMAIN (down[k] \o msgs) :
               \/ i \in DOMAIN down[k] /\ (down[k] \o msgs)[i] = down[k][i]
               \/ i - Len(down[k]) \in DOMAIN msgs /\ (down[k] \o msgs)[i] = msgs[i - Len(down[k])]
          /\ \A i \in DOMAIN down[k] : i \in DOMAIN (down[k] \o msgs) /\ (down[k] \o msgs)[i] = down[k][i]
          /\ \A i \in DOMAIN msgs : /\ i + Len(down[k]) \in DOMAIN (down[k] \o msgs)
                                    /\ (down[k] \o msgs)[i + Len(down[k])] = msgs[i]
      BY <1>2, <1>10, <2>1, <2>3, OrderedConcat
    <3>3. \A i \in DOMAIN down'[k] :
               \/ i \in DOMAIN down[k] /\ down'[k][i] = down[k][i]
               \/ \E j \in DOMAIN msgs : down'[k][i] = msgs[j]
      <4> SUFFICES ASSUME NEW i \in DOMAIN (down[k] \o msgs)
                   PROVE  \/ i \in DOMAIN down[k] /\ (down[k] \o msgs)[i] = down[k][i]
                          \/ \E j \in DOMAIN msgs : (down[k] \o msgs)[i] = msgs[j]
        BY <3>1
      <4> DEFINE j == i - Len(down[k])
      <4> HIDE DEF j
      <4>1. \/ i \in DOMAIN down[k] /\ (down[k] \o msgs)[i] = down[k][i]
            \/ j \in DOMAIN msgs /\ (down[k] \o msgs)[i] = msgs[j]
        BY <3>2 DEF j
      <4> QED
        BY <4>1
    <3>4. \A j \in DOMAIN msgs : \E i \in DOMAIN down'[k] : down'[k][i] = msgs[j]
      <4> SUFFICES ASSUME NEW j \in DOMAIN msgs
                   PROVE  \E i \in DOMAIN (down[k] \o msgs) : (down[k] \o msgs)[i] = msgs[j]
        BY <3>1
      <4> DEFINE i == j + Len(down[k])
      <4> HIDE DEF i
      <4>1. i \in DOMAIN (down[k] \o msgs) /\ (down[k] \o msgs)[i] = msgs[j]
        BY <3>2 DEF i
      <4> QED
        BY <4>1
    <3> QED
      BY <2>3, <3>1, <3>2, <3>3, <3>4
  <2> QED
    BY <2>2, <2>3
<1>12. /\ \A i \in DOMAIN msgs : /\ msgs[i].sess = s /\ msgs[i].seq = r.seq + i
                                 /\ msgs[i].token = r.token /\ fresh(msgs[i].seq)
       /\ \A n : fresh(n) => n - r.seq \in DOMAIN msgs /\ msgs[n - r.seq].seq = n
       /\ \A n : fresh(n) => <<s, n>> \in Seqs(msgs)
  <2>1. \A i \in DOMAIN msgs : /\ msgs[i].sess = s /\ msgs[i].seq = r.seq + i
                               /\ msgs[i].token = r.token /\ fresh(msgs[i].seq)
    BY <1>2, <1>3
  <2>2. \A n : fresh(n) => n - r.seq \in DOMAIN msgs /\ msgs[n - r.seq].seq = n
    BY <1>2, <1>3
  <2>3. \A n : fresh(n) => <<s, n>> \in Seqs(msgs)
    <3>1. msgs \in Seq(Message)
      BY <1>2
    <3>2. \A n : <<s, n>> \in Seqs(msgs) <=> \E i \in DOMAIN msgs : msgs[i].sess = s /\ msgs[i].seq = n
      BY <3>1, SeqsMember
    <3> SUFFICES ASSUME NEW n, fresh(n) PROVE <<s, n>> \in Seqs(msgs)
      OBVIOUS
    <3> DEFINE i == n - r.seq
    <3>3. i \in DOMAIN msgs /\ msgs[i].seq = n /\ msgs[i].sess = s
      BY <2>1, <2>2
    <3> HIDE DEF i, fresh
    <3> QED
      BY <3>2, <3>3
  <2> QED
    BY <2>1, <2>2, <2>3
<1>13. \A t \in Session : /\ sessions'[t].seq >= sessions[t].seq /\ sessions'[t].token = sessions[t].token
                          /\ sessions'[t].ws = sessions[t].ws
                          /\ sessions'[t].strayed = sessions[t].strayed
  <2>1. \A t \in Session : sessions[t].seq \in Nat
    BY Fields DEF LinkIInv
  <2> QED
    BY <1>3, <1>4, <1>5, <1>7, <2>1
<1>14. \A m \in Message : Numbers(m) => Numbers(m)'
  <2>1. \A m \in Message : /\ m.sess \in Session /\ m.seq \in Nat
                           /\ sessions[m.sess].seq \in Nat /\ sessions'[m.sess].seq \in Nat
    <3>1. \A t \in Session : sessions[t].seq \in Nat /\ sessions'[t].seq \in Nat
      BY <1>3, <1>5, <1>7, Fields DEF LinkIInv
    <3> QED
      <4>1. \A m \in Message : m.sess \in Session /\ m.seq \in Nat
        BY DEF Message
      <4> QED
        BY <3>1, <4>1
  <2> QED
    BY <1>13, <2>1 DEF Numbers
<1>15. WireInv'
  <2>1. \A i \in DOMAIN msgs : Numbers(msgs[i])'
    BY <1>2, <1>3, <1>5, <1>7, <1>12 DEF Numbers
  <2>2. (\A k \in Socket :
           /\ Ordered(down[k])
           /\ \A i \in DOMAIN down[k] : Numbers(down[k][i]) /\ sessions[down[k][i].sess].ws = k)'
    <3> SUFFICES ASSUME NEW k \in Socket
                 PROVE  /\ Ordered(down'[k])
                        /\ \A i \in DOMAIN down'[k] : /\ Numbers(down[k][i])'
                                                      /\ sessions'[down'[k][i].sess].ws = k
      BY DEF Ordered
    <3>1. ASSUME NEW i \in DOMAIN down'[k]
          PROVE  Numbers(down[k][i])' /\ sessions'[down'[k][i].sess].ws = k
      <4>1. CASE i \in DOMAIN down[k] /\ down'[k][i] = down[k][i]
        <5>1. down[k][i] \in Message /\ down[k][i].sess \in Session
          BY <1>6, <4>1, MessageFields
        <5>2. Numbers(down[k][i]) /\ sessions[down[k][i].sess].ws = k
          BY <1>6, <4>1 DEF WireInv
        <5> QED
          BY <1>13, <1>14, <4>1, <5>1, <5>2 DEF Numbers
      <4>2. CASE k = r.ws /\ \E j \in DOMAIN msgs : down'[k][i] = msgs[j]
        BY <1>5, <1>7, <1>12, <2>1, <4>2 DEF Numbers
      <4> QED
        BY <1>11, <4>1, <4>2
    <3> QED
      BY <1>11, <3>1
  <2>3. (\A t \in Session :
           LET buf == sessions[t].buf
           IN Ordered(buf) /\ \A i \in DOMAIN buf : Numbers(buf[i]) /\ buf[i].sess = t)'
    <3> SUFFICES ASSUME NEW t \in Session
                 PROVE  /\ Ordered(sessions'[t].buf)
                        /\ \A i \in DOMAIN sessions'[t].buf :
                             Numbers(sessions[t].buf[i])' /\ sessions'[t].buf[i].sess = t
      BY DEF Ordered
    <3>1. /\ sessions[t].buf \in Seq(Message) /\ Ordered(sessions[t].buf)
          /\ \A i \in DOMAIN sessions[t].buf : /\ sessions[t].buf[i] \in Message
                                               /\ Numbers(sessions[t].buf[i])
                                               /\ sessions[t].buf[i].sess = t
      BY <1>6, Fields, MessageFields DEF WireInv, LinkIInv
    <3>2. CASE t # s
      BY <1>7, <1>14, <3>1, <3>2 DEF Numbers
    <3>3. CASE t = s
      <4>1. \A j \in DOMAIN r.buf : r.buf[j].sess = s
        BY <1>4, <3>1, <3>3
      <4>2. \A j \in DOMAIN r.buf : r.buf[j].seq <= q.seq /\ r.buf[j].token <= q.token
        <5>1. \A j \in DOMAIN r.buf : /\ r.buf[j].seq <= r.seq /\ r.buf[j].token <= r.token
                                      /\ r.buf[j].seq \in Nat
          BY <1>3, <1>4, <3>1, <3>3, MessageFields DEF Numbers
        <5> QED
          BY <1>3, <1>5, <5>1
      <4>3. \A j \in DOMAIN msgs : msgs[j].seq <= q.seq /\ msgs[j].token <= q.token /\ msgs[j].sess = s
        BY <1>2, <1>3, <1>5, <1>12
      <4>4. \A i \in DOMAIN q.buf : q.buf[i].seq <= q.seq /\ q.buf[i].token <= q.token /\ q.buf[i].sess = s
        BY <1>1, <4>1, <4>2, <4>3
      <4> QED
        BY <1>1, <1>7, <3>3, <4>4 DEF Numbers
    <3> QED
      BY <3>2, <3>3
  <2>4. \A t \in Session, n \in 1 .. LastSeq : copies'[t][n] > 0 => n <= sessions'[t].seq
    <3>1. \A t \in Session : sessions[t].seq \in Nat /\ sessions'[t].seq \in Nat
      BY <1>3, <1>5, <1>7, Fields DEF LinkIInv
    <3> QED
      BY <1>6, <1>13, <3>1 DEF WireInv
  <2>5. (client.of # Nil => client.last # 0 /\ copies[client.of][client.last] > 0)'
    BY <1>6 DEF WireInv
  <2> QED
    BY <2>2, <2>3, <2>4, <2>5 DEF WireInv
<1>16. ASSUME NEW t \in Session, NEW n
       PROVE  Sent(t, n)' <=> Sent(t, n) \/ (wired /\ t = s /\ fresh(n))
  <2>1. <<t, n>> \in InFlight <=>
          \E k \in Socket : \E i \in DOMAIN down[k] : down[k][i].sess = t /\ down[k][i].seq = n
    BY InFlightMember DEF LinkIInv
  <2>2. <<t, n>> \in InFlight' <=>
          \E k \in Socket : \E i \in DOMAIN down'[k] : down'[k][i].sess = t /\ down'[k][i].seq = n
    <3>1. \A k \in Socket : down'[k] \in Seq(Message)
      BY <1>11
    <3> QED
      BY <3>1, InFlightIn DEF InFlight
  <2>3. ASSUME <<t, n>> \in InFlight' PROVE <<t, n>> \in InFlight \/ (wired /\ t = s /\ fresh(n))
    <3>1. PICK k \in Socket : \E i \in DOMAIN down'[k] : down'[k][i].sess = t /\ down'[k][i].seq = n
      BY <2>2, <2>3
    <3>2. PICK i \in DOMAIN down'[k] : down'[k][i].sess = t /\ down'[k][i].seq = n
      BY <3>1
    <3> HIDE DEF wired, fresh
    <3> QED
      BY <1>11, <1>12, <2>1, <3>2
  <2>4. ASSUME <<t, n>> \in InFlight PROVE <<t, n>> \in InFlight'
    BY <1>11, <2>1, <2>2, <2>4
  <2>5. ASSUME wired, t = s, fresh(n) PROVE <<t, n>> \in InFlight'
    <3> HIDE DEF wired, fresh
    <3>1. PICK j \in DOMAIN msgs : msgs[j].seq = n /\ msgs[j].sess = s
      BY <1>12, <2>5
    <3>2. PICK i \in DOMAIN down'[r.ws] : down'[r.ws][i] = msgs[j]
      BY <1>3, <1>11, <2>5
    <3> QED
      BY <1>3, <2>2, <2>5, <3>1, <3>2
  <2> QED
    BY <2>3, <2>4, <2>5 DEF Sent
<1>17. \A t \in Session, n \in 1 .. LastSeq : Sent(t, n) => n <= sessions[t].seq
  BY SentNumbers
<1>18. ASSUME NEW t \in Session, NEW n \in Nat, n > 0, n <= LastSeq
       PROVE  Passed(t, n) /\ n <= sessions[t].seq => Passed(t, n)'
  <2> SUFFICES ASSUME Passed(t, n), n <= sessions[t].seq PROVE Passed(t, n)'
    OBVIOUS
  <2>1. (\A k \in Socket : \A i \in DOMAIN down[k] :
           LET m == down[k][i]
           IN m.sess = t /\ m.kind = "start" /\ m.token = sessions[t].token => m.seq > n)'
    <3> SUFFICES ASSUME NEW k \in Socket, NEW i \in DOMAIN down'[k],
                        down'[k][i].sess = t, down'[k][i].kind = "start",
                        down'[k][i].token = sessions'[t].token
                 PROVE  down'[k][i].seq > n
      OBVIOUS
    <3>1. CASE i \in DOMAIN down[k] /\ down'[k][i] = down[k][i]
      BY <1>13, <3>1 DEF Passed
    <3>2. CASE \E j \in DOMAIN msgs : down'[k][i] = msgs[j]
      <4>1. PICK j \in DOMAIN msgs : down'[k][i] = msgs[j]
        BY <3>2
      <4>2. t = s /\ down'[k][i].seq = r.seq + j /\ j \in 1 .. len
        BY <1>2, <1>12, <4>1
      <4> QED
        BY <1>3, <1>4, <4>2
    <3> QED
      BY <1>11, <3>1, <3>2
  <2>2. (client.sess = t /\ client.of = t /\ client.token = sessions[t].token => client.last >= n)'
    BY <1>13 DEF Passed
  <2> QED
    BY <2>1, <2>2 DEF Passed
<1>19. ASSUME NEW t \in Session, ~sessions'[t].strayed
       PROVE  LossInv(t)' /\ OrderInv(t)' /\ (Client = "android" => AndroidInv(t)')
  <2>1. LossInv(t) /\ OrderInv(t) /\ (Client = "android" => AndroidInv(t))
    BY <1>6, <1>13, <1>19 DEF StreamInv
  <2>2. ASSUME NEW n, Covered(t, n) PROVE Covered(t, n)'
    BY <1>1, <1>16, <2>2 DEF Covered
  <2>3. ASSUME NEW n \in Nat, Above(t, n), ready[sessions[t].ws] # "open" PROVE Above(t, n)'
    <3> SUFFICES ASSUME NEW m \in 1 .. LastSeq, Sent(t, m)' PROVE m < n
      BY DEF Above
    <3>1. Sent(t, m)
      BY <1>4, <1>16, <2>3
    <3> QED
      BY <2>3, <3>1 DEF Above
  <2>4. ASSUME NEW n \in Nat, n > r.seq, ready[r.ws] # "open" PROVE Above(s, n)'
    <3> SUFFICES ASSUME NEW m \in 1 .. LastSeq, Sent(s, m)' PROVE m < n
      BY DEF Above
    <3>1. Sent(s, m) /\ m <= r.seq
      BY <1>4, <1>16, <1>17, <2>4
    <3> QED
      BY <1>3, <2>4, <3>1
  <2>5. ASSUME NEW n \in 1 .. sessions'[t].seq, ~Covered(t, n)'
        PROVE  /\ <<t, n>> \in Seqs(sessions'[t].buf)
               /\ ready'[sessions'[t].ws] # "open"
               /\ Above(t, n)'
    <3>0. sessions'[t].seq \in Nat /\ n \in Nat /\ ~Covered(t, n)
      BY <1>3, <1>5, <1>7, <2>2, <2>5, Fields DEF LinkIInv
    <3>1. CASE n \in 1 .. sessions[t].seq
      <4>1. <<t, n>> \in Seqs(sessions[t].buf) /\ ready[sessions[t].ws] # "open" /\ Above(t, n)
        BY <2>1, <3>0, <3>1 DEF LossInv
      <4>2. <<t, n>> \in Seqs(sessions'[t].buf)
        <5>1. <<t, n>> \notin lost'
          BY <2>5 DEF Covered
        <5> QED
          BY <1>1, <1>4, <1>7, <4>1, <5>1
      <4> QED
        BY <1>13, <2>3, <3>0, <4>1, <4>2
    <3>2. CASE ~(n \in 1 .. sessions[t].seq)
      <4>1. t = s /\ fresh(n) /\ n > r.seq
        BY <1>3, <1>4, <1>5, <1>7, <2>5, <3>0, <3>2
      <4>2. ~wired /\ <<s, n>> \in Seqs(msgs) /\ <<s, n>> \notin lost'
        BY <1>12, <1>16, <2>5, <4>1 DEF Covered
      <4>3. ready[r.ws] # "open"
        BY <1>1, <4>2
      <4>4. <<s, n>> \in Seqs(q.buf)
        BY <1>1, <4>2, <4>3
      <4> QED
        BY <1>4, <1>7, <1>13, <2>4, <3>0, <4>1, <4>3, <4>4
    <3> QED
      BY <3>1, <3>2
  <2>6. LossInv(t)'
    BY <2>5 DEF LossInv
  <2>7. OrderInv(t)'
    <3>1. (\A k \in Socket : \A i \in DOMAIN down[k] :
             down[k][i].sess = t => \A n \in down[k][i].seq .. LastSeq : copies[t][n] = 0)'
      <4> SUFFICES ASSUME NEW k \in Socket, NEW i \in DOMAIN down'[k], down'[k][i].sess = t,
                          NEW n \in down'[k][i].seq .. LastSeq
                   PROVE  copies[t][n] = 0
        OBVIOUS
      <4>1. CASE i \in DOMAIN down[k] /\ down'[k][i] = down[k][i]
        BY <2>1, <4>1 DEF OrderInv
      <4>2. CASE \E j \in DOMAIN msgs : down'[k][i] = msgs[j]
        <5>1. PICK j \in DOMAIN msgs : down'[k][i] = msgs[j]
          BY <4>2
        <5>2. t = s /\ down'[k][i].seq = r.seq + j /\ j \in 1 .. len
          BY <1>2, <1>12, <5>1
        <5>3. n \in 1 .. LastSeq /\ n > r.seq
          BY <1>3, <5>2
        <5>4. copies[t][n] \in 0 .. 2
          BY <5>3, Fields DEF LinkIInv
        <5> QED
          BY <1>3, <1>4, <1>6, <5>2, <5>3, <5>4 DEF WireInv
      <4> QED
        BY <1>11, <4>1, <4>2
    <3>2. (\A n \in 1 .. LastSeq : copies[t][n] <= 1)'
      BY <2>1 DEF OrderInv
    <3> QED
      BY <3>1, <3>2 DEF OrderInv
  <2>8. ASSUME Client = "android" PROVE AndroidInv(t)'
    <3>1. (client.sess = t /\ client.sock = sessions[t].ws /\ client.sock # Nil => client.of = t)'
      BY <1>13, <2>1, <2>8 DEF AndroidInv
    <3>2. ASSUME NEW j \in DOMAIN sessions[t].buf, NEW n, n = sessions[t].buf[j].seq
          PROVE  Passed(t, n)' \/ (ready[sessions[t].ws] # "open" /\ Above(t, n)')
      <4>1. n \in Nat /\ n > 0 /\ n <= LastSeq
        <5>1. sessions[t].buf[j].seq \in 1 .. LastSeq
          BY Fields, MessageFields DEF LinkIInv
        <5> QED
          BY <1>3, <3>2, <5>1
      <4>2. n <= sessions[t].seq
        BY <1>6, <3>2 DEF WireInv, Numbers
      <4>3. Passed(t, n) \/ (ready[sessions[t].ws] # "open" /\ Above(t, n))
        BY <2>1, <2>8, <3>2 DEF AndroidInv
      <4> QED
        BY <1>18, <2>3, <4>1, <4>2, <4>3
    <3>3. ASSUME NEW i \in DOMAIN sessions'[t].buf, NEW n, n = sessions'[t].buf[i].seq
          PROVE  Passed(t, n)' \/ (ready'[sessions'[t].ws] # "open" /\ Above(t, n)')
      <4>1. CASE \E j \in DOMAIN sessions[t].buf : sessions'[t].buf[i] = sessions[t].buf[j]
        <5>1. PICK j \in DOMAIN sessions[t].buf : sessions'[t].buf[i] = sessions[t].buf[j]
          BY <4>1
        <5>2. n = sessions[t].buf[j].seq
          BY <3>3, <5>1
        <5> QED
          BY <1>13, <3>2, <5>2
      <4>2. CASE t = s /\ ready[r.ws] # "open" /\ \E j \in DOMAIN msgs : q.buf[i] = msgs[j]
        <5>1. PICK j \in DOMAIN msgs : q.buf[i] = msgs[j]
          BY <4>2
        <5>2. n \in Nat /\ n > r.seq
          <6>1. msgs[j].seq = r.seq + j /\ j \in 1 .. len
            BY <1>2, <1>12
          <6>2. n = msgs[j].seq
            BY <1>7, <3>3, <4>2, <5>1
          <6> QED
            BY <1>3, <6>1, <6>2
        <5> QED
          BY <1>4, <1>13, <2>4, <4>2, <5>2
      <4> QED
        BY <1>1, <1>4, <1>7, <4>1, <4>2
    <3>4. (\A i \in DOMAIN sessions[t].buf :
             LET n == sessions[t].buf[i].seq
             IN Passed(t, n) \/ (ready[sessions[t].ws] # "open" /\ Above(t, n)))'
      BY <3>3
    <3> QED
      BY <3>1, <3>4 DEF AndroidInv
  <2> QED
    BY <2>6, <2>7, <2>8
<1>20. StreamInv'
  <2>1. Client = "web" => WebInv'
    BY <1>6 DEF StreamInv, WebInv
  <2> QED
    BY <1>19, <2>1 DEF StreamInv
<1>21. \A t \in Session : Known(t)' => Known(t) \/ (t = s /\ wired)
  <2> SUFFICES ASSUME NEW t \in Session, Known(t)', ~Known(t) PROVE t = s /\ wired
    OBVIOUS
  <2>1. PICK k \in Socket : \E i \in DOMAIN down'[k] : down'[k][i].sess = t
    BY DEF Known
  <2>2. PICK i \in DOMAIN down'[k] : down'[k][i].sess = t
    BY <2>1
  <2> HIDE DEF wired
  <2> QED
    BY <1>11, <1>12, <2>2 DEF Known
<1>22. \A k \in Socket : down'[k] # <<>> => down[k] # <<>> \/ (k = r.ws /\ wired)
  BY <1>8
<1>23. down' \in [Socket -> Seq(Message)]
  BY <1>1, <1>6, <1>11
<1> QED
  BY <1>1, <1>5, <1>15, <1>20, <1>21, <1>22, <1>23 DEF q, len

-----------------------------------------------------------------------------
(* Messages that arrive, or die with their connection.                     *)

LEMMA CutWire ==
  ASSUME LinkIInv, NEW c \in Socket, Cut(c)
  PROVE  /\ down' \in [Socket -> Seq(Message)] /\ lost' \subseteq Session \X (1 .. LastSeq)
         /\ \A s \in Session : Known(s)' => Known(s)
         /\ WireInv' /\ StreamInv'
<1>1. /\ lost' = lost \union Seqs(down[c]) /\ down' = [down EXCEPT ![c] = <<>>]
      /\ sessions' = sessions /\ ready' = ready /\ client' = client /\ copies' = copies
  BY DEF Cut
<1>2. /\ down \in [Socket -> Seq(Message)] /\ lost \subseteq Session \X (1 .. LastSeq)
      /\ WireInv /\ StreamInv /\ LinkTypeOK
  BY DEF LinkIInv, LinkTypeOK
<1>3. /\ down'[c] = <<>> /\ \A k \in Socket : k # c => down'[k] = down[k]
      /\ down' \in [Socket -> Seq(Message)]
      /\ \A k \in Socket : \A i \in DOMAIN down'[k] : i \in DOMAIN down[k] /\ down'[k][i] = down[k][i]
  BY <1>1, <1>2
<1>4. Seqs(down[c]) \subseteq Session \X (1 .. LastSeq)
  <2>1. ToSet(down[c]) \subseteq Message
    BY <1>2, MessageFields DEF ToSet
  <2> QED
    BY <2>1 DEF Seqs, Message
<1>5. ASSUME NEW s, NEW n
      PROVE  /\ <<s, n>> \in InFlight' => <<s, n>> \in InFlight
             /\ <<s, n>> \in InFlight => <<s, n>> \in InFlight' \/ <<s, n>> \in lost'
  <2>1. <<s, n>> \in InFlight <=>
          \E k \in Socket : \E i \in DOMAIN down[k] : down[k][i].sess = s /\ down[k][i].seq = n
    BY <1>2, InFlightMember
  <2>2. <<s, n>> \in InFlight' <=>
          \E k \in Socket : \E i \in DOMAIN down'[k] : down'[k][i].sess = s /\ down'[k][i].seq = n
    <3>1. \A k \in Socket : down'[k] \in Seq(Message)
      BY <1>3
    <3> QED
      BY <3>1, InFlightIn DEF InFlight
  <2>3. <<s, n>> \in Seqs(down[c]) <=> \E i \in DOMAIN down[c] : down[c][i].sess = s /\ down[c][i].seq = n
    <3>1. down[c] \in Seq(Message)
      BY <1>2
    <3> QED
      BY <3>1, SeqsMember
  <2>4. <<s, n>> \in InFlight' => <<s, n>> \in InFlight
    BY <1>3, <2>1, <2>2
  <2>5. <<s, n>> \in InFlight => <<s, n>> \in InFlight' \/ <<s, n>> \in Seqs(down[c])
    BY <1>3, <2>1, <2>2, <2>3
  <2> QED
    BY <1>1, <2>4, <2>5
<1>6. WireInv'
  <2>1. (\A k \in Socket :
           /\ Ordered(down[k])
           /\ \A i \in DOMAIN down[k] : Numbers(down[k][i]) /\ sessions[down[k][i].sess].ws = k)'
    <3> SUFFICES ASSUME NEW k \in Socket
                 PROVE  /\ Ordered(down'[k])
                        /\ \A i \in DOMAIN down'[k] : /\ Numbers(down[k][i])'
                                                      /\ sessions'[down'[k][i].sess].ws = k
      BY DEF Ordered
    <3>1. CASE k = c
      BY <1>3, <3>1 DEF Ordered
    <3>2. CASE k # c
      BY <1>1, <1>2, <1>3, <3>2 DEF WireInv, Numbers
    <3> QED
      BY <3>1, <3>2
  <2> QED
    BY <1>1, <1>2, <2>1 DEF WireInv, Ordered, Numbers
<1>7. ASSUME NEW s \in Session, NEW n
      PROVE  /\ Sent(s, n)' => Sent(s, n)
             /\ Covered(s, n) => Covered(s, n)'
             /\ Above(s, n) => Above(s, n)'
             /\ Passed(s, n) => Passed(s, n)'
  <2>1. \A m : Sent(s, m)' => Sent(s, m)
    BY <1>1, <1>5 DEF Sent
  <2>2. Covered(s, n) => Covered(s, n)'
    BY <1>1, <1>5 DEF Covered, Sent
  <2>3. Above(s, n) => Above(s, n)'
    BY <2>1 DEF Above
  <2>4. Passed(s, n) => Passed(s, n)'
    BY <1>1, <1>3 DEF Passed
  <2> QED
    BY <2>1, <2>2, <2>3, <2>4
<1>8. ASSUME NEW s \in Session, ~sessions'[s].strayed
      PROVE  LossInv(s)' /\ OrderInv(s)' /\ (Client = "android" => AndroidInv(s)')
  <2>1. LossInv(s) /\ OrderInv(s) /\ (Client = "android" => AndroidInv(s))
    BY <1>1, <1>2, <1>8 DEF StreamInv
  <2>2. LossInv(s)'
    BY <1>1, <1>7, <2>1 DEF LossInv
  <2>3. OrderInv(s)'
    BY <1>1, <1>3, <2>1 DEF OrderInv
  <2>4. AndroidInv(s) => AndroidInv(s)'
    BY <1>1, <1>7 DEF AndroidInv
  <2> QED
    BY <2>1, <2>2, <2>3, <2>4
<1>9. StreamInv'
  BY <1>1, <1>2, <1>8 DEF StreamInv, WebInv
<1>10. \A s \in Session : Known(s)' => Known(s)
  BY <1>1, <1>3 DEF Known
<1> QED
  BY <1>1, <1>2, <1>3, <1>4, <1>6, <1>9, <1>10

(* Receiving keeps the order: the number that arrives is beyond all that   *)
(* were received, and the client remembers it unless it is audio.          *)
LEMMA ReceiveWire ==
  ASSUME LinkIInv, NEW c \in Socket, ClientReceives(c)
  PROVE  /\ down' \in [Socket -> Seq(Message)] /\ copies' \in [Session -> [1 .. LastSeq -> 0 .. 2]]
         /\ client' \in [sock : Socket \union {Nil}, sess : Session \union {Nil}, token : Nat,
                         last : 0 .. LastSeq, of : Session \union {Nil}]
         /\ client'.sock = client.sock
         /\ \A s \in Session : Known(s)' => Known(s)
         /\ WireInv' /\ StreamInv'
<1> DEFINE m == Head(down[c])
           t == m.sess
<1>1. /\ client.sock = c /\ down[c] # <<>> /\ client' = Remembered(m)
      /\ copies' = [copies EXCEPT ![t][m.seq] = IF @ < 2 THEN @ + 1 ELSE @]
      /\ down' = [down EXCEPT ![c] = Tail(@)]
      /\ sessions' = sessions /\ ready' = ready /\ lost' = lost
  BY DEF ClientReceives
<1>2. /\ down \in [Socket -> Seq(Message)] /\ copies \in [Session -> [1 .. LastSeq -> 0 .. 2]]
      /\ client \in [sock : Socket \union {Nil}, sess : Session \union {Nil}, token : Nat,
                     last : 0 .. LastSeq, of : Session \union {Nil}]
      /\ WireInv /\ StreamInv /\ LinkTypeOK /\ OwnSocket
  BY DEF LinkIInv, LinkTypeOK
<1>3. /\ Len(down[c]) \in Nat /\ Len(down[c]) > 0 /\ DOMAIN down[c] = 1 .. Len(down[c])
      /\ Tail(down[c]) \in Seq(Message) /\ Len(Tail(down[c])) = Len(down[c]) - 1
      /\ \A i \in 1 .. Len(down[c]) - 1 : Tail(down[c])[i] = down[c][i + 1]
      /\ m = down[c][1]
  <2>1. down[c] \in Seq(Message) /\ down[c] # <<>>
    BY <1>1, <1>2
  <2> QED
    BY <2>1, HeadTailProperties, LenProperties, EmptySeq
<1>4. /\ m \in Message /\ t \in Session /\ m.seq \in 1 .. LastSeq /\ m.token \in Nat /\ m.kind \in Kind
      /\ Numbers(m) /\ sessions[t].ws = c
  <2>1. 1 \in DOMAIN down[c]
    BY <1>3
  <2>2. down[c] \in Seq(Message)
    BY <1>2
  <2> HIDE DEF m
  <2> QED
    BY <1>2, <1>3, <2>1, <2>2, MessageFields DEF WireInv
<1> HIDE DEF m
<1>5. /\ \A k \in Socket : k # c => down'[k] = down[k]
      /\ down'[c] = Tail(down[c])
      /\ down' \in [Socket -> Seq(Message)]
  BY <1>1, <1>2, <1>3
<1>6. /\ \A k \in Socket : k # c => \A i \in DOMAIN down'[k] : i \in DOMAIN down[k] /\ down'[k][i] = down[k][i]
      /\ \A i \in DOMAIN down'[c] : i + 1 \in DOMAIN down[c] /\ down'[c][i] = down[c][i + 1]
      /\ \A i \in DOMAIN down[c] : i = 1 \/ (i - 1 \in DOMAIN down'[c] /\ down'[c][i - 1] = down[c][i])
  <2>1. DOMAIN down'[c] = 1 .. Len(down[c]) - 1
    BY <1>3, <1>5, LenProperties
  <2> QED
    BY <1>3, <1>5, <2>1
<1>7. \A k \in Socket : \A i \in DOMAIN down'[k] :
        \E j \in DOMAIN down[k] : down'[k][i] = down[k][j] /\ (k = c => down[k][j].seq > m.seq)
  <2>1. \A i \in DOMAIN down'[c] : down[c][i + 1].seq > m.seq
    <3>1. \A i \in DOMAIN down'[c] : 1 \in DOMAIN down[c] /\ i + 1 \in DOMAIN down[c] /\ 1 < i + 1
      BY <1>3, <1>5, <1>6, LenProperties
    <3>2. \A i \in DOMAIN down[c] : down[c][i].seq \in Nat
      BY <1>2, MessageFields
    <3>3. \A i \in DOMAIN down'[c] : down[c][1].seq < down[c][i + 1].seq
      BY <1>2, <3>1 DEF WireInv, Ordered
    <3> QED
      BY <1>3, <1>4, <3>1, <3>2, <3>3
  <2> QED
    BY <1>6, <2>1
<1>8. /\ copies' \in [Session -> [1 .. LastSeq -> 0 .. 2]]
      /\ \A s \in Session, n \in 1 .. LastSeq :
           copies'[s][n] = IF s = t /\ n = m.seq
                             THEN IF copies[s][n] < 2 THEN copies[s][n] + 1 ELSE copies[s][n]
                             ELSE copies[s][n]
  <2>1. \A s \in Session : copies[s] \in [1 .. LastSeq -> 0 .. 2]
    BY <1>2
  <2>2. copies[t][m.seq] \in 0 .. 2
    BY <1>4, <2>1
  <2> DEFINE more == IF copies[t][m.seq] < 2 THEN copies[t][m.seq] + 1 ELSE copies[t][m.seq]
  <2>3. more \in 0 .. 2
    BY <2>2
  <2>4. copies' = [copies EXCEPT ![t] = [copies[t] EXCEPT ![m.seq] = more]]
    BY <1>1
  <2> HIDE DEF more
  <2>5. copies'[t] = [copies[t] EXCEPT ![m.seq] = more] /\ \A s \in Session : s # t => copies'[s] = copies[s]
    BY <1>2, <1>4, <2>4
  <2>6. copies'[t] \in [1 .. LastSeq -> 0 .. 2]
    BY <1>4, <2>1, <2>3, <2>5
  <2>7. copies' \in [Session -> [1 .. LastSeq -> 0 .. 2]]
    BY <1>2, <1>4, <2>4, <2>5, <2>6
  <2>8. copies'[t][m.seq] = more /\ \A n \in 1 .. LastSeq : n # m.seq => copies'[t][n] = copies[t][n]
    BY <1>4, <2>1, <2>5
  <2> QED
    BY <2>5, <2>7, <2>8 DEF more
<1>9. \A s \in Session, n \in 1 .. LastSeq : copies'[s][n] > 0 <=> copies[s][n] > 0 \/ (s = t /\ n = m.seq)
  <2>1. \A s \in Session, n \in 1 .. LastSeq : copies[s][n] \in 0 .. 2
    BY <1>2
  <2> QED
    BY <1>4, <1>8, <2>1
<1>10. /\ client' \in [sock : Socket \union {Nil}, sess : Session \union {Nil}, token : Nat,
                       last : 0 .. LastSeq, of : Session \union {Nil}]
       /\ client'.sock = c
       /\ client'.last = IF Counts(m) THEN m.seq ELSE client.last
       /\ client'.of = IF Counts(m) THEN t ELSE client.of
       /\ client'.sess = IF m.kind = "start" THEN t ELSE client.sess
       /\ client'.token = IF m.kind = "start" THEN m.token ELSE client.token
  <2>1. client' = [client EXCEPT !.last = IF Counts(m) THEN m.seq ELSE @,
                                 !.of = IF Counts(m) THEN t ELSE @,
                                 !.sess = IF m.kind = "start" THEN t ELSE @,
                                 !.token = IF m.kind = "start" THEN m.token ELSE @]
    BY <1>1 DEF Remembered
  <2>2. m.seq \in 0 .. LastSeq
    BY <1>4, Numerals
  <2> QED
    BY <1>1, <1>2, <1>4, <2>1, <2>2
<1>11. ASSUME NEW s \in Session, NEW n \in 1 .. LastSeq
       PROVE  Sent(s, n)' <=> Sent(s, n)
  <2>1. <<s, n>> \in InFlight <=>
          \E k \in Socket : \E i \in DOMAIN down[k] : down[k][i].sess = s /\ down[k][i].seq = n
    <3>1. LinkTypeOK
      BY <1>2
    <3> QED
      BY <3>1, InFlightMember
  <2>2. <<s, n>> \in InFlight' <=>
          \E k \in Socket : \E i \in DOMAIN down'[k] : down'[k][i].sess = s /\ down'[k][i].seq = n
    <3>1. \A k \in Socket : down'[k] \in Seq(Message)
      BY <1>5
    <3> QED
      BY <3>1, InFlightIn DEF InFlight
  <2>3. <<s, n>> \in InFlight' => <<s, n>> \in InFlight
    BY <1>7, <2>1, <2>2
  <2>4. <<t, m.seq>> \in InFlight
    <3>1. LinkTypeOK /\ c \in Socket /\ 1 \in DOMAIN down[c] /\ m = down[c][1]
      BY <1>2, <1>3
    <3>2. <<t, m.seq>> \in InFlight <=>
            \E k \in Socket : \E i \in DOMAIN down[k] : down[k][i].sess = t /\ down[k][i].seq = m.seq
      BY <3>1, InFlightMember
    <3> QED
      BY <3>1, <3>2
  <2>5. <<s, n>> \in InFlight => <<s, n>> \in InFlight' \/ (s = t /\ n = m.seq)
    <3> SUFFICES ASSUME <<s, n>> \in InFlight PROVE <<s, n>> \in InFlight' \/ (s = t /\ n = m.seq)
      OBVIOUS
    <3>1. PICK k \in Socket : \E i \in DOMAIN down[k] : down[k][i].sess = s /\ down[k][i].seq = n
      BY <2>1
    <3>2. PICK i \in DOMAIN down[k] : down[k][i].sess = s /\ down[k][i].seq = n
      BY <3>1
    <3>3. CASE k # c
      BY <1>5, <2>2, <3>2, <3>3
    <3>4. CASE k = c /\ i = 1
      BY <1>3, <3>2, <3>4
    <3>5. CASE k = c /\ i # 1
      BY <1>6, <2>2, <3>2, <3>5
    <3> QED
      BY <3>3, <3>4, <3>5
  <2> QED
    BY <1>9, <2>3, <2>4, <2>5 DEF Sent
<1>12. WireInv'
  <2>1. (\A k \in Socket :
           /\ Ordered(down[k])
           /\ \A i \in DOMAIN down[k] : Numbers(down[k][i]) /\ sessions[down[k][i].sess].ws = k)'
    <3> SUFFICES ASSUME NEW k \in Socket
                 PROVE  /\ Ordered(down'[k])
                        /\ \A i \in DOMAIN down'[k] : /\ Numbers(down[k][i])'
                                                      /\ sessions'[down'[k][i].sess].ws = k
      BY DEF Ordered
    <3>1. Ordered(down'[k])
      <4>1. CASE k # c
        BY <1>2, <1>5, <4>1 DEF WireInv
      <4>2. CASE k = c
        <5> SUFFICES ASSUME NEW i \in DOMAIN down'[c], NEW j \in DOMAIN down'[c], i < j
                     PROVE  down'[c][i].seq < down'[c][j].seq
          BY <4>2 DEF Ordered
        <5>1. i \in Nat /\ j \in Nat
          BY <1>5, <1>3, LenProperties
        <5>2. i + 1 \in DOMAIN down[c] /\ j + 1 \in DOMAIN down[c] /\ i + 1 < j + 1
          BY <1>6, <5>1
        <5>3. down[c][i + 1].seq < down[c][j + 1].seq
          BY <1>2, <5>2 DEF WireInv, Ordered
        <5> QED
          BY <1>6, <5>3
      <4> QED
        BY <4>1, <4>2
    <3>2. ASSUME NEW i \in DOMAIN down'[k]
          PROVE  Numbers(down[k][i])' /\ sessions'[down'[k][i].sess].ws = k
      <4>1. PICK j \in DOMAIN down[k] : down'[k][i] = down[k][j]
        BY <1>7
      <4>2. Numbers(down[k][j]) /\ sessions[down[k][j].sess].ws = k
        BY <1>2 DEF WireInv
      <4> QED
        BY <1>1, <4>1, <4>2 DEF Numbers
    <3> QED
      BY <3>1, <3>2
  <2>2. \A s \in Session, n \in 1 .. LastSeq : copies'[s][n] > 0 => n <= sessions[s].seq
    BY <1>2, <1>4, <1>9 DEF WireInv, Numbers
  <2>3. client'.of # Nil => client'.last # 0 /\ copies'[client'.of][client'.last] > 0
    <3>1. CASE Counts(m)
      BY <1>4, <1>9, <1>10, <3>1
    <3>2. CASE ~Counts(m)
      <4> SUFFICES ASSUME client.of # Nil
                   PROVE  client.last # 0 /\ copies'[client.of][client.last] > 0
        BY <1>10, <3>2
      <4>1. /\ client.of \in Session /\ client.last \in 1 .. LastSeq
            /\ copies[client.of][client.last] > 0
        BY <1>2, Numerals DEF WireInv
      <4> QED
        BY <1>9, <4>1
    <3> QED
      BY <3>1, <3>2
  <2> QED
    BY <1>1, <1>2, <2>1, <2>2, <2>3 DEF WireInv, Ordered, Numbers
<1>13. ASSUME NEW s \in Session
       PROVE  /\ \A n \in 1 .. LastSeq : Covered(s, n) => Covered(s, n)'
              /\ \A n : Above(s, n) => Above(s, n)'
  BY <1>1, <1>11 DEF Covered, Above
<1>14. ASSUME NEW s \in Session, ~sessions[s].strayed
       PROVE  LossInv(s)' /\ OrderInv(s)'
  <2>1. LossInv(s) /\ OrderInv(s) /\ sessions[s].seq \in 0 .. LastSeq
    BY <1>2, <1>14, Fields DEF StreamInv
  <2>2. LossInv(s)'
    <3>1. \A n \in 1 .. sessions[s].seq : n \in 1 .. LastSeq
      BY <2>1, Numerals
    <3> QED
      BY <1>1, <1>13, <2>1, <3>1 DEF LossInv
  <2>3. (\A k \in Socket : \A i \in DOMAIN down[k] :
           down[k][i].sess = s => \A n \in down[k][i].seq .. LastSeq : copies[s][n] = 0)'
    <3> SUFFICES ASSUME NEW k \in Socket, NEW i \in DOMAIN down'[k], down'[k][i].sess = s,
                        NEW n \in down'[k][i].seq .. LastSeq
                 PROVE  copies'[s][n] = 0
      OBVIOUS
    <3>1. PICK j \in DOMAIN down[k] : down'[k][i] = down[k][j] /\ (k = c => down[k][j].seq > m.seq)
      BY <1>7
    <3>2. copies[s][n] = 0
      BY <2>1, <3>1 DEF OrderInv
    <3>3. down[k][j].seq \in 1 .. LastSeq /\ n \in 1 .. LastSeq
      <4>1. down[k][j].seq \in 1 .. LastSeq
        BY <1>2, MessageFields
      <4> QED
        BY <3>1, <4>1, Numerals
    <3>4. ~(s = t /\ n = m.seq)
      <4>1. sessions[s].ws = k
        BY <1>2, <3>1 DEF WireInv
      <4> QED
        BY <1>4, <3>1, <3>3, <4>1
    <3> QED
      BY <1>8, <3>2, <3>3, <3>4
  <2>4. \A n \in 1 .. LastSeq : copies'[s][n] <= 1
    <3>1. CASE s = t
      <4>1. copies[s][m.seq] = 0
        BY <1>3, <1>4, <2>1, <3>1 DEF OrderInv
      <4> QED
        BY <1>4, <1>8, <2>1, <4>1 DEF OrderInv
    <3>2. CASE s # t
      BY <1>8, <2>1, <3>2 DEF OrderInv
    <3> QED
      BY <3>1, <3>2
  <2> QED
    BY <2>2, <2>3, <2>4 DEF OrderInv
<1>15. ASSUME Client = "web" PROVE WebInv'
  <2>1. WebInv /\ client.last \in Nat /\ client'.last = IF m.seq > client.last THEN m.seq ELSE client.last
    BY <1>2, <1>10, <1>15, Numerals DEF StreamInv, Counts
  <2> QED
    BY <1>4, <1>9, <2>1 DEF WebInv
<1>16. ASSUME Client = "android", NEW s \in Session, ~sessions[s].strayed
       PROVE  AndroidInv(s)'
  <2>1. /\ client'.last = IF m.kind # "audio" THEN m.seq ELSE client.last
        /\ client'.of = IF m.kind # "audio" THEN t ELSE client.of
    BY <1>10, <1>16 DEF Counts
  <2>2. AndroidInv(s) /\ OrderInv(s)
    BY <1>2, <1>16 DEF StreamInv
  <2>3. sessions[s].ws = c => s = t
    BY <1>1, <1>2, <1>4, Numerals DEF OwnSocket
  <2>4. (client.sess = s /\ client.sock = sessions[s].ws /\ client.sock # Nil => client.of = s)'
    <3> SUFFICES ASSUME client'.sess = s, sessions[s].ws = c PROVE client'.of = s
      BY <1>1, <1>10
    <3>1. s = t
      BY <2>3
    <3>2. CASE m.kind # "audio"
      BY <2>1, <3>1, <3>2
    <3>3. CASE m.kind = "audio"
      BY <1>1, <1>10, <2>1, <2>2, <3>3, Numerals DEF AndroidInv
    <3> QED
      BY <3>2, <3>3
  <2>5. ASSUME NEW n, n \in Nat, Passed(s, n) PROVE Passed(s, n)'
    <3>1. (\A k \in Socket : \A i \in DOMAIN down[k] :
             LET x == down[k][i]
             IN x.sess = s /\ x.kind = "start" /\ x.token = sessions[s].token => x.seq > n)'
      BY <1>1, <1>7, <2>5 DEF Passed
    <3>2. ASSUME client'.sess = s, client'.of = s, client'.token = sessions[s].token
          PROVE  client'.last >= n
      <4>1. CASE m.kind = "start"
        <5>1. s = t /\ m.token = sessions[s].token /\ client'.last = m.seq
          BY <1>10, <2>1, <3>2, <4>1
        <5>2. m.seq > n
          BY <1>3, <1>4, <2>5, <4>1, <5>1 DEF Passed
        <5> QED
          BY <1>4, <2>5, <5>1, <5>2
      <4>2. CASE m.kind = "audio"
        BY <1>10, <2>1, <2>5, <3>2, <4>2 DEF Passed
      <4>3. CASE m.kind = "text"
        <5>1. s = t /\ client.sess = s /\ client.token = sessions[s].token /\ client'.last = m.seq
          BY <1>10, <2>1, <3>2, <4>3
        <5>2. client.of = s
          BY <1>1, <1>4, <2>2, <5>1, Numerals DEF AndroidInv
        <5>3. client.last >= n
          BY <2>5, <5>1, <5>2 DEF Passed
        <5>4. client.last \in 1 .. LastSeq /\ copies[s][client.last] > 0
          BY <1>2, <5>2, Numerals DEF WireInv
        <5>5. ~(client.last \in m.seq .. LastSeq)
          BY <1>3, <1>4, <2>2, <5>1, <5>4 DEF OrderInv
        <5> QED
          BY <1>4, <2>5, <5>1, <5>3, <5>4, <5>5, Numerals
      <4> QED
        BY <1>4, <4>1, <4>2, <4>3 DEF Kind
    <3> QED
      BY <1>1, <3>1, <3>2 DEF Passed
  <2>6. (\A i \in DOMAIN sessions[s].buf :
           LET n == sessions[s].buf[i].seq
           IN Passed(s, n) \/ (ready[sessions[s].ws] # "open" /\ Above(s, n)))'
    <3> SUFFICES ASSUME NEW i \in DOMAIN sessions[s].buf, NEW n, n = sessions[s].buf[i].seq
                 PROVE  Passed(s, n)' \/ (ready[sessions[s].ws] # "open" /\ Above(s, n)')
      BY <1>1
    <3>1. n \in Nat
      BY <1>2, Fields, MessageFields
    <3> QED
      BY <1>13, <2>2, <2>5, <3>1 DEF AndroidInv
  <2> QED
    BY <2>4, <2>6 DEF AndroidInv
<1>17. StreamInv'
  BY <1>1, <1>14, <1>15, <1>16 DEF StreamInv
<1>18. \A s \in Session : Known(s)' => Known(s)
  <2> SUFFICES ASSUME NEW s \in Session, Known(s)' PROVE Known(s)
    OBVIOUS
  <2>1. CASE client'.sess = s
    BY <1>3, <1>4, <1>10, <2>1 DEF Known
  <2>2. CASE \E k \in Socket : \E i \in DOMAIN down'[k] : down'[k][i].sess = s
    BY <1>7, <2>2 DEF Known
  <2> QED
    BY <2>1, <2>2 DEF Known
<1> QED
  BY <1>1, <1>5, <1>8, <1>10, <1>12, <1>17, <1>18

-----------------------------------------------------------------------------
(* Resuming.                                                               *)

(* The hello of a reconnecting client, and what it finds: its session is   *)
(* on an older socket, and nothing is in flight.                           *)
LEMMA ReconnectFacts ==
  ASSUME LinkIInv, NEW k \in Socket, ready[k] = "fresh", k \notin cut, hello[k].type = "reconnect"
  PROVE  /\ hello[k] \in Reconnect /\ client.sock = k
         /\ hello[k].sess = client.sess /\ hello[k].token = client.token
         /\ hello[k].last = client.last /\ hello[k].of = client.of
         /\ LET r == sessions[client.sess]
            IN /\ client.sess \in Session /\ client.sess < nextSession
               /\ r.ws \in Socket /\ Used(r.ws) /\ r.ws < k /\ r.token + 1 < k /\ r.ws \in watched
         /\ \A j \in Socket : down[j] = <<>>
         /\ \A s \in Session : sessions[s].ws # k
<1>1. hello[k] \in {NoHello, FirstHello} \union Reconnect
  BY DEF LinkIInv, LinkTypeOK
<1>2. hello[k] \in Reconnect
  BY <1>1 DEF NoHello, FirstHello
<1>3. /\ client.sock = k /\ hello[k].sess = client.sess /\ hello[k].token = client.token
      /\ hello[k].last = client.last /\ hello[k].of = client.of
  BY DEF LinkIInv, SocketInv
<1>4. client.sess \in Session /\ Known(client.sess)
  BY <1>2, <1>3 DEF Reconnect, Known
<1>5. SessionInv(client.sess) /\ nextSession \in Nat /\ client.sess \in Nat /\ k \in Nat
  <2>1. SessionInv(client.sess)
    BY <1>4 DEF LinkIInv
  <2>2. nextSession \in Nat
    BY BoundsAssumption DEF LinkIInv, LinkTypeOK
  <2> QED
    BY <1>4, <2>1, <2>2, Numerals
<1>6. sessions[client.sess].ws \in Socket \union {Nil} /\ sessions[client.sess].token \in Nat
  BY <1>4, Fields DEF LinkIInv
<1> DEFINE r == sessions[client.sess]
<1>7. /\ client.sess < nextSession /\ r.ws # Nil /\ Used(r.ws) /\ r.token < r.ws /\ r.ws \in watched
  BY <1>4, <1>5 DEF SessionInv
<1>8. r.ws \in Socket /\ r.ws # k /\ r.ws \in Nat
  BY <1>6, <1>7, Numerals DEF Used
<1>9. r.ws < k
  <2>1. k # Nil
    BY Numerals
  <2>2. \A j \in Socket : j > k => ready[j] = "none"
    BY <1>3, <2>1 DEF LinkIInv, SocketInv
  <2>3. ready[r.ws] # "none"
    BY <1>7 DEF Used
  <2>4. ~(r.ws > k)
    BY <1>8, <2>2, <2>3
  <2> HIDE DEF r
  <2> QED
    BY <1>5, <1>8, <2>4
<1>10. r.token + 1 < k
  <2> HIDE DEF r
  <2>1. r.token \in Nat
    BY <1>6 DEF r
  <2> QED
    BY <1>5, <1>7, <1>8, <1>9, <2>1
<1>11. \A s \in Session : sessions[s].ws # k
  <2> SUFFICES ASSUME NEW s \in Session, sessions[s].ws = k PROVE FALSE
    OBVIOUS
  <2>1. SessionInv(s) /\ k # Nil
    BY Numerals DEF LinkIInv
  <2>2. Used(k)
    BY <2>1 DEF SessionInv
  <2> QED
    BY <2>2 DEF Used
<1>12. ASSUME NEW j \in Socket PROVE down[j] = <<>>
  <2> SUFFICES ASSUME down[j] # <<>> PROVE FALSE
    OBVIOUS
  <2>1. j = k
    BY <1>3 DEF LinkIInv, SocketInv
  <2>2. down[j] \in Seq(Message)
    BY Fields DEF LinkIInv
  <2>3. 1 \in DOMAIN down[j]
    BY <2>2, LenProperties, EmptySeq
  <2>4. down[j][1].sess \in Session /\ sessions[down[j][1].sess].ws = j
    BY <2>2, <2>3, MessageFields DEF LinkIInv, WireInv
  <2> QED
    BY <1>11, <2>1, <2>4
<1> QED
  BY <1>2, <1>3, <1>4, <1>7, <1>8, <1>9, <1>10, <1>11, <1>12

(* A session can always number another message.                            *)
LEMMA SeqBound ==
  ASSUME LinkIInv, NEW s \in Session, sessions[s].ws # Nil
  PROVE  LET r == sessions[s]
         IN /\ r.seq <= MaxSeq + 3 * MaxGoAway + r.token + (IF r.startSent THEN 2 ELSE 0)
            /\ r.seq <= r.said + 3 * r.goAways + r.token + (IF r.startSent THEN 2 ELSE 0)
            /\ r.token < MaxSocket /\ r.said \in 0 .. MaxSeq /\ r.goAways \in 0 .. MaxGoAway
            /\ r.seq \in Nat /\ r.token \in Nat
            /\ MaxSeq \in Nat /\ MaxGoAway \in Nat /\ MaxSocket \in Nat
            /\ LastSeq = MaxSeq + 3 * (1 + MaxGoAway) + MaxSocket
<1> DEFINE r == sessions[s]
<1>1. /\ r \in ActiveSession /\ SessionInv(s)
      /\ MaxSeq \in Nat /\ MaxGoAway \in Nat /\ MaxSocket \in Nat
  BY BoundsAssumption DEF LinkIInv, LinkTypeOK
<1>2. /\ r.said \in 0 .. MaxSeq /\ r.goAways \in 0 .. MaxGoAway /\ r.token \in Nat
      /\ r.ws \in Socket \union {Nil} /\ r.seq \in 0 .. LastSeq
  BY <1>1 DEF ActiveSession
<1>3. /\ r.seq <= r.said + 3 * r.goAways + r.token + (IF r.startSent THEN 2 ELSE 0)
      /\ r.token < r.ws
  BY <1>1 DEF SessionInv
<1>4. r.ws \in 1 .. MaxSocket
  BY <1>2 DEF Socket
<1>5. r.seq \in Nat
  BY <1>2, Numerals
<1> HIDE DEF r
<1>6. r.token < MaxSocket
  BY <1>1, <1>2, <1>3, <1>4
<1>7. r.seq <= MaxSeq + 3 * MaxGoAway + r.token + (IF r.startSent THEN 2 ELSE 0)
  <2> DEFINE two == IF r.startSent THEN 2 ELSE 0
  <2>1. two \in Nat /\ r.seq <= r.said + 3 * r.goAways + r.token + two
    BY <1>3
  <2> HIDE DEF two
  <2>2. r.seq <= MaxSeq + 3 * MaxGoAway + r.token + two
    BY <1>1, <1>2, <1>5, <2>1
  <2> QED
    BY <2>2 DEF two
<1> QED
  BY <1>1, <1>2, <1>3, <1>5, <1>6, <1>7 DEF r, LastSeq

(* Whatever the client has not received goes out on its new socket, in     *)
(* order, with a start behind it that carries the next token.              *)
LEMMA ResumeWire ==
  ASSUME LinkIInv, NEW k \in Socket, ready[k] = "fresh", k \notin cut, hello[k].type = "reconnect",
         hello[k].token = sessions[hello[k].sess].token,
         ResumeSession(k, hello[k]), UNCHANGED <<cut, client, copies>>
  PROVE  LET t == client.sess
             r == sessions[t]
             q == sessions'[t]
         IN /\ sessions' = [sessions EXCEPT ![t] = q]
            /\ q = [r EXCEPT !.token = r.token + 1, !.grace = FALSE, !.ws = k,
                             !.strayed = r.strayed \/ client.of # t,
                             !.seq = r.seq + 1, !.buf = q.buf]
            /\ q \in ActiveSession /\ Len(q.buf) <= BufferCap
            /\ ready' = Closed([ready EXCEPT ![k] = "open"], r.ws)
            /\ watched' = watched \union {k} /\ nextSession' = nextSession
            /\ down' \in [Socket -> Seq(Message)] /\ lost' = lost
            /\ \A j \in Socket : down'[j] # <<>> => j = k
            /\ \A s \in Session : Known(s)' => s = t
            /\ WireInv' /\ StreamInv'
<1> DEFINE t == client.sess
           r == sessions[t]
           q == sessions'[t]
           missed == Missed(r.buf, client.last)
           next == [r EXCEPT !.token = r.token + 1, !.grace = FALSE, !.ws = k,
                             !.strayed = r.strayed \/ client.of # t]
           start == Numbered(t, next, <<"start">>)
           wire == missed \o start
<1>1. /\ client.sock = k
      /\ hello[k].sess = t /\ hello[k].token = client.token
      /\ hello[k].last = client.last /\ hello[k].of = client.of
      /\ t \in Session /\ r.ws \in Socket /\ Used(r.ws) /\ r.ws < k /\ r.token + 1 < k
      /\ \A j \in Socket : down[j] = <<>>
      /\ \A s \in Session : sessions[s].ws # k
  BY ReconnectFacts
<1>2. /\ sessions \in [Session -> ActiveSession] /\ down \in [Socket -> Seq(Message)]
      /\ WireInv /\ StreamInv /\ OwnSocket /\ client.last \in Nat /\ client.token \in Nat
      /\ r.seq \in Nat /\ r.token \in Nat /\ r.buf \in Seq(Message) /\ Len(r.buf) <= BufferCap
      /\ Ordered(r.buf) /\ r \in ActiveSession
  BY <1>1, Fields DEF LinkIInv, LinkTypeOK, WireInv
<1>3. /\ ready' = Closed([ready EXCEPT ![k] = "open"], r.ws)
      /\ watched' = watched \union {k} /\ nextSession' = nextSession
      /\ OnWire(k, wire)
      /\ sessions' = [sessions EXCEPT ![t] = [next EXCEPT !.buf = missed, !.seq = next.seq + 1]]
  <2>1. Resumed(k, hello[k]) = next
    BY <1>1 DEF Resumed
  <2>2. TakeOver(k, t, next, Closed([ready EXCEPT ![k] = "open"], r.ws), missed)
    BY <1>1, <2>1 DEF ResumeSession
  <2> HIDE DEF next, missed
  <2> QED
    BY <2>2 DEF TakeOver
<1>4. /\ missed \in Seq(Message) /\ Ordered(missed) /\ Len(missed) <= BufferCap
      /\ \A i \in DOMAIN missed : missed[i].seq > client.last /\ \E j \in DOMAIN r.buf : missed[i] = r.buf[j]
      /\ \A j \in DOMAIN r.buf : r.buf[j].seq > client.last => \E i \in DOMAIN missed : missed[i] = r.buf[j]
  <2> DEFINE b == r.buf
             len == Len(b)
  <2>0. b \in Seq(Message) /\ Ordered(b) /\ len <= BufferCap /\ len \in Nat /\ DOMAIN b = 1 .. len
    BY <1>2, LenProperties
  <2> HIDE DEF b
  <2>1. PICK d \in 0 .. len : /\ Missed(b, client.last) = SubSeq(b, d + 1, len)
                              /\ \A i \in DOMAIN b : b[i].seq > client.last <=> i > d
    BY <1>2, <2>0, MissedEnd
  <2>2. missed = SubSeq(b, d + 1, len)
    BY <2>1 DEF b
  <2>3. /\ missed \in Seq(Message) /\ Len(missed) = len - d /\ DOMAIN missed = 1 .. len - d
        /\ \A i \in DOMAIN missed : i + d \in DOMAIN b /\ missed[i] = b[i + d]
    BY <2>0, <2>2, EndOfSeq
  <2>4. Ordered(missed)
    BY <2>0, <2>2, OrderedEnd
  <2> HIDE DEF missed, len
  <2>5. ASSUME NEW i \in DOMAIN missed
        PROVE  missed[i].seq > client.last /\ \E j \in DOMAIN b : missed[i] = b[j]
    <3> DEFINE j == i + d
    <3>1. j > d
      BY <2>0, <2>3
    <3>2. j \in DOMAIN b /\ missed[i] = b[j]
      BY <2>3
    <3> HIDE DEF j
    <3> QED
      BY <2>1, <3>1, <3>2
  <2>6. ASSUME NEW j \in DOMAIN b, b[j].seq > client.last
        PROVE  \E i \in DOMAIN missed : missed[i] = b[j]
    <3> DEFINE i == j - d
    <3>1. j > d
      BY <2>1, <2>6
    <3>2. i \in DOMAIN missed /\ i + d = j
      BY <2>0, <2>3, <3>1
    <3> HIDE DEF i
    <3> QED
      BY <2>3, <3>2
  <2>7. Len(missed) <= BufferCap
    BY <2>0, <2>3, Numerals, BoundsAssumption
  <2> QED
    BY <2>3, <2>4, <2>5, <2>6, <2>7 DEF b
<1> HIDE DEF missed
<1>5. r.seq + 1 \in 1 .. LastSeq
  <2>1. r.ws # Nil
    BY <1>1, Numerals
  <2>2. /\ r.seq <= MaxSeq + 3 * MaxGoAway + r.token + (IF r.startSent THEN 2 ELSE 0)
        /\ r.token < MaxSocket /\ r.seq \in Nat /\ r.token \in Nat
        /\ MaxSeq \in Nat /\ MaxGoAway \in Nat /\ MaxSocket \in Nat
        /\ LastSeq = MaxSeq + 3 * (1 + MaxGoAway) + MaxSocket
    BY <1>1, <2>1, SeqBound
  <2> DEFINE two == IF r.startSent THEN 2 ELSE 0
             n == r.seq
             token == r.token
  <2>3. two \in 0 .. 2 /\ n <= MaxSeq + 3 * MaxGoAway + token + two
    BY <2>2
  <2>4. token < MaxSocket /\ n \in Nat /\ token \in Nat
    BY <2>2
  <2> HIDE DEF two, n, token
  <2>5. n + 1 \in 1 .. LastSeq
    BY <2>2, <2>3, <2>4
  <2> QED
    BY <2>5 DEF n
<1>6. /\ next \in ActiveSession /\ next.seq = r.seq /\ next.token = r.token + 1 /\ next.buf = r.buf
      /\ next.ws = k /\ next.strayed = (r.strayed \/ client.of # t)
  <2>1. r.token + 1 \in Nat /\ (r.strayed \/ client.of # t) \in BOOLEAN
    BY <1>2
  <2> QED
    BY <1>2, <2>1 DEF ActiveSession
<1>7. /\ start \in Seq(Message) /\ Ordered(start) /\ DOMAIN start = {1}
      /\ start[1] = [kind |-> "start", sess |-> t, seq |-> r.seq + 1, token |-> r.token + 1]
  <2>1. <<"start">> \in Seq(Kind) /\ Len(<<"start">>) = 1 /\ <<"start">>[1] = "start"
    BY DEF Kind
  <2>2. next.seq + Len(<<"start">>) <= LastSeq
    BY <1>5, <1>6, <2>1, Numerals
  <2> HIDE DEF next
  <2>3. /\ start \in Seq(Message) /\ Ordered(start) /\ DOMAIN start = 1 .. 1
        /\ \A i \in 1 .. 1 : start[i] = [kind |-> <<"start">>[i], sess |-> t, seq |-> next.seq + i,
                                         token |-> next.token]
    BY <1>1, <1>6, <2>1, <2>2, NumberedMessages
  <2>4. 1 .. 1 = {1}
    OBVIOUS
  <2> QED
    BY <1>6, <2>1, <2>3, <2>4
<1> HIDE DEF start
<1>8. \A i \in DOMAIN r.buf : /\ r.buf[i].sess = t /\ r.buf[i].seq <= r.seq /\ r.buf[i].token <= r.token
                              /\ r.buf[i].seq \in 1 .. LastSeq /\ r.buf[i].token \in Nat
  <2>1. \A i \in DOMAIN r.buf : Numbers(r.buf[i]) /\ r.buf[i].sess = t
    BY <1>1, <1>2 DEF WireInv
  <2> QED
    BY <1>2, <2>1, MessageFields DEF Numbers
<1>9. \A i \in DOMAIN missed : /\ missed[i].sess = t /\ missed[i].seq <= r.seq /\ missed[i].token <= r.token
                               /\ missed[i].seq \in 1 .. LastSeq /\ missed[i].token \in Nat
                               /\ missed[i].seq > client.last
  BY <1>4, <1>8
<1>10. /\ wire \in Seq(Message) /\ Ordered(wire)
       /\ \A i \in DOMAIN wire : (\E j \in DOMAIN missed : wire[i] = missed[j]) \/ wire[i] = start[1]
       /\ \A j \in DOMAIN missed : \E i \in DOMAIN wire : wire[i] = missed[j]
       /\ \E i \in DOMAIN wire : wire[i] = start[1]
  <2>1. \A i \in DOMAIN missed, j \in DOMAIN start : missed[i].seq < start[j].seq
    <3>1. start[1].seq = r.seq + 1
      BY <1>7
    <3>2. \A i \in DOMAIN missed : missed[i].seq \in Nat /\ missed[i].seq <= r.seq
      BY <1>9, Numerals
    <3> QED
      BY <1>2, <1>7, <3>1, <3>2
  <2>2. /\ wire \in Seq(Message) /\ Ordered(wire)
        /\ \A i \in DOMAIN wire : \/ i \in DOMAIN missed /\ wire[i] = missed[i]
                                  \/ i - Len(missed) \in DOMAIN start /\ wire[i] = start[i - Len(missed)]
        /\ \A i \in DOMAIN missed : i \in DOMAIN wire /\ wire[i] = missed[i]
        /\ \A i \in DOMAIN start : i + Len(missed) \in DOMAIN wire /\ wire[i + Len(missed)] = start[i]
    BY <1>4, <1>7, <2>1, OrderedConcat
  <2> HIDE DEF wire
  <2>3. \A i \in DOMAIN wire : (\E j \in DOMAIN missed : wire[i] = missed[j]) \/ wire[i] = start[1]
    BY <1>7, <2>2
  <2>4. \E i \in DOMAIN wire : wire[i] = start[1]
    <3>1. 1 + Len(missed) \in DOMAIN wire /\ wire[1 + Len(missed)] = start[1]
      BY <1>7, <2>2
    <3> QED
      BY <3>1
  <2> QED
    BY <2>2, <2>3, <2>4
<1> HIDE DEF wire
<1>11. down' = [down EXCEPT ![k] = wire] /\ lost' = lost
  <2>1. /\ down' = [down EXCEPT ![k] = IF k \in cut THEN @ ELSE @ \o wire]
        /\ lost' = lost \union (IF k \in cut THEN Seqs(wire) ELSE {})
    BY <1>3 DEF OnWire
  <2>2. down[k] \o wire = wire
    BY <1>1, <1>10
  <2> QED
    BY <1>2, <2>1, <2>2
<1>12. /\ down'[k] = wire /\ \A j \in Socket : j # k => down'[j] = <<>>
       /\ down' \in [Socket -> Seq(Message)]
  BY <1>1, <1>2, <1>10, <1>11
<1>13. /\ q = [next EXCEPT !.buf = missed, !.seq = r.seq + 1]
       /\ q.buf = missed /\ q.seq = r.seq + 1 /\ q.token = r.token + 1 /\ q.ws = k
       /\ q.strayed = (r.strayed \/ client.of # t) /\ q \in ActiveSession
       /\ \A s \in Session : s # t => sessions'[s] = sessions[s]
  <2> HIDE DEF next
  <2>1. q = [next EXCEPT !.buf = missed, !.seq = r.seq + 1]
    BY <1>1, <1>2, <1>3, <1>6
  <2>2. r.seq + 1 \in 0 .. LastSeq
    BY <1>5, Numerals
  <2>3. \A s \in Session : s # t => sessions'[s] = sessions[s]
    BY <1>1, <1>2, <1>3
  <2> HIDE DEF q, r
  <2> QED
    BY <1>4, <1>6, <2>1, <2>2, <2>3 DEF ActiveSession
<1>14. q = [r EXCEPT !.token = r.token + 1, !.grace = FALSE, !.ws = k,
                     !.strayed = r.strayed \/ client.of # t, !.seq = r.seq + 1, !.buf = q.buf]
  <2> HIDE DEF q, r
  <2> QED
    BY <1>2, <1>13 DEF ActiveSession
<1>0. t' = t
  OBVIOUS
<1> HIDE DEF q, r, next, t
<1>15. WireInv'
  <2>1. (\A j \in Socket :
           /\ Ordered(down[j])
           /\ \A i \in DOMAIN down[j] : Numbers(down[j][i]) /\ sessions[down[j][i].sess].ws = j)'
    <3> SUFFICES ASSUME NEW j \in Socket
                 PROVE  /\ Ordered(down'[j])
                        /\ \A i \in DOMAIN down'[j] : /\ Numbers(down[j][i])'
                                                      /\ sessions'[down'[j][i].sess].ws = j
      BY DEF Ordered
    <3>1. CASE j # k
      BY <1>12, <3>1 DEF Ordered
    <3>2. CASE j = k
      <4>1. ASSUME NEW i \in DOMAIN wire
            PROVE  wire[i].sess = t /\ wire[i].seq <= r.seq + 1 /\ wire[i].token <= r.token + 1
        <5>1. CASE \E x \in DOMAIN missed : wire[i] = missed[x]
          <6>1. PICK x \in DOMAIN missed : wire[i] = missed[x]
            BY <5>1
          <6>2. /\ missed[x].sess = t /\ missed[x].seq <= r.seq /\ missed[x].token <= r.token
                /\ missed[x].seq \in Nat /\ missed[x].token \in Nat
            BY <1>9, Numerals
          <6>3. r.seq \in Nat /\ r.token \in Nat
            BY <1>2
          <6> QED
            BY <6>1, <6>2, <6>3
        <5>2. CASE wire[i] = start[1]
          <6>1. r.seq + 1 \in Nat /\ r.token + 1 \in Nat
            BY <1>2
          <6> QED
            BY <1>7, <5>2, <6>1
        <5> QED
          BY <1>10, <5>1, <5>2
      <4>2. \A i \in DOMAIN down'[j] : Numbers(down[j][i])' /\ sessions'[down'[j][i].sess].ws = j
        BY <1>12, <1>13, <3>2, <4>1 DEF Numbers, q
      <4> QED
        BY <1>10, <1>12, <3>2, <4>2
    <3> QED
      BY <3>1, <3>2
  <2>2. (\A s \in Session :
           LET buf == sessions[s].buf
           IN Ordered(buf) /\ \A i \in DOMAIN buf : Numbers(buf[i]) /\ buf[i].sess = s)'
    <3> SUFFICES ASSUME NEW s \in Session
                 PROVE  /\ Ordered(sessions'[s].buf)
                        /\ \A i \in DOMAIN sessions'[s].buf :
                             Numbers(sessions[s].buf[i])' /\ sessions'[s].buf[i].sess = s
      BY DEF Ordered
    <3>1. CASE s # t
      BY <1>2, <1>13, <3>1 DEF WireInv, Numbers
    <3>2. CASE s = t
      <4>1. \A i \in DOMAIN missed : /\ missed[i].sess = t /\ missed[i].seq <= r.seq + 1
                                     /\ missed[i].token <= r.token + 1
        <5>1. r.seq \in Nat /\ r.token \in Nat
          BY <1>2
        <5>2. \A i \in DOMAIN missed : missed[i].seq \in Nat /\ missed[i].token \in Nat
          BY <1>9, Numerals
        <5> QED
          BY <1>9, <5>1, <5>2
      <4>2. sessions'[s].buf = missed /\ sessions'[t].seq = r.seq + 1 /\ sessions'[t].token = r.token + 1
        BY <1>13, <3>2 DEF q
      <4> QED
        BY <1>4, <3>2, <4>1, <4>2 DEF Numbers
    <3> QED
      BY <3>1, <3>2
  <2>3. \A s \in Session, n \in 1 .. LastSeq : copies'[s][n] > 0 => n <= sessions'[s].seq
    <3>1. \A s \in Session, n \in 1 .. LastSeq : copies[s][n] > 0 => n <= sessions[s].seq
      BY <1>2 DEF WireInv
    <3>2. sessions'[t].seq = r.seq + 1 /\ r.seq \in Nat /\ r.seq = sessions[t].seq
      BY <1>2, <1>13 DEF q, r
    <3>3. \A n \in 1 .. LastSeq : n <= r.seq => n <= r.seq + 1
      BY <3>2
    <3> QED
      BY <1>13, <3>1, <3>2, <3>3
  <2>4. (client.of # Nil => client.last # 0 /\ copies[client.of][client.last] > 0)'
    BY <1>2 DEF WireInv
  <2> QED
    BY <2>1, <2>2, <2>3, <2>4 DEF WireInv
<1>16. ASSUME NEW s, NEW n PROVE <<s, n>> \notin InFlight
  <2>1. LinkTypeOK
    BY DEF LinkIInv
  <2>2. <<s, n>> \in InFlight <=>
          \E j \in Socket : \E i \in DOMAIN down[j] : down[j][i].sess = s /\ down[j][i].seq = n
    BY <2>1, InFlightMember
  <2>3. \A j \in Socket : DOMAIN down[j] = {}
    BY <1>1
  <2> QED
    BY <2>2, <2>3
<1>17. ASSUME NEW s, NEW n
       PROVE  <<s, n>> \in InFlight' <=>
                s = t /\ (n = r.seq + 1 \/ \E j \in DOMAIN missed : missed[j].seq = n)
  <2>1. <<s, n>> \in InFlight' <=>
          \E j \in Socket : \E i \in DOMAIN down'[j] : down'[j][i].sess = s /\ down'[j][i].seq = n
    <3>1. \A j \in Socket : down'[j] \in Seq(Message)
      BY <1>12
    <3> QED
      BY <3>1, InFlightIn DEF InFlight
  <2>2. <<s, n>> \in InFlight' <=> \E i \in DOMAIN wire : wire[i].sess = s /\ wire[i].seq = n
    BY <1>12, <2>1
  <2>3. start[1].sess = t /\ start[1].seq = r.seq + 1
    BY <1>7
  <2> QED
    BY <1>9, <1>10, <2>2, <2>3
<1>18. ASSUME NEW s \in Session, NEW n
       PROVE  /\ Sent(s, n) => Sent(s, n)'
              /\ Sent(s, n)' => Sent(s, n) \/ s = t
              /\ Covered(s, n) => Covered(s, n)'
  BY <1>11, <1>16, <1>17 DEF Sent, Covered
<1>19. ASSUME NEW s \in Session, s # t, ~sessions'[s].strayed
       PROVE  LossInv(s)' /\ OrderInv(s)' /\ (Client = "android" => AndroidInv(s)')
  <2>1. /\ sessions'[s] = sessions[s]
        /\ LossInv(s) /\ OrderInv(s) /\ (Client = "android" => AndroidInv(s))
    BY <1>2, <1>13, <1>19 DEF StreamInv
  <2>2. \A n : Above(s, n) => Above(s, n)'
    BY <1>18, <1>19 DEF Above
  <2>3. ready[sessions[s].ws] # "open" /\ sessions[s].ws # Nil => ready'[sessions[s].ws] # "open"
    <3>1. sessions[s].ws \in Socket \union {Nil} /\ sessions[s].ws # k
      BY <1>1, Fields DEF LinkIInv
    <3>2. ready \in [Socket -> {"none", "fresh", "closedFresh", "open", "closing", "closed"}]
      BY DEF LinkIInv, LinkTypeOK
    <3> QED
      BY <1>3, <3>1, <3>2 DEF Closed
  <2>4. sessions[s].ws = Nil => sessions[s].seq = 0 /\ sessions[s].buf = <<>>
    BY Unused DEF Fresh
  <2>5. LossInv(s)'
    <3>1. CASE sessions[s].ws = Nil
      BY <2>1, <2>4, <3>1 DEF LossInv
    <3>2. CASE sessions[s].ws # Nil
      BY <1>18, <2>1, <2>2, <2>3, <3>2 DEF LossInv
    <3> QED
      BY <3>1, <3>2
  <2>6. OrderInv(s)'
    <3>1. \A j \in Socket : \A i \in DOMAIN down'[j] : down'[j][i].sess = t
      BY <1>7, <1>9, <1>10, <1>12
    <3> QED
      BY <1>19, <2>1, <3>1 DEF OrderInv
  <2>7. ASSUME Client = "android" PROVE AndroidInv(s)'
    <3>1. \A n : Passed(s, n)'
      <4>1. \A j \in Socket : \A i \in DOMAIN down'[j] : down'[j][i].sess = t
        BY <1>7, <1>9, <1>10, <1>12
      <4> QED
        BY <1>19, <4>1 DEF Passed, t
    <3> QED
      BY <1>19, <3>1 DEF AndroidInv, t
  <2> QED
    BY <2>5, <2>6, <2>7
<1>20. ASSUME ~sessions'[t].strayed
       PROVE  LossInv(t)' /\ OrderInv(t)' /\ (Client = "android" => AndroidInv(t)')
  <2>1. ~r.strayed /\ client.of = t
    BY <1>13, <1>20 DEF q
  <2>2. /\ LossInv(t) /\ OrderInv(t) /\ (Client = "android" => AndroidInv(t))
        /\ (Client = "web" => WebInv)
    BY <1>1, <1>2, <2>1 DEF StreamInv, r
  <2>3. client.last \in 1 .. LastSeq /\ copies[t][client.last] > 0 /\ Sent(t, client.last)
    <3>1. client.last \in 0 .. LastSeq
      BY DEF LinkIInv, LinkTypeOK
    <3>2. t # Nil
      BY <1>1, Numerals
    <3>3. client.last # 0 /\ copies[t][client.last] > 0
      BY <1>2, <2>1, <3>2 DEF WireInv
    <3> QED
      BY <3>1, <3>3, Numerals DEF Sent
  <2>4. \A n \in 1 .. LastSeq : copies[t][n] > 0 => n <= r.seq
    BY <1>1, <1>2 DEF WireInv, r
  <2>5. LossInv(t)'
    <3> SUFFICES ASSUME NEW n \in 1 .. r.seq + 1 PROVE Covered(t, n)'
      BY <1>0, <1>13 DEF LossInv, q
    <3>1. CASE n = r.seq + 1
      BY <1>0, <1>17, <3>1 DEF Covered, Sent
    <3>2. CASE Covered(t, n)
      BY <1>0, <1>1, <1>18, <3>2 DEF Covered, Sent
    <3>3. CASE n # r.seq + 1 /\ ~Covered(t, n)
      <4>1. n \in 1 .. r.seq
        BY <1>2, <3>3
      <4>2. <<t, n>> \in Seqs(r.buf) /\ Above(t, n)
        BY <2>2, <3>3, <4>1 DEF LossInv, r
      <4>3. client.last < n
        BY <2>3, <4>2 DEF Above
      <4>4. PICK j \in DOMAIN r.buf : r.buf[j].seq = n
        <5>1. r.buf \in Seq(Message)
          BY <1>2
        <5> QED
          BY <4>2, <5>1, SeqsMember
      <4>5. r.buf[j].seq > client.last
        BY <1>2, <4>1, <4>3, <4>4
      <4>6. \E i \in DOMAIN missed : missed[i].seq = n
        BY <1>4, <4>4, <4>5
      <4> QED
        BY <1>0, <1>17, <4>6 DEF Covered, Sent
    <3> QED
      BY <3>1, <3>2, <3>3
  <2>6. ASSUME NEW j \in DOMAIN missed, NEW n \in missed[j].seq .. LastSeq
        PROVE  copies[t][n] = 0
    <3>1. /\ missed[j].seq \in 1 .. LastSeq /\ missed[j].seq > client.last
          /\ n \in 1 .. LastSeq /\ n \in Nat /\ n >= missed[j].seq /\ missed[j].seq \in Nat
      BY <1>9, <2>6, Numerals
    <3>2. copies[t][n] \in 0 .. 2
      BY <1>1, <3>1, Fields DEF LinkIInv
    <3>3. CASE Client = "web"
      <4>1. copies[t][n] > 0 => n <= client.last
        BY <1>1, <2>2, <3>1, <3>3 DEF WebInv
      <4> QED
        BY <1>2, <3>1, <3>2, <4>1
    <3>4. CASE Client = "android"
      <4>1. PICK i \in DOMAIN r.buf : missed[j] = r.buf[i]
        BY <1>4
      <4>2. Passed(t, missed[j].seq) \/ Above(t, missed[j].seq)
        BY <2>2, <3>4, <4>1 DEF AndroidInv, r
      <4>3. ~Passed(t, missed[j].seq)
        <5>1. client.sess = t /\ client.token = sessions[t].token
          BY <1>1 DEF t
        <5> QED
          BY <1>2, <2>1, <3>1, <5>1 DEF Passed
      <4>4. Sent(t, n) => n < missed[j].seq
        BY <3>1, <4>2, <4>3 DEF Above
      <4> QED
        BY <3>1, <3>2, <4>4 DEF Sent
    <3> QED
      BY <3>3, <3>4, ClientAssumption
  <2>7. OrderInv(t)'
    <3>1. (\A j \in Socket : \A i \in DOMAIN down[j] :
             down[j][i].sess = t => \A n \in down[j][i].seq .. LastSeq : copies[t][n] = 0)'
      <4> SUFFICES ASSUME NEW i \in DOMAIN wire, NEW n \in wire[i].seq .. LastSeq
                   PROVE  copies[t][n] = 0
        BY <1>12 DEF t
      <4>1. CASE \E j \in DOMAIN missed : wire[i] = missed[j]
        BY <2>6, <4>1
      <4>2. CASE wire[i] = start[1]
        <5>1. n \in r.seq + 1 .. LastSeq
          BY <1>7, <4>2
        <5>2. n \in 1 .. LastSeq /\ n > r.seq
          BY <1>2, <5>1, Numerals
        <5>3. copies[t][n] \in 0 .. 2
          BY <1>1, <5>2, Fields DEF LinkIInv
        <5> QED
          BY <1>2, <2>4, <5>2, <5>3
      <4> QED
        BY <1>10, <4>1, <4>2
    <3>2. (\A n \in 1 .. LastSeq : copies[t][n] <= 1)'
      BY <2>2 DEF OrderInv, t
    <3> QED
      BY <3>1, <3>2 DEF OrderInv
  <2>8. ASSUME Client = "android" PROVE AndroidInv(t)'
    <3>1. (client.sess = t /\ client.sock = sessions[t].ws /\ client.sock # Nil => client.of = t)'
      BY <2>1 DEF t
    <3>2. ASSUME NEW j \in DOMAIN missed, NEW n, n = missed[j].seq PROVE Passed(t, n)'
      <4>1. (\A x \in Socket : \A i \in DOMAIN down[x] :
               LET m == down[x][i]
               IN m.sess = t /\ m.kind = "start" /\ m.token = sessions[t].token => m.seq > n)'
        <5> SUFFICES ASSUME NEW i \in DOMAIN wire, wire[i].token = r.token + 1 PROVE wire[i].seq > n
          BY <1>0, <1>12, <1>13 DEF q
        <5>1. CASE \E x \in DOMAIN missed : wire[i] = missed[x]
          <6>1. PICK x \in DOMAIN missed : wire[i] = missed[x]
            BY <5>1
          <6>2. missed[x].token <= r.token /\ missed[x].token \in Nat /\ r.token \in Nat
            BY <1>2, <1>9
          <6> QED
            BY <6>1, <6>2
        <5>2. CASE wire[i] = start[1]
          <6>1. n <= r.seq /\ n \in Nat
            BY <1>9, <3>2, Numerals
          <6> QED
            BY <1>2, <1>7, <5>2, <6>1
        <5> QED
          BY <1>10, <5>1, <5>2
      <4>2. client'.token # sessions'[t].token
        <5>1. client.token = r.token
          BY <1>1 DEF r, t
        <5> QED
          BY <1>2, <1>13, <5>1 DEF q
      <4> QED
        BY <4>1, <4>2 DEF Passed, t
    <3>3. (\A i \in DOMAIN sessions[t].buf :
             LET n == sessions[t].buf[i].seq
             IN Passed(t, n) \/ (ready[sessions[t].ws] # "open" /\ Above(t, n)))'
      <4>1. sessions'[t].buf = missed
        BY <1>13 DEF q
      <4> SUFFICES ASSUME NEW i \in DOMAIN missed, NEW n, n = missed[i].seq PROVE Passed(t, n)'
        BY <4>1 DEF t
      <4> QED
        BY <3>2
    <3> QED
      BY <3>1, <3>3 DEF AndroidInv
  <2> QED
    BY <2>5, <2>7, <2>8
<1>21. StreamInv'
  <2>1. Client = "web" => WebInv'
    BY <1>2 DEF StreamInv, WebInv
  <2> QED
    BY <1>0, <1>1, <1>19, <1>20, <2>1 DEF StreamInv
<1>22. \A s \in Session : Known(s)' => s = t
  BY <1>7, <1>9, <1>10, <1>12 DEF Known, t
<1>23. Len(q.buf) <= BufferCap
  BY <1>4, <1>13
<1>24. \A j \in Socket : down'[j] # <<>> => j = k
  BY <1>12
<1>25. sessions' = [sessions EXCEPT ![t] = q]
  BY <1>3, <1>13 DEF q, next
<1> QED
  BY <1>3, <1>11, <1>12, <1>13, <1>14, <1>15, <1>21, <1>22, <1>23, <1>24, <1>25 DEF q, r, t

-----------------------------------------------------------------------------
(* What the steps of the gateway leave of the sockets.                     *)

LEMMA SocketFrame ==
  ASSUME LinkIInv, UNCHANGED <<cut, client>>,
         \A k \in Socket : ready'[k] = "none" <=> ready[k] = "none",
         \A k \in Socket : down'[k] # <<>> => down[k] # <<>> \/ (ready[k] # "none" /\ k \notin cut),
         \A k \in Socket : ready'[k] = "fresh" => ready[k] = "fresh" /\ hello'[k] = hello[k],
         \A k \in watched' :
           \/ /\ k \in watched
              /\ Used(k) => Used(k)'
              /\ ready'[k] = "open" =>
                   /\ ready[k] = "open"
                   /\ \A s \in Session : sessions[s].ws = k => sessions'[s].ws = k
           \/ Used(k)' /\ \E s \in Session : sessions'[s].ws = k
  PROVE  SocketInv'
<1>1. SocketInv
  BY DEF LinkIInv
<1>2. (\A k \in Socket : ready[k] = "none" => \A j \in Socket : j > k => ready[j] = "none")'
  BY <1>1 DEF SocketInv
<1>3. (\A k \in watched : Used(k) /\ (ready[k] = "open" => \E s \in Session : sessions[s].ws = k))'
  BY <1>1 DEF SocketInv
<1>4. (client.sock # Nil =>
         /\ ready[client.sock] # "none"
         /\ \A j \in Socket : j > client.sock => ready[j] = "none")'
  <2>1. client.sock # Nil => client.sock \in Socket
    BY DEF LinkIInv, LinkTypeOK
  <2> QED
    BY <1>1, <2>1 DEF SocketInv
<1>5. (\A k \in Socket : ready[k] # "none" /\ k \notin cut => k = client.sock)'
  BY <1>1 DEF SocketInv
<1>6. (\A k \in Socket : down[k] # <<>> => ready[k] # "none" /\ k \notin cut)'
  BY <1>1 DEF SocketInv
<1>7. (\A k \in Socket : ready[k] = "fresh" /\ k \notin cut /\ hello[k].type = "reconnect" =>
         /\ k = client.sock
         /\ hello[k].sess = client.sess /\ hello[k].token = client.token
         /\ hello[k].last = client.last /\ hello[k].of = client.of)'
  BY <1>1 DEF SocketInv
<1> QED
  BY <1>2, <1>3, <1>4, <1>5, <1>6, <1>7 DEF SocketInv

(* The parts of the invariant that the steps of one actor touch.           *)
LEMMA Parts ==
  ASSUME LinkIInv
  PROVE  /\ LinkTypeOK /\ SocketInv /\ (\A s \in Session : SessionInv(s)) /\ OwnSocket /\ WireInv
         /\ StreamInv
         /\ nextSession \in Nat /\ ready \in [Socket -> {"none", "fresh", "closedFresh", "open", "closing", "closed"}]
         /\ sessions \in [Session -> ActiveSession] /\ watched \subseteq Socket
<1>1. LinkTypeOK
  BY DEF LinkIInv
<1>2. nextSession \in 1 .. MaxSession + 1
  BY <1>1 DEF LinkTypeOK
<1>3. ready \in [Socket -> {"none", "fresh", "closedFresh", "open", "closing", "closed"}]
      /\ sessions \in [Session -> ActiveSession] /\ watched \subseteq Socket
  BY <1>1 DEF LinkTypeOK
<1>4. nextSession \in Nat
  BY <1>2, BoundsAssumption
<1> QED
  BY <1>1, <1>3, <1>4 DEF LinkIInv

LEMMA ClosedSocket ==
  ASSUME LinkIInv, NEW k \in Socket
  PROVE  /\ Closed(ready, k) \in [Socket -> {"none", "fresh", "closedFresh", "open", "closing", "closed"}]
         /\ Closed(ready, k)[k] # "open"
         /\ \A j \in Socket : /\ Closed(ready, k)[j] = ready[j] \/ (j = k /\ ready[j] = "open" /\ Closed(ready, k)[j] = "closing")
BY Parts DEF Closed

(* A session that exists is on a socket the gateway accepted.              *)
LEMMA OnSocket ==
  ASSUME LinkIInv, NEW s \in Session, sessions[s].ws # Nil \/ sessions[s].up # "none"
  PROVE  /\ s < nextSession /\ sessions[s].ws \in Socket /\ sessions[s].ws # Nil /\ Used(sessions[s].ws)
         /\ sessions[s].up # "none" /\ sessions[s].starter \in Socket
<1>1. /\ SessionInv(s) /\ sessions[s] \in ActiveSession /\ nextSession \in Nat /\ s \in Nat
  BY Parts, Numerals
<1>2. ~(s >= nextSession)
  <2> SUFFICES ASSUME s >= nextSession PROVE FALSE
    OBVIOUS
  <2>1. sessions[s] = Fresh
    BY <1>1 DEF SessionInv
  <2> QED
    BY <2>1 DEF Fresh
<1>3. s < nextSession
  BY <1>1, <1>2
<1> QED
  BY <1>1, <1>3 DEF SessionInv, ActiveSession

-----------------------------------------------------------------------------
(* The client and the network.                                             *)

LEMMA ClientOpensIInv ==
  ASSUME LinkIInv, NEW k \in Socket, ClientOpens(k)
  PROVE  LinkIInv'
<1>1. /\ client.sock = Nil /\ ready[k] = "none" /\ \A j \in Socket : j < k => ready[j] # "none"
      /\ ready' = [ready EXCEPT ![k] = "fresh"] /\ client' = [client EXCEPT !.sock = k]
      /\ hello' = [hello EXCEPT ![k] =
           IF client.sess # Nil
             THEN [type |-> "reconnect", sess |-> client.sess, token |-> client.token,
                   last |-> client.last, of |-> client.of]
             ELSE FirstHello]
      /\ sessions' = sessions /\ nextSession' = nextSession /\ watched' = watched /\ down' = down
      /\ cut' = cut /\ copies' = copies /\ lost' = lost
  BY DEF ClientOpens
<1>2. LinkTypeOK /\ SocketInv /\ OwnSocket
  BY Parts
<1>3. client \in [sock : Socket \union {Nil}, sess : Session \union {Nil}, token : Nat,
                  last : 0 .. LastSeq, of : Session \union {Nil}]
      /\ ready \in [Socket -> {"none", "fresh", "closedFresh", "open", "closing", "closed"}]
      /\ hello \in [Socket -> {NoHello, FirstHello} \union Reconnect]
      /\ down \in [Socket -> Seq(Message)]
  BY <1>2 DEF LinkTypeOK
<1>4. /\ client' \in [sock : Socket \union {Nil}, sess : Session \union {Nil}, token : Nat,
                      last : 0 .. LastSeq, of : Session \union {Nil}]
      /\ client'.sock = k /\ client'.sess = client.sess /\ client'.token = client.token
      /\ client'.last = client.last /\ client'.of = client.of
  BY <1>1, <1>3
<1>5. hello' \in [Socket -> {NoHello, FirstHello} \union Reconnect]
  <2>1. client.sess # Nil =>
          [type |-> "reconnect", sess |-> client.sess, token |-> client.token,
           last |-> client.last, of |-> client.of] \in Reconnect
    BY <1>3 DEF Reconnect
  <2> HIDE DEF Reconnect, FirstHello, NoHello
  <2> QED
    BY <1>1, <1>3, <2>1
<1>6. /\ ready'[k] = "fresh" /\ \A j \in Socket : j # k => ready'[j] = ready[j]
      /\ ready' \in [Socket -> {"none", "fresh", "closedFresh", "open", "closing", "closed"}]
  BY <1>1, <1>3
<1>7. LinkTypeOK'
  BY <1>1, <1>2, <1>4, <1>5, <1>6 DEF LinkTypeOK
<1>8. \A j \in Socket : ready[j] # "none" => j \in cut
  BY <1>1, <1>2, Numerals DEF SocketInv
<1>9. SocketInv'
  <2>1. (\A i \in Socket : ready[i] = "none" => \A j \in Socket : j > i => ready[j] = "none")'
    <3> SUFFICES ASSUME NEW i \in Socket, ready'[i] = "none", NEW j \in Socket, j > i
                 PROVE  ready'[j] = "none"
      OBVIOUS
    <3>1. i # k /\ ready[i] = "none" /\ ready[j] = "none"
      BY <1>2, <1>6 DEF SocketInv
    <3>2. j # k
      BY <1>1, <3>1, Numerals
    <3> QED
      BY <1>6, <3>1, <3>2
  <2>2. (\A i \in watched : Used(i) /\ (ready[i] = "open" => \E s \in Session : sessions[s].ws = i))'
    <3> SUFFICES ASSUME NEW i \in watched
                 PROVE  Used(i)' /\ (ready'[i] = "open" => \E s \in Session : sessions[s].ws = i)
      BY <1>1
    <3>1. Used(i) /\ i \in Socket /\ (ready[i] = "open" => \E s \in Session : sessions[s].ws = i)
      BY <1>2 DEF SocketInv, LinkTypeOK
    <3>2. i # k
      BY <1>1, <3>1 DEF Used
    <3> QED
      BY <1>6, <3>1, <3>2 DEF Used
  <2>3. (client.sock # Nil =>
           /\ ready[client.sock] # "none"
           /\ \A j \in Socket : j > client.sock => ready[j] = "none")'
    <3>1. \A j \in Socket : j > k => ready'[j] = "none"
      <4> SUFFICES ASSUME NEW j \in Socket, j > k PROVE ready'[j] = "none"
        OBVIOUS
      <4>1. ready[j] = "none" /\ j # k
        BY <1>1, <1>2, Numerals DEF SocketInv
      <4> QED
        BY <1>6, <4>1
    <3> QED
      BY <1>4, <1>6, <3>1
  <2>4. (\A j \in Socket : ready[j] # "none" /\ j \notin cut => j = client.sock)'
    BY <1>1, <1>4, <1>6, <1>8
  <2>5. (\A j \in Socket : down[j] # <<>> => ready[j] # "none" /\ j \notin cut)'
    BY <1>1, <1>2, <1>6 DEF SocketInv
  <2>6. (\A j \in Socket : ready[j] = "fresh" /\ j \notin cut /\ hello[j].type = "reconnect" =>
           /\ j = client.sock
           /\ hello[j].sess = client.sess /\ hello[j].token = client.token
           /\ hello[j].last = client.last /\ hello[j].of = client.of)'
    <3> SUFFICES ASSUME NEW j \in Socket, ready'[j] = "fresh", j \notin cut, hello'[j].type = "reconnect"
                 PROVE  /\ j = k
                        /\ hello'[j].sess = client.sess /\ hello'[j].token = client.token
                        /\ hello'[j].last = client.last /\ hello'[j].of = client.of
      BY <1>1, <1>4
    <3>1. j = k
      BY <1>6, <1>8
    <3>2. hello'[k] = IF client.sess # Nil
                        THEN [type |-> "reconnect", sess |-> client.sess, token |-> client.token,
                              last |-> client.last, of |-> client.of]
                        ELSE FirstHello
      BY <1>1, <1>3
    <3>3. client.sess # Nil
      BY <3>1, <3>2 DEF FirstHello
    <3> QED
      BY <3>1, <3>2, <3>3
  <2> QED
    BY <2>1, <2>2, <2>3, <2>4, <2>5, <2>6 DEF SocketInv
<1>10. \A s \in Session : sessions[s].ws # k
  <2> SUFFICES ASSUME NEW s \in Session, sessions[s].ws = k PROVE FALSE
    OBVIOUS
  <2>1. Used(k)
    BY OnSocket, Numerals
  <2> QED
    BY <1>1, <2>1 DEF Used
<1>11. WireInv' /\ StreamInv' /\ \A s \in Session : Known(s)' <=> Known(s)
  <2>1. \A s \in Session : SameStream(sessions[s], sessions'[s])
    BY <1>1 DEF SameStream
  <2>2. client' = [client EXCEPT !.sock = client'.sock]
    BY <1>1, <1>4
  <2>3. \A s \in Session : sessions[s].ws # client'.sock
    BY <1>4, <1>10
  <2>4. \A s \in Session : sessions[s].ws # Nil /\ ready'[sessions[s].ws] = "open"
                             => ready[sessions[s].ws] = "open"
    BY <1>6, <1>10, Fields, <1>2
  <2> QED
    BY <1>1, <2>1, <2>2, <2>3, <2>4, SilentStep
<1>12. ASSUME NEW s \in Session PROVE SessionInv(s)'
  <2>1. SessionInv(s) /\ nextSession' \in Nat /\ sessions[s].ws \in Socket \union {Nil}
    BY <1>1, <1>2, Parts, Fields
  <2>2. LET w == sessions[s].ws
        IN w # Nil => /\ Used(w) => Used(w)'
                      /\ ready[w] = "closed" <=> ready'[w] = "closed"
                      /\ ready'[w] = "open" => ready[w] = "open"
                      /\ w \in watched <=> w \in watched'
    BY <1>1, <1>6, <1>10, <2>1 DEF Used
  <2> QED
    BY <1>1, <1>2, <1>11, <2>1, <2>2, KeepSession
<1>13. OwnSocket'
  BY <1>1, <1>2 DEF OwnSocket
<1> QED
  BY <1>7, <1>9, <1>11, <1>12, <1>13 DEF LinkIInv

LEMMA ClientSeesCloseIInv ==
  ASSUME LinkIInv, NEW k \in Socket, ClientSeesClose(k)
  PROVE  LinkIInv'
<1>1. /\ client.sock = k /\ (k \in cut \/ down[k] = <<>>)
      /\ client' = [client EXCEPT !.sock = Nil] /\ cut' = cut \union {k}
      /\ sessions' = sessions /\ nextSession' = nextSession /\ ready' = ready /\ watched' = watched
      /\ down' = down /\ hello' = hello /\ copies' = copies /\ lost' = lost
  BY DEF ClientSeesClose
<1>2. LinkTypeOK /\ SocketInv /\ OwnSocket
  BY Parts
<1>3. client \in [sock : Socket \union {Nil}, sess : Session \union {Nil}, token : Nat,
                  last : 0 .. LastSeq, of : Session \union {Nil}]
  BY <1>2 DEF LinkTypeOK
<1>4. /\ client' \in [sock : Socket \union {Nil}, sess : Session \union {Nil}, token : Nat,
                      last : 0 .. LastSeq, of : Session \union {Nil}]
      /\ client'.sock = Nil
  BY <1>1, <1>3
<1>5. LinkTypeOK'
  BY <1>1, <1>2, <1>4 DEF LinkTypeOK
<1>6. \A j \in Socket : ready[j] # "none" => j \in cut'
  BY <1>1, <1>2 DEF SocketInv
<1>7. \A j \in Socket : down[j] = <<>>
  <2> SUFFICES ASSUME NEW j \in Socket, down[j] # <<>> PROVE FALSE
    OBVIOUS
  <2>1. ready[j] # "none" /\ j \notin cut /\ j = k
    BY <1>1, <1>2 DEF SocketInv
  <2> QED
    BY <1>1, <2>1
<1>8. SocketInv'
  <2>1. (\A i \in watched : Used(i) /\ (ready[i] = "open" => \E s \in Session : sessions[s].ws = i))'
    BY <1>1, <1>2 DEF SocketInv, Used
  <2> QED
    BY <1>1, <1>2, <1>4, <1>6, <1>7, <2>1 DEF SocketInv
<1>9. WireInv' /\ StreamInv' /\ \A s \in Session : Known(s)' <=> Known(s)
  <2>1. \A s \in Session : SameStream(sessions[s], sessions'[s])
    BY <1>1 DEF SameStream
  <2>2. client' = [client EXCEPT !.sock = client'.sock]
    BY <1>1, <1>4
  <2> QED
    BY <1>1, <1>4, <2>1, <2>2, SilentStep
<1>10. ASSUME NEW s \in Session PROVE SessionInv(s)'
  <2>1. SessionInv(s) /\ nextSession' \in Nat
    BY <1>1, Parts
  <2> QED
    BY <1>1, <1>2, <1>9, <2>1, KeepSession DEF Used
<1>11. OwnSocket'
  BY <1>1, <1>2 DEF OwnSocket
<1> QED
  BY <1>5, <1>8, <1>9, <1>10, <1>11 DEF LinkIInv

LEMMA CutIInv ==
  ASSUME LinkIInv, NEW k \in Socket, Cut(k)
  PROVE  LinkIInv'
<1>1. /\ cut' = cut \union {k} /\ down' = [down EXCEPT ![k] = <<>>]
      /\ sessions' = sessions /\ nextSession' = nextSession /\ ready' = ready /\ watched' = watched
      /\ hello' = hello /\ client' = client /\ copies' = copies
  BY DEF Cut
<1>2. LinkTypeOK /\ SocketInv /\ OwnSocket
  BY Parts
<1>3. /\ down' \in [Socket -> Seq(Message)] /\ lost' \subseteq Session \X (1 .. LastSeq)
      /\ \A s \in Session : Known(s)' => Known(s)
      /\ WireInv' /\ StreamInv'
  BY CutWire
<1>4. LinkTypeOK'
  BY <1>1, <1>2, <1>3 DEF LinkTypeOK
<1>5. SocketInv'
  <2>1. (\A i \in watched : Used(i) /\ (ready[i] = "open" => \E s \in Session : sessions[s].ws = i))'
    BY <1>1, <1>2 DEF SocketInv, Used
  <2>2. (\A j \in Socket : down[j] # <<>> => ready[j] # "none" /\ j \notin cut)'
    <3>1. \A j \in Socket : j # k => down'[j] = down[j]
      BY <1>1, Parts, Fields
    <3>2. down'[k] = <<>>
      BY <1>1, <1>2 DEF LinkTypeOK
    <3> QED
      BY <1>1, <1>2, <3>1, <3>2 DEF SocketInv
  <2> QED
    BY <1>1, <1>2, <2>1, <2>2 DEF SocketInv
<1>6. ASSUME NEW s \in Session PROVE SessionInv(s)'
  <2>1. SessionInv(s) /\ nextSession' \in Nat
    BY <1>1, Parts
  <2> QED
    BY <1>1, <1>2, <1>3, <2>1, KeepSession DEF Used
<1>7. OwnSocket'
  BY <1>1, <1>2 DEF OwnSocket
<1> QED
  BY <1>3, <1>4, <1>5, <1>6, <1>7 DEF LinkIInv

LEMMA ClientReceivesIInv ==
  ASSUME LinkIInv, NEW k \in Socket, ClientReceives(k)
  PROVE  LinkIInv'
<1>1. /\ client.sock = k /\ down[k] # <<>> /\ down' = [down EXCEPT ![k] = Tail(@)]
      /\ sessions' = sessions /\ nextSession' = nextSession /\ ready' = ready /\ watched' = watched
      /\ hello' = hello /\ cut' = cut /\ lost' = lost
  BY DEF ClientReceives
<1>2. LinkTypeOK /\ SocketInv /\ OwnSocket
  BY Parts
<1>3. /\ down' \in [Socket -> Seq(Message)] /\ copies' \in [Session -> [1 .. LastSeq -> 0 .. 2]]
      /\ client' \in [sock : Socket \union {Nil}, sess : Session \union {Nil}, token : Nat,
                      last : 0 .. LastSeq, of : Session \union {Nil}]
      /\ client'.sock = client.sock
      /\ \A s \in Session : Known(s)' => Known(s)
      /\ WireInv' /\ StreamInv'
  BY ReceiveWire
<1>4. LinkTypeOK'
  BY <1>1, <1>2, <1>3 DEF LinkTypeOK
<1>5. ready[k] # "fresh"
  <2>1. down[k] \in Seq(Message) /\ down[k] # <<>>
    BY <1>1, <1>2, Fields
  <2>2. 1 \in DOMAIN down[k]
    BY <2>1, LenProperties, EmptySeq
  <2>3. down[k][1].sess \in Session /\ sessions[down[k][1].sess].ws = k
    BY <2>1, <2>2, MessageFields, Parts DEF WireInv
  <2>4. Used(k)
    BY <2>3, OnSocket, Numerals
  <2> QED
    BY <2>4 DEF Used
<1>6. SocketInv'
  <2>1. (\A i \in watched : Used(i) /\ (ready[i] = "open" => \E s \in Session : sessions[s].ws = i))'
    BY <1>1, <1>2 DEF SocketInv, Used
  <2>2. (\A j \in Socket : down[j] # <<>> => ready[j] # "none" /\ j \notin cut)'
    <3>1. \A j \in Socket : j # k => down'[j] = down[j]
      BY <1>1, <1>2 DEF LinkTypeOK
    <3> QED
      BY <1>1, <1>2, <3>1 DEF SocketInv
  <2>3. (\A j \in Socket : ready[j] = "fresh" /\ j \notin cut /\ hello[j].type = "reconnect" =>
           /\ j = client.sock
           /\ hello[j].sess = client.sess /\ hello[j].token = client.token
           /\ hello[j].last = client.last /\ hello[j].of = client.of)'
    <3>1. \A j \in Socket : ready[j] = "fresh" /\ j \notin cut => j = k
      BY <1>1, <1>2 DEF SocketInv
    <3> QED
      BY <1>1, <1>5, <3>1
  <2> QED
    BY <1>1, <1>2, <1>3, <2>1, <2>2, <2>3 DEF SocketInv
<1>7. ASSUME NEW s \in Session PROVE SessionInv(s)'
  <2>1. SessionInv(s) /\ nextSession' \in Nat
    BY <1>1, Parts
  <2> QED
    BY <1>1, <1>2, <1>3, <2>1, KeepSession DEF Used
<1>8. OwnSocket'
  BY <1>1, <1>2 DEF OwnSocket
<1> QED
  BY <1>3, <1>4, <1>6, <1>7, <1>8 DEF LinkIInv

-----------------------------------------------------------------------------
(* The sockets at the gateway.                                             *)

(* A new session: its number is the next one, and nobody heard of it.      *)
LEMMA StartNewSessionIInv ==
  ASSUME LinkIInv, NEW k \in Socket, NEW configured \in BOOLEAN, StartNewSession(k, configured),
         ready[k] \in {"fresh", "closedFresh"}, NEW accepted \in {"open", "closed"},
         ready' = [ready EXCEPT ![k] = accepted], hello' = [hello EXCEPT ![k] = NoHello],
         UNCHANGED <<cut, client, copies>>
  PROVE  LinkIInv'
<1> DEFINE n == nextSession
           q == [Fresh EXCEPT !.live = TRUE, !.ws = k, !.starter = k, !.up = "connecting",
                              !.configured = configured]
<1>1. /\ n \in Session /\ sessions' = [sessions EXCEPT ![n] = q] /\ nextSession' = n + 1
      /\ down' = down /\ lost' = lost /\ watched' = watched
  BY DEF StartNewSession
<1>2. /\ LinkTypeOK /\ SocketInv /\ OwnSocket /\ sessions \in [Session -> ActiveSession] /\ n \in Nat
      /\ ready \in [Socket -> {"none", "fresh", "closedFresh", "open", "closing", "closed"}]
      /\ hello \in [Socket -> {NoHello, FirstHello} \union Reconnect]
  BY Parts DEF LinkTypeOK
<1>3. /\ q.live /\ q.ws = k /\ q.starter = k /\ q.up = "connecting" /\ q.configured = configured
      /\ q.token = 0 /\ q.seq = 0 /\ q.buf = <<>> /\ ~q.grace /\ ~q.setup /\ ~q.clientReady
      /\ ~q.startSent /\ q.said = 0 /\ q.goAways = 0 /\ ~q.strayed /\ ~q.untold
      /\ q \in ActiveSession
  <2>1. /\ q.live /\ q.ws = k /\ q.starter = k /\ q.up = "connecting" /\ q.configured = configured
        /\ q.token = 0 /\ q.seq = 0 /\ q.buf = <<>> /\ ~q.grace /\ ~q.setup /\ ~q.clientReady
        /\ ~q.startSent /\ q.said = 0 /\ q.goAways = 0 /\ ~q.strayed /\ ~q.untold
    BY DEF Fresh
  <2>2. q \in ActiveSession
    <3>1. 0 \in 0 .. LastSeq /\ 0 \in 0 .. MaxSeq /\ 0 \in 0 .. MaxGoAway /\ 0 \in Nat
      BY Numerals, BoundsAssumption
    <3>2. Fresh \in ActiveSession
      BY <3>1 DEF Fresh, ActiveSession
    <3> HIDE DEF Fresh
    <3> QED
      BY <3>2 DEF ActiveSession
  <2> QED
    BY <2>1, <2>2
<1> HIDE DEF q
<1>4. sessions'[n] = q /\ \A s \in Session : s # n => sessions'[s] = sessions[s]
  BY <1>1, <1>2
<1>5. sessions[n] = Fresh /\ ~Known(n) /\ SessionInv(n)
  <2>1. SessionInv(n) /\ n >= n /\ ~(n < n)
    BY <1>1, <1>2, Parts
  <2> QED
    BY <2>1 DEF SessionInv
<1>6. ready'[k] = accepted /\ (\A j \in Socket : j # k => ready'[j] = ready[j])
      /\ ready' \in [Socket -> {"none", "fresh", "closedFresh", "open", "closing", "closed"}]
  BY <1>2
<1>7. k \notin watched /\ \A s \in Session : sessions[s].ws # k
  <2>1. ~Used(k)
    BY DEF Used
  <2>2. \A s \in Session : sessions[s].ws = k => Used(k)
    BY OnSocket, Numerals
  <2> QED
    BY <1>2, <2>1, <2>2 DEF SocketInv
<1>8. LinkTypeOK'
  <2>1. sessions' \in [Session -> ActiveSession] /\ \A s \in Session : Len(sessions'[s].buf) <= BufferCap
    <3>1. Len(q.buf) <= BufferCap
      BY <1>3, BoundsAssumption
    <3> QED
      BY <1>1, <1>2, <1>3, <1>4, <3>1 DEF LinkTypeOK
  <2>2. nextSession' \in 1 .. MaxSession + 1
    BY <1>1, BoundsAssumption DEF Session
  <2>3. hello' \in [Socket -> {NoHello, FirstHello} \union Reconnect]
    BY <1>2
  <2> QED
    BY <1>1, <1>2, <1>6, <2>1, <2>2, <2>3 DEF LinkTypeOK
<1>9. SocketInv'
  <2>1. \A j \in Socket : ready'[j] = "none" <=> ready[j] = "none"
    BY <1>6
  <2>2. \A j \in Socket : ready'[j] = "fresh" => ready[j] = "fresh" /\ hello'[j] = hello[j]
    BY <1>2, <1>6
  <2>3. \A j \in watched' :
          /\ j \in watched
          /\ Used(j) => Used(j)'
          /\ ready'[j] = "open" =>
               /\ ready[j] = "open"
               /\ \A s \in Session : sessions[s].ws = j => sessions'[s].ws = j
    <3> SUFFICES ASSUME NEW j \in watched
                 PROVE  /\ ready'[j] = ready[j]
                        /\ \A s \in Session : sessions[s].ws = j => sessions'[s].ws = j
      BY <1>1 DEF Used
    <3>1. j \in Socket /\ j # k /\ j # Nil
      BY <1>2, <1>7, Numerals DEF LinkTypeOK
    <3>2. sessions[n].ws # j
      BY <1>5, <3>1 DEF Fresh
    <3> QED
      BY <1>4, <1>6, <3>1, <3>2
  <2> QED
    BY <1>1, <2>1, <2>2, <2>3, SocketFrame
<1>10. WireInv' /\ StreamInv' /\ \A s \in Session : Known(s)' <=> Known(s)
  <2>1. \A s \in Session :
           \/ SameStream(sessions[s], sessions'[s])
           \/ /\ ~Known(s)
              /\ sessions[s].seq = 0 /\ sessions'[s].seq = 0
              /\ sessions[s].buf = <<>> /\ sessions'[s].buf = <<>>
    BY <1>3, <1>4, <1>5 DEF SameStream, Fresh
  <2>2. \A s \in Session : sessions[s].ws # Nil /\ ready'[sessions[s].ws] = "open"
                             => ready[sessions[s].ws] = "open"
    BY <1>2, <1>6, <1>7, Fields
  <2>3. client' = [client EXCEPT !.sock = client'.sock]
    BY <1>2 DEF LinkTypeOK
  <2> QED
    BY <1>1, <2>1, <2>2, <2>3, SilentStep
<1>11. ASSUME NEW s \in Session PROVE SessionInv(s)'
  <2>1. CASE s = n
    <3>1. Used(k)'
      BY <1>6 DEF Used
    <3>2. s < nextSession' /\ ~(s >= nextSession')
      BY <1>1, <1>2, <2>1
    <3>3. ~Known(s)'
      BY <1>5, <1>10, <2>1
    <3>4. k \in Nat /\ k # Nil /\ 0 < k
      BY Numerals DEF Socket
    <3> QED
      BY <1>1, <1>3, <1>4, <1>7, <2>1, <3>1, <3>2, <3>3, <3>4 DEF SessionInv
  <2>2. CASE s # n
    <3>1. SessionInv(s) /\ sessions[s].ws \in Socket \union {Nil} /\ s \in Nat
      BY <1>2, Parts, Fields, Numerals
    <3>2. nextSession' \in Nat /\ (s >= nextSession' => s >= nextSession) /\ (s < nextSession' => s < nextSession)
      BY <1>1, <1>2, <2>2, <3>1
    <3>3. LET w == sessions[s].ws
          IN w # Nil => /\ Used(w) => Used(w)'
                        /\ ready[w] = "closed" <=> ready'[w] = "closed"
                        /\ ready'[w] = "open" => ready[w] = "open"
                        /\ w \in watched <=> w \in watched'
      <4>1. \A w \in Socket : w # k =>
              /\ Used(w) => Used(w)'
              /\ ready[w] = "closed" <=> ready'[w] = "closed"
              /\ ready'[w] = "open" => ready[w] = "open"
              /\ w \in watched <=> w \in watched'
        BY <1>1, <1>6 DEF Used
      <4> QED
        BY <1>4, <1>7, <2>2, <3>1, <4>1 DEF Used
    <3> QED
      BY <1>2, <1>4, <1>10, <2>2, <3>1, <3>2, <3>3, KeepSession
  <2> QED
    BY <2>1, <2>2
<1>12. OwnSocket'
  BY <1>2, <1>3, <1>4, <1>7 DEF OwnSocket
<1> QED
  BY <1>8, <1>9, <1>10, <1>11, <1>12 DEF LinkIInv

LEMMA InitTimeoutIInv ==
  ASSUME LinkIInv, NEW k \in Socket, InitTimeout(k)
  PROVE  LinkIInv'
<1> DEFINE accepted == IF ready[k] = "fresh" THEN "open" ELSE "closed"
<1>1. /\ ready[k] \in {"fresh", "closedFresh"} /\ ready' = [ready EXCEPT ![k] = accepted]
      /\ hello' = [hello EXCEPT ![k] = NoHello] /\ StartNewSession(k, FALSE)
      /\ UNCHANGED <<cut, client, copies>>
  <2>1. ready' = [ready EXCEPT ![k] = IF @ = "fresh" THEN "open" ELSE "closed"]
    BY DEF InitTimeout
  <2>2. ready' = [ready EXCEPT ![k] = accepted]
    BY <2>1, Parts
  <2> QED
    BY <2>2 DEF InitTimeout
<1>2. accepted \in {"open", "closed"} /\ FALSE \in BOOLEAN
  OBVIOUS
<1> HIDE DEF accepted
<1> QED
  BY <1>1, <1>2, StartNewSessionIInv

LEMMA FirstMessageIInv ==
  ASSUME LinkIInv, NEW k \in Socket, FirstMessage(k)
  PROVE  LinkIInv'
<1> DEFINE h == hello[k]
           known == h.type = "reconnect" /\ sessions[h.sess].live
<1>1. /\ ready[k] = "fresh" /\ k \notin cut /\ hello' = [hello EXCEPT ![k] = NoHello]
      /\ UNCHANGED <<cut, client, copies>>
  BY DEF FirstMessage
<1>2. \/ known /\ h.token = sessions[h.sess].token /\ ResumeSession(k, h)
      \/ known /\ ready' = [ready EXCEPT ![k] = "closing"] /\ UNCHANGED <<sessions, nextSession, watched, down, lost>>
      \/ ready' = [ready EXCEPT ![k] = "open"] /\ StartNewSession(k, h.type = "configure")
  BY DEF FirstMessage
<1>3. /\ LinkTypeOK /\ SocketInv /\ OwnSocket /\ sessions \in [Session -> ActiveSession]
      /\ ready \in [Socket -> {"none", "fresh", "closedFresh", "open", "closing", "closed"}]
      /\ hello \in [Socket -> {NoHello, FirstHello} \union Reconnect]
  BY Parts DEF LinkTypeOK
<1>4. k \notin watched /\ \A s \in Session : sessions[s].ws # k
  <2>1. ~Used(k)
    BY <1>1 DEF Used
  <2>2. \A s \in Session : sessions[s].ws = k => Used(k)
    BY OnSocket, Numerals
  <2> QED
    BY <1>3, <2>1, <2>2 DEF SocketInv
<1>5. hello' \in [Socket -> {NoHello, FirstHello} \union Reconnect] /\ \A j \in Socket : j # k => hello'[j] = hello[j]
  BY <1>1, <1>3
<1>6. CASE ready' = [ready EXCEPT ![k] = "open"] /\ StartNewSession(k, h.type = "configure")
  <2>1. ready[k] \in {"fresh", "closedFresh"} /\ "open" \in {"open", "closed"}
        /\ (h.type = "configure") \in BOOLEAN
    BY <1>1
  <2> QED
    BY <1>1, <1>6, <2>1, StartNewSessionIInv
<1>7. CASE ready' = [ready EXCEPT ![k] = "closing"] /\ UNCHANGED <<sessions, nextSession, watched, down, lost>>
  <2>1. /\ ready'[k] = "closing" /\ (\A j \in Socket : j # k => ready'[j] = ready[j])
        /\ ready' \in [Socket -> {"none", "fresh", "closedFresh", "open", "closing", "closed"}]
    BY <1>3, <1>7
  <2>2. LinkTypeOK'
    BY <1>1, <1>3, <1>5, <1>7, <2>1 DEF LinkTypeOK
  <2>3. SocketInv'
    <3>1. \A j \in watched : j \in Socket /\ ready'[j] = ready[j]
      BY <1>3, <1>4, <2>1 DEF LinkTypeOK
    <3> QED
      BY <1>1, <1>5, <1>7, <2>1, <3>1, SocketFrame DEF Used
  <2>4. WireInv' /\ StreamInv' /\ \A s \in Session : Known(s)' <=> Known(s)
    <3>1. \A s \in Session : SameStream(sessions[s], sessions'[s])
      BY <1>7 DEF SameStream
    <3>2. client' = [client EXCEPT !.sock = client'.sock]
      BY <1>1, <1>3 DEF LinkTypeOK
    <3>3. \A s \in Session : sessions[s].ws # Nil /\ ready'[sessions[s].ws] = "open"
                               => ready[sessions[s].ws] = "open"
      BY <1>3, <1>4, <2>1, Fields
    <3> QED
      BY <1>1, <1>7, <3>1, <3>2, <3>3, SilentStep
  <2>5. ASSUME NEW s \in Session PROVE SessionInv(s)'
    <3>1. SessionInv(s) /\ nextSession' \in Nat /\ sessions[s].ws \in Socket \union {Nil}
      BY <1>3, <1>7, Parts, Fields
    <3>2. LET w == sessions[s].ws
          IN w # Nil => /\ Used(w) => Used(w)'
                        /\ ready[w] = "closed" <=> ready'[w] = "closed"
                        /\ ready'[w] = "open" => ready[w] = "open"
                        /\ w \in watched <=> w \in watched'
      BY <1>4, <1>7, <2>1, <3>1 DEF Used
    <3> QED
      BY <1>3, <1>7, <2>4, <3>1, <3>2, KeepSession
  <2>6. OwnSocket'
    BY <1>3, <1>7 DEF OwnSocket
  <2> QED
    BY <2>2, <2>3, <2>4, <2>5, <2>6 DEF LinkIInv
<1>8. CASE known /\ h.token = sessions[h.sess].token /\ ResumeSession(k, h)
  <2> DEFINE t == client.sess
             r == sessions[t]
             q == sessions'[t]
             rd == [ready EXCEPT ![k] = "open"]
  <2>1. /\ sessions' = [sessions EXCEPT ![t] = q]
        /\ q = [r EXCEPT !.token = r.token + 1, !.grace = FALSE, !.ws = k,
                         !.strayed = r.strayed \/ client.of # t,
                         !.seq = r.seq + 1, !.buf = q.buf]
        /\ q \in ActiveSession /\ Len(q.buf) <= BufferCap
        /\ ready' = Closed(rd, r.ws)
        /\ watched' = watched \union {k} /\ nextSession' = nextSession
        /\ down' \in [Socket -> Seq(Message)] /\ lost' = lost
        /\ \A j \in Socket : down'[j] # <<>> => j = k
        /\ \A s \in Session : Known(s)' => s = t
        /\ WireInv' /\ StreamInv'
    BY <1>1, <1>8, ResumeWire
  <2>2. /\ t \in Session /\ t < nextSession /\ r.ws \in Socket /\ Used(r.ws) /\ r.ws < k
        /\ r.token + 1 < k /\ h.sess = t /\ r.live /\ r \in ActiveSession /\ SessionInv(t)
        /\ r.token \in Nat /\ r.seq \in Nat
    BY <1>1, <1>3, <1>8, ReconnectFacts, Parts, Fields
  <2>3. r.ws # k
    BY <1>4, <2>2
  <2>4. /\ rd \in [Socket -> {"none", "fresh", "closedFresh", "open", "closing", "closed"}]
        /\ rd[k] = "open" /\ \A j \in Socket : j # k => rd[j] = ready[j]
    BY <1>3
  <2> HIDE DEF rd, h, known
  <2>5. /\ ready' \in [Socket -> {"none", "fresh", "closedFresh", "open", "closing", "closed"}]
        /\ ready'[k] = "open" /\ ready'[r.ws] # "open"
        /\ \A j \in Socket : j # k => \/ ready'[j] = ready[j]
                                      \/ j = r.ws /\ ready[j] = "open" /\ ready'[j] = "closing"
    <3> HIDE DEF r, t
    <3> QED
      BY <2>1, <2>2, <2>3, <2>4 DEF Closed
  <2>6. /\ q.token = r.token + 1 /\ ~q.grace /\ q.ws = k /\ q.seq = r.seq + 1
        /\ q.live = r.live /\ q.starter = r.starter /\ q.configured = r.configured /\ q.up = r.up
        /\ q.setup = r.setup /\ q.clientReady = r.clientReady /\ q.startSent = r.startSent
        /\ q.said = r.said /\ q.goAways = r.goAways /\ q.untold = r.untold
    <3> HIDE DEF r, q
    <3> QED
      BY <2>1, <2>2 DEF ActiveSession
  <2>7. sessions'[t] = q /\ \A s \in Session : s # t => sessions'[s] = sessions[s]
    <3> HIDE DEF q, t
    <3> QED
      BY <1>3, <2>1, <2>2
  <2>8. LinkTypeOK'
    <3>1. sessions' \in [Session -> ActiveSession] /\ \A s \in Session : Len(sessions'[s].buf) <= BufferCap
      BY <1>3, <2>1, <2>2, <2>7 DEF LinkTypeOK
    <3>2. watched' \subseteq Socket
      BY <1>3, <2>1 DEF LinkTypeOK
    <3> QED
      BY <1>1, <1>3, <1>5, <2>1, <2>5, <3>1, <3>2 DEF LinkTypeOK
  <2>9. SocketInv'
    <3>1. \A j \in Socket : ready'[j] = "none" <=> ready[j] = "none"
      BY <1>1, <2>5
    <3>2. \A j \in Socket : down'[j] # <<>> => down[j] # <<>> \/ (ready[j] # "none" /\ j \notin cut)
      BY <1>1, <2>1
    <3>3. \A j \in Socket : ready'[j] = "fresh" => ready[j] = "fresh" /\ hello'[j] = hello[j]
      BY <1>5, <2>5
    <3>4. ASSUME NEW j \in watched'
          PROVE  \/ /\ j \in watched
                    /\ Used(j) => Used(j)'
                    /\ ready'[j] = "open" =>
                         /\ ready[j] = "open"
                         /\ \A s \in Session : sessions[s].ws = j => sessions'[s].ws = j
                 \/ Used(j)' /\ \E s \in Session : sessions'[s].ws = j
      <4>1. CASE j = k
        <5>1. Used(j)' /\ sessions'[t].ws = j
          BY <2>5, <2>6, <2>7, <4>1 DEF Used
        <5> QED
          BY <2>2, <5>1
      <4>2. CASE j # k
        <5>1. j \in watched /\ j \in Socket
          BY <1>3, <2>1, <4>2 DEF LinkTypeOK
        <5>2. Used(j) => Used(j)'
          BY <2>5, <4>2, <5>1 DEF Used
        <5>3. ASSUME ready'[j] = "open"
              PROVE  ready[j] = "open" /\ \A s \in Session : sessions[s].ws = j => sessions'[s].ws = j
          <6>1. ready[j] = "open" /\ j # r.ws
            BY <2>5, <4>2, <5>1, <5>3
          <6> QED
            BY <2>7, <6>1
        <5> QED
          BY <5>1, <5>2, <5>3
      <4> QED
        BY <4>1, <4>2
    <3> QED
      BY <1>1, <3>1, <3>2, <3>3, <3>4, SocketFrame
  <2>10. ASSUME NEW s \in Session PROVE SessionInv(s)'
    <3>1. CASE s # t
      <4>1. SessionInv(s) /\ nextSession' \in Nat /\ sessions[s].ws \in Socket \union {Nil}
        BY <1>3, <2>1, Parts, Fields
      <4>2. sessions[s].ws # k
        BY <1>4
      <4>3. LET w == sessions[s].ws
            IN w # Nil => /\ Used(w) => Used(w)'
                          /\ ready[w] = "closed" <=> ready'[w] = "closed"
                          /\ ready'[w] = "open" => ready[w] = "open"
                          /\ w \in watched <=> w \in watched'
        <5>1. \A w \in Socket : w # k =>
                /\ Used(w) => Used(w)'
                /\ ready[w] = "closed" <=> ready'[w] = "closed"
                /\ ready'[w] = "open" => ready[w] = "open"
                /\ w \in watched <=> w \in watched'
          BY <2>1, <2>5 DEF Used
        <5> QED
          BY <2>7, <3>1, <4>1, <4>2, <5>1 DEF Used
      <4>4. ~Known(s)'
        BY <2>1, <3>1
      <4> QED
        BY <1>3, <2>1, <2>7, <3>1, <4>1, <4>3, <4>4, KeepSession
    <3>2. CASE s = t
      <4>1. Used(k)' /\ k # Nil /\ k \in watched'
        BY <2>1, <2>5, Numerals DEF Used
      <4>2. r.up # "closed" /\ r.up # "none"
        BY <2>2, OnSocket, Numerals DEF SessionInv
      <4>3. ~(r.up = "connecting" /\ r.goAways = 0)
        <5>1. r.ws \in watched
          BY <2>2, ReconnectFacts, <1>1, <1>8 DEF h, known
        <5> QED
          BY <2>2, <5>1 DEF SessionInv
      <4>4. q.seq <= q.said + 3 * q.goAways + q.token + (IF q.startSent THEN 2 ELSE 0)
        <5>1. /\ r.seq <= r.said + 3 * r.goAways + r.token + (IF r.startSent THEN 2 ELSE 0)
              /\ r.said \in Nat /\ r.goAways \in Nat
          BY <2>2, BoundsAssumption DEF SessionInv, ActiveSession
        <5> DEFINE two == IF r.startSent THEN 2 ELSE 0
                   three == 3 * r.goAways
        <5>2. two \in Nat /\ three \in Nat /\ r.seq <= r.said + three + r.token + two
          BY <5>1
        <5>3. two = IF q.startSent THEN 2 ELSE 0
          BY <2>6
        <5>4. three = 3 * q.goAways
          BY <2>6
        <5> HIDE DEF two, three, r, q
        <5>5. r.seq + 1 <= r.said + three + (r.token + 1) + two
          BY <2>2, <5>1, <5>2
        <5> QED
          BY <2>6, <5>3, <5>4, <5>5
      <4> HIDE DEF q, r, t
      <4>5. sessions'[s] = q /\ s < nextSession' /\ ~(s >= nextSession')
        <5>1. s \in Nat /\ nextSession \in Nat
          BY Numerals, Parts
        <5> QED
          BY <2>1, <2>2, <2>7, <3>2, <5>1
      <4>6. /\ r.starter # Nil /\ (r.startSent <=> r.setup /\ r.clientReady)
            /\ (r.up = "open" => r.clientReady)
            /\ (r.up \in {"connecting", "open"} /\ ~r.live => r.goAways >= 1)
            /\ (r.configured /\ r.up # "closed" => r.up = "connecting" /\ r.goAways = 0)
        <5>1. t \in Nat /\ nextSession \in Nat /\ ~(t >= nextSession)
          BY <2>2, Numerals, Parts
        <5> QED
          BY <2>2, <5>1 DEF SessionInv, r
      <4>7. ready'[q.ws] = "open" /\ q.ws = k /\ q.token < q.ws
        BY <2>2, <2>5, <2>6
      <4> QED
        BY <2>2, <2>6, <4>1, <4>2, <4>3, <4>4, <4>5, <4>6, <4>7 DEF SessionInv
    <3> QED
      BY <3>1, <3>2
  <2>11. OwnSocket'
    <3>1. \A s \in Session : s # t => sessions'[s].ws # k
      BY <1>4, <2>7
    <3>2. sessions'[t].ws = k
      BY <2>6, <2>7
    <3> HIDE DEF q, r, t
    <3> QED
      BY <1>3, <2>7, <3>1, <3>2 DEF OwnSocket
  <2> QED
    BY <2>1, <2>8, <2>9, <2>10, <2>11 DEF LinkIInv
<1> QED
  BY <1>2, <1>6, <1>7, <1>8

-----------------------------------------------------------------------------
(* Steps of one session.                                                   *)

LEMMA OthersKept ==
  ASSUME LinkIInv, NEW s \in Session, NEW t \in Session, t # s, sessions'[t] = sessions[t],
         nextSession' = nextSession, sessions[s].ws # Nil,
         \A k \in Socket : ready'[k] = ready[k] \/ (ready[k] = "open" /\ ready'[k] = "closing"),
         watched \subseteq watched', \A k \in watched' : k \in watched \/ k = sessions[s].ws,
         Known(t)' => Known(t)
  PROVE  SessionInv(t)'
<1>1. SessionInv(t) /\ LinkTypeOK /\ nextSession \in Nat /\ OwnSocket
      /\ sessions[t].ws \in Socket \union {Nil}
  BY Parts, Fields
<1>2. sessions[t].ws # Nil => sessions[t].ws # sessions[s].ws
  BY <1>1 DEF OwnSocket
<1>3. \A w \in Socket : /\ ready[w] = "closed" <=> ready'[w] = "closed"
                        /\ ready'[w] = "open" => ready[w] = "open"
                        /\ w # sessions[s].ws => (w \in watched <=> w \in watched')
  OBVIOUS
<1>4. \A w \in Socket : Used(w) => Used(w)'
  BY DEF Used
<1>5. LET w == sessions[t].ws
      IN w # Nil => /\ Used(w) => Used(w)'
                    /\ ready[w] = "closed" <=> ready'[w] = "closed"
                    /\ ready'[w] = "open" => ready[w] = "open"
                    /\ w \in watched <=> w \in watched'
  BY <1>1, <1>2, <1>3, <1>4 DEF Used
<1> QED
  BY <1>1, <1>5, KeepSession

LEMMA OneSession ==
  ASSUME LinkIInv, NEW s \in Session, NEW q \in ActiveSession, SameStream(sessions[s], q),
         sessions[s].ws # Nil, sessions' = [sessions EXCEPT ![s] = q],
         ready' \in [Socket -> {"none", "fresh", "closedFresh", "open", "closing", "closed"}],
         \A k \in Socket : ready'[k] = ready[k] \/ (ready[k] = "open" /\ ready'[k] = "closing"),
         watched \subseteq watched', \A k \in watched' : k \in watched \/ k = sessions[s].ws,
         UNCHANGED <<nextSession, down, hello, cut, client, copies, lost>>,
         (\A t \in Session : Known(t)' <=> Known(t)) => SessionInv(s)'
  PROVE  LinkIInv'
<1>1. /\ LinkTypeOK /\ SocketInv /\ OwnSocket /\ sessions \in [Session -> ActiveSession]
      /\ sessions[s].ws \in Socket /\ Used(sessions[s].ws)
  BY Parts, OnSocket
<1>2. sessions'[s] = q /\ \A t \in Session : t # s => sessions'[t] = sessions[t]
  BY <1>1
<1>3. /\ q.ws = sessions[s].ws /\ q.buf = sessions[s].buf /\ sessions[s].buf \in Seq(Message)
      /\ \A t \in Session : SameStream(sessions[t], sessions'[t]) /\ sessions'[t].ws = sessions[t].ws
  BY <1>1, <1>2, Fields DEF SameStream
<1>4. LinkTypeOK'
  <2>1. sessions' \in [Session -> ActiveSession]
    BY <1>1
  <2>2. \A t \in Session : Len(sessions'[t].buf) <= BufferCap
    BY <1>1, <1>2, <1>3 DEF LinkTypeOK
  <2>3. watched' \subseteq Socket
    BY <1>1 DEF LinkTypeOK
  <2> QED
    BY <1>1, <2>1, <2>2, <2>3 DEF LinkTypeOK
<1>5. SocketInv'
  <2>1. \A k \in Socket : ready'[k] = "none" <=> ready[k] = "none"
    OBVIOUS
  <2>2. \A k \in Socket : ready'[k] = "fresh" => ready[k] = "fresh" /\ hello'[k] = hello[k]
    OBVIOUS
  <2>3. \A k \in Socket : Used(k) => Used(k)'
    BY DEF Used
  <2>4. \A k \in watched' : k \in Socket
    BY <1>1 DEF LinkTypeOK
  <2>5. ASSUME NEW k \in watched'
        PROVE  \/ /\ k \in watched
                  /\ Used(k) => Used(k)'
                  /\ ready'[k] = "open" =>
                       /\ ready[k] = "open"
                       /\ \A t \in Session : sessions[t].ws = k => sessions'[t].ws = k
               \/ Used(k)' /\ \E t \in Session : sessions'[t].ws = k
    <3>1. CASE k \in watched
      BY <1>3, <2>3, <2>4, <3>1
    <3>2. CASE k = sessions[s].ws
      <4>1. Used(k)'
        BY <1>1, <2>3, <3>2
      <4> QED
        BY <1>3, <3>2, <4>1
    <3> QED
      BY <3>1, <3>2
  <2> QED
    BY <2>1, <2>2, <2>5, SocketFrame
<1>6. WireInv' /\ StreamInv' /\ \A t \in Session : Known(t)' <=> Known(t)
  <2>1. client' = [client EXCEPT !.sock = client'.sock]
    BY <1>1 DEF LinkTypeOK
  <2>2. \A t \in Session : sessions[t].ws # Nil /\ ready'[sessions[t].ws] = "open"
                             => ready[sessions[t].ws] = "open"
    BY <1>1, Fields
  <2> QED
    BY <1>3, <2>1, <2>2, SilentStep
<1>7. ASSUME NEW t \in Session PROVE SessionInv(t)'
  <2>1. CASE t = s
    BY <1>6, <2>1
  <2>2. CASE t # s
    BY <1>2, <1>6, <2>2, OthersKept
  <2> QED
    BY <2>1, <2>2
<1>8. OwnSocket'
  BY <1>1, <1>3 DEF OwnSocket
<1> QED
  BY <1>4, <1>5, <1>6, <1>7, <1>8 DEF LinkIInv

LEMMA SendStep ==
  ASSUME LinkIInv, NEW s \in Session, NEW r \in ActiveSession, NEW kinds \in Seq(Kind),
         SameStream(r, sessions[s]), r.ws # Nil, r.seq + Len(kinds) <= LastSeq,
         SendToClient(s, r, kinds), UNCHANGED <<nextSession, ready, hello, cut, client, copies>>,
         watched \subseteq watched', \A k \in watched' : k \in watched \/ k = sessions[s].ws,
         /\ sessions'[s] = [r EXCEPT !.seq = r.seq + Len(kinds), !.buf = sessions'[s].buf]
         /\ Known(s)' => Known(s) \/ ready[r.ws] = "open"
         => SessionInv(s)'
  PROVE  LinkIInv'
<1> DEFINE q == sessions'[s]
<1>1. /\ LinkTypeOK /\ SocketInv /\ OwnSocket /\ sessions \in [Session -> ActiveSession]
      /\ sessions[s].ws \in Socket /\ Used(sessions[s].ws) /\ r.ws = sessions[s].ws
  BY Parts, OnSocket DEF SameStream
<1>2. /\ sessions' = [sessions EXCEPT ![s] = q]
      /\ q = [r EXCEPT !.seq = r.seq + Len(kinds), !.buf = q.buf]
      /\ q \in ActiveSession /\ Len(q.buf) <= BufferCap
      /\ down' \in [Socket -> Seq(Message)] /\ lost' \subseteq Session \X (1 .. LastSeq)
      /\ \A k \in Socket : down'[k] # <<>> =>
           down[k] # <<>> \/ (k = r.ws /\ ready[k] = "open" /\ k \notin cut)
      /\ \A t \in Session : Known(t)' => Known(t) \/ (t = s /\ ready[r.ws] = "open" /\ r.ws \notin cut)
      /\ WireInv' /\ StreamInv'
  BY SendWire
<1>3. q.ws = r.ws
  BY <1>2 DEF ActiveSession
<1> HIDE DEF q
<1>4. sessions'[s] = q /\ \A t \in Session : t # s => sessions'[t] = sessions[t]
  BY <1>1, <1>2 DEF q
<1>5. LinkTypeOK'
  <2>1. sessions' \in [Session -> ActiveSession] /\ \A t \in Session : Len(sessions'[t].buf) <= BufferCap
    BY <1>1, <1>2, <1>4 DEF LinkTypeOK
  <2>2. watched' \subseteq Socket
    BY <1>1 DEF LinkTypeOK
  <2> QED
    BY <1>1, <1>2, <2>1, <2>2 DEF LinkTypeOK
<1>6. SocketInv'
  <2>1. \A k \in Socket : down'[k] # <<>> => down[k] # <<>> \/ (ready[k] # "none" /\ k \notin cut)
    BY <1>2
  <2>2. \A k \in watched' :
           \/ /\ k \in watched
              /\ Used(k) => Used(k)'
              /\ ready'[k] = "open" =>
                   /\ ready[k] = "open"
                   /\ \A t \in Session : sessions[t].ws = k => sessions'[t].ws = k
           \/ Used(k)' /\ \E t \in Session : sessions'[t].ws = k
    <3>1. \A t \in Session : sessions'[t].ws = sessions[t].ws
      BY <1>1, <1>3, <1>4
    <3>2. \A k : Used(k)' <=> Used(k)
      BY DEF Used
    <3> QED
      BY <1>1, <3>1, <3>2
  <2> QED
    BY <2>1, <2>2, SocketFrame
<1>7. ASSUME NEW t \in Session PROVE SessionInv(t)'
  <2>1. CASE t = s
    <3>1. SessionInv(s)'
      BY <1>2 DEF q
    <3> QED
      BY <2>1, <3>1
  <2>2. CASE t # s
    <3>1. Known(t)' => Known(t)
      BY <1>2, <2>2
    <3> QED
      BY <1>1, <1>4, <2>2, <3>1, OthersKept, Numerals
  <2> QED
    BY <2>1, <2>2
<1>8. OwnSocket'
  BY <1>1, <1>3, <1>4 DEF OwnSocket
<1> QED
  BY <1>2, <1>5, <1>6, <1>7, <1>8 DEF LinkIInv

(* What the invariant says of a session that exists.                       *)
LEMMA Existing ==
  ASSUME LinkIInv, NEW s \in Session, sessions[s].up # "none" \/ sessions[s].ws # Nil
  PROVE  LET r == sessions[s]
         IN /\ r \in ActiveSession /\ s < nextSession /\ ~(s >= nextSession)
            /\ r.ws \in Socket /\ r.ws # Nil /\ r.starter \in Socket /\ r.starter # Nil
            /\ r.up # "none" /\ Used(r.ws) /\ r.token < r.ws
            /\ r.seq <= r.said + 3 * r.goAways + r.token + (IF r.startSent THEN 2 ELSE 0)
            /\ r.startSent <=> r.setup /\ r.clientReady
            /\ r.clientReady => r.ws \in watched \/ ready[r.ws] = "closed"
            /\ r.up = "open" => r.clientReady
            /\ r.grace => ready[r.ws] = "closed"
            /\ r.up = "closed" => ~r.live /\ (~r.untold => ready[r.ws] # "open")
            /\ r.up \in {"connecting", "open"} /\ ~r.live => r.goAways >= 1
            /\ r.up = "connecting" /\ r.goAways = 0 =>
                 r.ws = r.starter /\ r.ws \notin watched /\ ~r.clientReady /\ ~r.grace
            /\ r.configured /\ r.up # "closed" => r.up = "connecting" /\ r.goAways = 0
            /\ Known(s) =>
                 /\ r.ws \in watched
                 /\ r.live /\ ready[r.ws] = "closed" /\ r.goAways < 2 => r.grace
<1> DEFINE r == sessions[s]
<1>1. /\ s < nextSession /\ r.ws \in Socket /\ r.ws # Nil /\ Used(r.ws) /\ r.up # "none"
      /\ r.starter \in Socket
  BY OnSocket
<1>2. SessionInv(s) /\ nextSession \in Nat /\ s \in Nat /\ r \in ActiveSession
  BY Parts, Numerals
<1>3. ~(s >= nextSession)
  BY <1>1, <1>2
<1>4. r.starter # Nil
  BY <1>1, Numerals
<1> QED
  BY <1>1, <1>2, <1>3, <1>4 DEF SessionInv

LEMMA SocketClosesIInv ==
  ASSUME LinkIInv, NEW k \in Socket, SocketCloses(k)
  PROVE  LinkIInv'
<1> DEFINE q(s) == IF k \in watched /\ sessions[s].ws = k
                     THEN [sessions[s] EXCEPT !.grace = TRUE] ELSE sessions[s]
<1>1. /\ (k \in cut /\ ready[k] \in {"fresh", "open"}) \/ ready[k] = "closing"
      /\ ready' = [ready EXCEPT ![k] = IF @ = "fresh" THEN "closedFresh" ELSE "closed"]
      /\ sessions' = [s \in Session |-> q(s)]
      /\ UNCHANGED <<nextSession, watched, down, hello, cut, client, copies, lost>>
  BY DEF SocketCloses
<1>2. /\ LinkTypeOK /\ SocketInv /\ OwnSocket /\ sessions \in [Session -> ActiveSession]
      /\ ready \in [Socket -> {"none", "fresh", "closedFresh", "open", "closing", "closed"}]
  BY Parts
<1>3. /\ ready'[k] = IF ready[k] = "fresh" THEN "closedFresh" ELSE "closed"
      /\ \A j \in Socket : j # k => ready'[j] = ready[j]
      /\ ready' \in [Socket -> {"none", "fresh", "closedFresh", "open", "closing", "closed"}]
  BY <1>1, <1>2
<1>4. \A s \in Session : sessions'[s] = q(s) /\ q(s) \in ActiveSession /\ SameStream(sessions[s], q(s))
                         /\ sessions'[s].ws = sessions[s].ws
  <2> SUFFICES ASSUME NEW s \in Session
               PROVE  sessions'[s] = q(s) /\ q(s) \in ActiveSession /\ SameStream(sessions[s], q(s))
    BY DEF SameStream
  <2>1. sessions'[s] = q(s) /\ sessions[s] \in ActiveSession
    BY <1>1, <1>2
  <2> DEFINE r == sessions[s]
  <2> HIDE DEF r
  <2>2. r \in ActiveSession => /\ [r EXCEPT !.grace = TRUE] \in ActiveSession
                               /\ SameStream(r, [r EXCEPT !.grace = TRUE])
    BY DEF ActiveSession, SameStream
  <2>3. SameStream(r, r)
    BY DEF SameStream
  <2> QED
    BY <2>1, <2>2, <2>3 DEF r
<1>5. LinkTypeOK'
  <2>1. sessions' \in [Session -> ActiveSession]
    BY <1>1, <1>4
  <2>2. \A s \in Session : Len(sessions'[s].buf) <= BufferCap
    BY <1>2, <1>4 DEF LinkTypeOK, SameStream
  <2> QED
    BY <1>1, <1>2, <1>3, <2>1, <2>2 DEF LinkTypeOK
<1>6. \A j \in Socket : Used(j) => Used(j)'
  BY <1>3 DEF Used
<1>7. SocketInv'
  <2>1. \A j \in Socket : ready'[j] = "none" <=> ready[j] = "none"
    BY <1>1, <1>3
  <2>2. \A j \in Socket : ready'[j] = "fresh" => ready[j] = "fresh" /\ hello'[j] = hello[j]
    BY <1>1, <1>3
  <2>3. \A j \in watched' : /\ j \in watched
                            /\ Used(j) => Used(j)'
                            /\ ready'[j] = "open" =>
                                 /\ ready[j] = "open"
                                 /\ \A s \in Session : sessions[s].ws = j => sessions'[s].ws = j
    <3>1. \A j \in watched : j \in Socket
      BY <1>2 DEF LinkTypeOK
    <3>2. \A j \in Socket : ready'[j] = "open" => ready[j] = "open"
      BY <1>3
    <3> QED
      BY <1>1, <1>4, <1>6, <3>1, <3>2
  <2> QED
    BY <1>1, <2>1, <2>2, <2>3, SocketFrame
<1>8. WireInv' /\ StreamInv' /\ \A s \in Session : Known(s)' <=> Known(s)
  <2>1. client' = [client EXCEPT !.sock = client'.sock]
    BY <1>1, <1>2 DEF LinkTypeOK
  <2>2. \A s \in Session : sessions[s].ws # Nil /\ ready'[sessions[s].ws] = "open"
                             => ready[sessions[s].ws] = "open"
    BY <1>2, <1>3, Fields
  <2>3. \A s \in Session : SameStream(sessions[s], sessions'[s])
    BY <1>4
  <2> QED
    BY <1>1, <2>1, <2>2, <2>3, SilentStep
<1> HIDE DEF q
<1>9. ASSUME NEW s \in Session PROVE SessionInv(s)'
  <2>1. CASE sessions[s].ws # k
    <3>1. sessions'[s] = sessions[s] /\ sessions[s].ws \in Socket \union {Nil} /\ SessionInv(s)
          /\ nextSession' \in Nat
      BY <1>1, <1>2, <1>4, <2>1, Fields, Parts DEF q
    <3>2. \A w \in Socket : w # k => /\ ready[w] = "closed" <=> ready'[w] = "closed"
                                     /\ ready'[w] = "open" => ready[w] = "open"
      BY <1>3
    <3>3. LET w == sessions[s].ws
          IN w # Nil => /\ Used(w) => Used(w)'
                        /\ ready[w] = "closed" <=> ready'[w] = "closed"
                        /\ ready'[w] = "open" => ready[w] = "open"
                        /\ w \in watched <=> w \in watched'
      BY <1>1, <1>6, <2>1, <3>1, <3>2 DEF Used
    <3> QED
      BY <1>1, <1>2, <1>8, <3>1, <3>3, KeepSession
  <2>2. CASE sessions[s].ws = k
    <3> DEFINE r == sessions[s]
    <3>1. r.ws # Nil
      BY <2>2, Numerals
    <3>2. Used(k)
      BY <2>2, <3>1, Existing
    <3>3. ready'[k] = "closed" /\ Used(k)'
      BY <1>1, <1>3, <3>2 DEF Used
    <3>4. /\ \/ k \in watched /\ sessions'[s] = [r EXCEPT !.grace = TRUE]
             \/ k \notin watched /\ sessions'[s] = r
      BY <1>4, <2>2 DEF q
    <3>5. r.ws = k /\ r \in ActiveSession
      BY <1>2, <2>2
    <3>6. SessionInv(s) /\ (Known(s)' <=> Known(s)) /\ watched' = watched /\ nextSession' = nextSession
          /\ nextSession \in Nat /\ s \in Nat
      BY <1>1, <1>8, Parts, Numerals
    <3>7. /\ s < nextSession /\ ~(s >= nextSession)
          /\ r.ws \in Socket /\ r.ws # Nil /\ r.starter \in Socket /\ r.starter # Nil
          /\ r.up # "none" /\ r.token < r.ws
          /\ r.seq <= r.said + 3 * r.goAways + r.token + (IF r.startSent THEN 2 ELSE 0)
          /\ r.startSent <=> r.setup /\ r.clientReady
          /\ r.up = "open" => r.clientReady
          /\ r.up = "closed" => ~r.live
          /\ r.up \in {"connecting", "open"} /\ ~r.live => r.goAways >= 1
          /\ r.up = "connecting" /\ r.goAways = 0 =>
               r.ws = r.starter /\ r.ws \notin watched /\ ~r.clientReady /\ ~r.grace
          /\ r.configured /\ r.up # "closed" => r.up = "connecting" /\ r.goAways = 0
          /\ Known(s) => r.ws \in watched
      BY <3>1, Existing
    <3> HIDE DEF r
    <3>8. CASE k \in watched /\ sessions'[s] = [r EXCEPT !.grace = TRUE]
      <4> DEFINE x == sessions'[s]
      <4>1. /\ x.grace /\ x.ws = k /\ x.live = r.live /\ x.starter = r.starter /\ x.configured = r.configured
            /\ x.token = r.token /\ x.seq = r.seq /\ x.up = r.up /\ x.setup = r.setup
            /\ x.clientReady = r.clientReady /\ x.startSent = r.startSent /\ x.said = r.said
            /\ x.goAways = r.goAways /\ x.untold = r.untold
        BY <3>5, <3>8 DEF ActiveSession
      <4> HIDE DEF x
      <4> QED
        BY <3>3, <3>5, <3>6, <3>7, <3>8, <4>1 DEF SessionInv, x
    <3>9. CASE k \notin watched /\ sessions'[s] = r
      BY <3>3, <3>5, <3>6, <3>7, <3>9 DEF SessionInv
    <3> QED
      BY <3>4, <3>8, <3>9
  <2> QED
    BY <2>1, <2>2
<1>10. OwnSocket'
  BY <1>2, <1>4 DEF OwnSocket
<1> QED
  BY <1>5, <1>7, <1>8, <1>9, <1>10 DEF LinkIInv

LEMMA GraceFiresIInv ==
  ASSUME LinkIInv, NEW s \in Session, GraceFires(s)
  PROVE  LinkIInv'
<1> DEFINE r == sessions[s]
           q == [r EXCEPT !.grace = FALSE, !.live = FALSE, !.up = IF @ = "open" THEN "closed" ELSE @]
<1>1. /\ r.grace /\ r \in ActiveSession
      /\ sessions' = [sessions EXCEPT ![s] = q]
      /\ UNCHANGED <<nextSession, ready, watched, down, hello, cut, client, copies, lost>>
  BY Parts DEF GraceFires
<1>2. r.ws # Nil
  <2> SUFFICES ASSUME r.ws = Nil PROVE FALSE
    OBVIOUS
  <2>1. r = Fresh
    BY Unused
  <2> QED
    BY <1>1, <2>1 DEF Fresh
<1>3. /\ s < nextSession /\ ~(s >= nextSession)
      /\ r.ws \in Socket /\ r.ws # Nil /\ r.starter \in Socket /\ r.starter # Nil
      /\ r.up # "none" /\ Used(r.ws) /\ r.token < r.ws
      /\ r.seq <= r.said + 3 * r.goAways + r.token + (IF r.startSent THEN 2 ELSE 0)
      /\ r.startSent <=> r.setup /\ r.clientReady
      /\ r.clientReady => r.ws \in watched \/ ready[r.ws] = "closed"
      /\ r.up = "open" => r.clientReady
      /\ ready[r.ws] = "closed"
      /\ r.up = "connecting" => r.goAways >= 1 \/ r.goAways # 0
      /\ r.configured /\ r.up # "closed" => r.up = "connecting" /\ r.goAways = 0
      /\ Known(s) => r.ws \in watched
  BY <1>1, <1>2, Existing
<1> HIDE DEF r
<1> DEFINE up == IF r.up = "open" THEN "closed" ELSE r.up
<1>4. /\ q \in ActiveSession /\ ~q.grace /\ ~q.live /\ q.up = up
      /\ q.ws = r.ws /\ q.starter = r.starter /\ q.configured = r.configured
      /\ q.token = r.token /\ q.seq = r.seq /\ q.buf = r.buf /\ q.strayed = r.strayed
      /\ q.setup = r.setup /\ q.clientReady = r.clientReady /\ q.startSent = r.startSent
      /\ q.said = r.said /\ q.goAways = r.goAways /\ q.untold = r.untold
      /\ up \in {"connecting", "closed"} /\ (up = "connecting" => r.up = "connecting")
  <2>1. r.up \in {"none", "connecting", "open", "closed"}
    BY <1>1 DEF ActiveSession
  <2>2. up \in {"connecting", "closed"} /\ (up = "connecting" => r.up = "connecting")
    BY <1>3, <2>1
  <2>3. q = [r EXCEPT !.grace = FALSE, !.live = FALSE, !.up = up]
    BY <1>1 DEF ActiveSession
  <2> HIDE DEF q, up
  <2> QED
    BY <1>1, <2>2, <2>3 DEF ActiveSession
<1> HIDE DEF q, up
<1>5. SameStream(r, q)
  BY <1>4 DEF SameStream
<1>6. ASSUME \A t \in Session : Known(t)' <=> Known(t) PROVE SessionInv(s)'
  <2>1. sessions'[s] = q /\ nextSession' = nextSession /\ ready' = ready /\ watched' = watched
    BY <1>1, Parts
  <2>2. Known(s)' => Known(s)
    BY <1>6
  <2>3. r.goAways \in Nat
    BY <1>1, BoundsAssumption DEF ActiveSession
  <2>4. q.up = "connecting" => q.goAways >= 1 /\ q.goAways # 0
    BY <1>3, <1>4, <2>3
  <2>5. ready'[q.ws] = "closed"
    BY <1>3, <1>4, <2>1
  <2> QED
    BY <1>3, <1>4, <2>1, <2>2, <2>4, <2>5 DEF SessionInv, Used
<1> QED
  BY <1>1, <1>2, <1>4, <1>5, <1>6, OneSession, Parts DEF r

(* The steps that end the upstream of a session.                           *)
LEMMA EndIInv ==
  ASSUME LinkIInv, NEW s \in Session, NEW q \in ActiveSession, NEW k \in Socket,
         sessions' = [sessions EXCEPT ![s] = q], ready' = Closed(ready, k),
         UNCHANGED <<nextSession, down, hello, cut, client, copies, lost>>,
         watched \subseteq watched', \A j \in watched' : j \in watched \/ j = sessions[s].ws,
         sessions[s].up # "none",
         LET r == sessions[s]
         IN /\ q.grace = r.grace /\ ~q.live /\ q.up = "closed" /\ (q.configured => r.configured)
            /\ q.ws = r.ws /\ q.starter = r.starter
            /\ q.token = r.token /\ q.seq = r.seq /\ q.buf = r.buf /\ q.strayed = r.strayed
            /\ q.setup = r.setup /\ q.clientReady = r.clientReady /\ q.startSent = r.startSent
            /\ q.said = r.said /\ q.goAways = r.goAways
            /\ ~q.untold => r.ws = k
  PROVE  LinkIInv'
<1> DEFINE r == sessions[s]
<1>1. /\ r \in ActiveSession /\ s < nextSession /\ ~(s >= nextSession)
      /\ r.ws \in Socket /\ r.ws # Nil /\ r.starter \in Socket /\ r.starter # Nil
      /\ Used(r.ws) /\ r.token < r.ws
      /\ r.seq <= r.said + 3 * r.goAways + r.token + (IF r.startSent THEN 2 ELSE 0)
      /\ r.startSent <=> r.setup /\ r.clientReady
      /\ r.clientReady => r.ws \in watched \/ ready[r.ws] = "closed"
      /\ r.grace => ready[r.ws] = "closed"
      /\ Known(s) => r.ws \in watched
  BY Existing
<1>2. /\ ready' \in [Socket -> {"none", "fresh", "closedFresh", "open", "closing", "closed"}]
      /\ ready'[k] # "open"
      /\ \A j \in Socket : ready'[j] = ready[j] \/ (ready[j] = "open" /\ ready'[j] = "closing")
  BY ClosedSocket
<1>3. SameStream(r, q)
  BY DEF SameStream
<1>4. sessions'[s] = q
  BY Parts
<1> HIDE DEF r
<1>5. ASSUME \A t \in Session : Known(t)' <=> Known(t) PROVE SessionInv(s)'
  <2>1. Used(q.ws)'
    BY <1>1, <1>2 DEF Used, r
  <2>2. Known(s)' => q.ws \in watched'
    BY <1>1, <1>5 DEF r
  <2>3. /\ q.clientReady => q.ws \in watched' \/ ready'[q.ws] = "closed"
        /\ q.grace => ready'[q.ws] = "closed"
        /\ ~q.untold => ready'[q.ws] # "open"
    BY <1>1, <1>2 DEF r
  <2> QED
    BY <1>1, <1>4, <2>1, <2>2, <2>3 DEF SessionInv, r
<1> QED
  BY <1>1, <1>2, <1>3, <1>5, OneSession DEF r

LEMMA ConnectFailsIInv ==
  ASSUME LinkIInv, NEW s \in Session, ConnectFails(s)
  PROVE  LinkIInv'
<1> DEFINE r == sessions[s]
           q == [r EXCEPT !.live = FALSE, !.up = "closed", !.untold = r.ws # r.starter]
<1>1. /\ r.up = "connecting" /\ r \in ActiveSession
      /\ sessions' = [sessions EXCEPT ![s] = q]
      /\ ready' = Closed(ready, r.starter)
      /\ UNCHANGED <<nextSession, watched, down, hello, cut, client, copies, lost>>
  BY Parts DEF ConnectFails
<1>2. r.starter \in Socket /\ r.starter # Nil
  BY <1>1, Existing
<1> HIDE DEF r
<1>3. /\ q \in ActiveSession /\ q.grace = r.grace /\ ~q.live /\ q.up = "closed" /\ q.configured = r.configured
      /\ q.ws = r.ws /\ q.starter = r.starter
      /\ q.token = r.token /\ q.seq = r.seq /\ q.buf = r.buf /\ q.strayed = r.strayed
      /\ q.setup = r.setup /\ q.clientReady = r.clientReady /\ q.startSent = r.startSent
      /\ q.said = r.said /\ q.goAways = r.goAways /\ q.untold = (r.ws # r.starter)
  BY <1>1 DEF ActiveSession
<1> HIDE DEF q
<1> QED
  BY <1>1, <1>2, <1>3, EndIInv DEF r

LEMMA UpstreamClosesIInv ==
  ASSUME LinkIInv, NEW s \in Session, UpstreamCloses(s)
  PROVE  LinkIInv'
<1> DEFINE r == sessions[s]
           q == [r EXCEPT !.live = FALSE, !.up = "closed"]
<1>1. /\ r.up = "open" /\ r \in ActiveSession
      /\ sessions' = [sessions EXCEPT ![s] = q]
      /\ ready' = Closed(ready, r.ws)
      /\ UNCHANGED <<nextSession, watched, down, hello, cut, client, copies, lost>>
  BY Parts DEF UpstreamCloses
<1>2. r.ws \in Socket /\ r.ws # Nil
  BY <1>1, Existing
<1> HIDE DEF r
<1>3. /\ q \in ActiveSession /\ q.grace = r.grace /\ ~q.live /\ q.up = "closed" /\ q.configured = r.configured
      /\ q.ws = r.ws /\ q.starter = r.starter
      /\ q.token = r.token /\ q.seq = r.seq /\ q.buf = r.buf /\ q.strayed = r.strayed
      /\ q.setup = r.setup /\ q.clientReady = r.clientReady /\ q.startSent = r.startSent
      /\ q.said = r.said /\ q.goAways = r.goAways
  BY <1>1 DEF ActiveSession
<1> HIDE DEF q
<1> QED
  BY <1>1, <1>2, <1>3, EndIInv DEF r

(* A step that changes what a session waits for, and sends nothing.        *)
LEMMA SayNothing ==
  ASSUME LinkIInv, NEW s \in Session, NEW q \in ActiveSession, sessions[s].up # "none",
         sessions' = [sessions EXCEPT ![s] = q],
         UNCHANGED <<nextSession, ready, down, hello, cut, client, copies, lost>>,
         watched \subseteq watched', \A j \in watched' : j \in watched \/ j = sessions[s].ws,
         SameStream(sessions[s], q),
         LET r == sessions[s]
         IN /\ q.live = r.live /\ q.grace = r.grace /\ q.starter = r.starter
            /\ q.said = r.said /\ q.goAways = r.goAways /\ q.untold = r.untold /\ q.startSent = r.startSent
            /\ q.up \in {"connecting", "open"} /\ r.up \in {"connecting", "open"}
            /\ q.up = "connecting" => r.up = "connecting" /\ watched' = watched
                                      /\ q.clientReady = r.clientReady
            /\ q.up = "open" => q.clientReady
            /\ q.startSent <=> q.setup /\ q.clientReady
            /\ q.clientReady => r.ws \in watched' \/ ready[r.ws] = "closed"
            /\ q.configured => r.configured /\ q.up = "connecting"
  PROVE  LinkIInv'
<1> DEFINE r == sessions[s]
<1>1. /\ r \in ActiveSession /\ s < nextSession /\ ~(s >= nextSession)
      /\ r.ws \in Socket /\ r.ws # Nil /\ r.starter \in Socket /\ r.starter # Nil
      /\ Used(r.ws) /\ r.token < r.ws
      /\ r.seq <= r.said + 3 * r.goAways + r.token + (IF r.startSent THEN 2 ELSE 0)
      /\ r.grace => ready[r.ws] = "closed"
      /\ r.up \in {"connecting", "open"} /\ ~r.live => r.goAways >= 1
      /\ r.up = "connecting" /\ r.goAways = 0 =>
           r.ws = r.starter /\ r.ws \notin watched /\ ~r.clientReady /\ ~r.grace
      /\ r.configured /\ r.up # "closed" => r.up = "connecting" /\ r.goAways = 0
      /\ Known(s) =>
           /\ r.ws \in watched
           /\ r.live /\ ready[r.ws] = "closed" /\ r.goAways < 2 => r.grace
  BY Existing
<1>2. /\ q.ws = r.ws /\ q.seq = r.seq /\ q.token = r.token /\ q.buf = r.buf
  BY DEF SameStream
<1>3. /\ ready \in [Socket -> {"none", "fresh", "closedFresh", "open", "closing", "closed"}]
      /\ sessions'[s] = q /\ ready' = ready /\ nextSession' = nextSession
  BY Parts
<1> HIDE DEF r
<1>4. ASSUME \A t \in Session : Known(t)' <=> Known(t) PROVE SessionInv(s)'
  <2>1. Known(s)' => Known(s)
    BY <1>4
  <2>2. Used(q.ws)'
    BY <1>1, <1>2, <1>3 DEF Used
  <2>3. /\ q.live = r.live /\ q.grace = r.grace /\ q.starter = r.starter
        /\ q.said = r.said /\ q.goAways = r.goAways /\ q.untold = r.untold /\ q.startSent = r.startSent
        /\ q.up \in {"connecting", "open"} /\ r.up \in {"connecting", "open"}
        /\ q.up = "connecting" => r.up = "connecting" /\ watched' = watched
                                  /\ q.clientReady = r.clientReady
        /\ q.up = "open" => q.clientReady
        /\ q.startSent <=> q.setup /\ q.clientReady
        /\ q.clientReady => r.ws \in watched' \/ ready[r.ws] = "closed"
        /\ q.configured => r.configured /\ q.up = "connecting"
    BY DEF r
  <2> QED
    BY <1>1, <1>2, <1>3, <2>1, <2>2, <2>3 DEF SessionInv
<1> QED
  BY <1>1, <1>3, <1>4, OneSession DEF r

WithNumber(r, n, b) == [r EXCEPT !.seq = n, !.buf = b]

LEMMA Renumbered ==
  ASSUME NEW r \in ActiveSession, NEW n, NEW b, NEW q, q = WithNumber(r, n, b)
  PROVE  /\ q.seq = n /\ q.buf = b /\ q.ws = r.ws /\ q.token = r.token /\ q.live = r.live
         /\ q.grace = r.grace /\ q.starter = r.starter /\ q.said = r.said /\ q.goAways = r.goAways
         /\ q.setup = r.setup /\ q.clientReady = r.clientReady /\ q.up = r.up
         /\ q.startSent = r.startSent /\ q.configured = r.configured /\ q.untold = r.untold
BY DEF ActiveSession, WithNumber

(* The announcement: the session's own messages, and one start.            *)
Announces(s, r) == SendToClient(s, [r EXCEPT !.startSent = TRUE], <<"text", "start">>)

LEMMA AnnounceIInv ==
  ASSUME LinkIInv, NEW s \in Session, NEW r \in ActiveSession,
         sessions[s].up # "none", SameStream(r, sessions[s]),
         Announces(s, r),
         UNCHANGED <<nextSession, ready, hello, cut, client, copies>>,
         watched \subseteq watched', \A k \in watched' : k \in watched \/ k = sessions[s].ws,
         r.setup, r.clientReady, r.ws \in watched' \/ ready[r.ws] = "closed",
         r.up = "open" \/ (r.up = "connecting" /\ r.goAways # 0), ~r.configured,
         LET o == sessions[s]
         IN /\ r.live = o.live /\ r.grace = o.grace /\ r.starter = o.starter
            /\ r.said = o.said /\ r.goAways = o.goAways
            /\ ~o.startSent /\ o.up \in {"connecting", "open"}
  PROVE  LinkIInv'
<1> DEFINE o == sessions[s]
           q == sessions'[s]
           sent == [r EXCEPT !.startSent = TRUE]
           kinds == <<"text", "start">>
<1>1. /\ o \in ActiveSession /\ s < nextSession /\ ~(s >= nextSession)
      /\ o.ws \in Socket /\ o.ws # Nil /\ o.starter \in Socket /\ o.starter # Nil
      /\ Used(o.ws) /\ o.token < o.ws
      /\ o.seq <= o.said + 3 * o.goAways + o.token + (IF o.startSent THEN 2 ELSE 0)
      /\ o.grace => ready[o.ws] = "closed"
      /\ o.up \in {"connecting", "open"} /\ ~o.live => o.goAways >= 1
      /\ Known(s) =>
           /\ o.ws \in watched
           /\ o.live /\ ready[o.ws] = "closed" /\ o.goAways < 2 => o.grace
  BY Existing
<1>2. /\ r.ws = o.ws /\ r.seq = o.seq /\ r.token = o.token /\ r.buf = o.buf /\ r.strayed = o.strayed
      /\ r.live = o.live /\ r.grace = o.grace /\ r.starter = o.starter
      /\ r.said = o.said /\ r.goAways = o.goAways
      /\ ~o.startSent /\ o.up \in {"connecting", "open"}
  BY DEF SameStream
<1>3. o.seq + 2 <= LastSeq /\ o.seq <= o.said + 3 * o.goAways + o.token
      /\ o.seq \in Nat /\ o.token \in Nat /\ o.said \in Nat /\ o.goAways \in Nat
  <2>1. /\ o.seq <= MaxSeq + 3 * MaxGoAway + o.token + (IF o.startSent THEN 2 ELSE 0)
        /\ o.seq <= o.said + 3 * o.goAways + o.token + (IF o.startSent THEN 2 ELSE 0)
        /\ o.token < MaxSocket /\ o.said \in 0 .. MaxSeq /\ o.goAways \in 0 .. MaxGoAway
        /\ o.seq \in Nat /\ o.token \in Nat
        /\ MaxSeq \in Nat /\ MaxGoAway \in Nat /\ MaxSocket \in Nat
        /\ LastSeq = MaxSeq + 3 * (1 + MaxGoAway) + MaxSocket
    BY <1>1, SeqBound
  <2>2. o.seq <= MaxSeq + 3 * MaxGoAway + o.token + 0 /\ o.seq <= o.said + 3 * o.goAways + o.token + 0
    BY <1>2, <2>1
  <2> DEFINE n == o.seq
             token == o.token
  <2> HIDE DEF o
  <2>3. o.said + 3 * o.goAways + o.token + 0 = o.said + 3 * o.goAways + o.token
    BY <2>1
  <2>4. n <= MaxSeq + 3 * MaxGoAway + token /\ n \in Nat /\ token \in Nat /\ token < MaxSocket
    BY <2>1, <2>2
  <2> HIDE DEF n, token
  <2>5. n + 2 <= LastSeq
    BY <2>1, <2>4
  <2> QED
    BY <2>1, <2>2, <2>3, <2>5 DEF n
<1> HIDE DEF o
<1>4. /\ sent \in ActiveSession /\ sent.startSent = TRUE /\ sent.ws = r.ws /\ sent.seq = r.seq /\ sent.token = r.token
      /\ sent.buf = r.buf /\ sent.strayed = r.strayed /\ sent.live = r.live /\ sent.grace = r.grace
      /\ sent.starter = r.starter /\ sent.said = r.said /\ sent.goAways = r.goAways
      /\ sent.setup = r.setup /\ sent.clientReady = r.clientReady /\ sent.up = r.up
      /\ sent.configured = r.configured /\ sent.untold = r.untold
  BY DEF ActiveSession
<1>5. kinds \in Seq(Kind) /\ Len(kinds) = 2
  BY DEF Kind
<1>6. SameStream(sent, sessions[s])
  BY <1>2, <1>4 DEF SameStream, o
<1> HIDE DEF sent
<1>7. ASSUME q = [sent EXCEPT !.seq = sent.seq + Len(kinds), !.buf = q.buf],
             Known(s)' => Known(s) \/ ready[sent.ws] = "open"
      PROVE  SessionInv(s)'
  <2> HIDE DEF q, kinds
  <2>0. q = [sent EXCEPT !.seq = r.seq + 2, !.buf = q.buf]
    BY <1>4, <1>5, <1>7
  <2>1. /\ q.seq = r.seq + 2 /\ q.ws = r.ws /\ q.token = r.token /\ q.live = r.live /\ q.grace = r.grace
        /\ q.starter = r.starter /\ q.said = r.said /\ q.goAways = r.goAways
        /\ q.setup = r.setup /\ q.clientReady = r.clientReady /\ q.up = r.up /\ q.startSent = TRUE
        /\ q.configured = r.configured /\ q.untold = r.untold
    <3>1. /\ q.seq = r.seq + 2 /\ q.ws = sent.ws /\ q.token = sent.token /\ q.live = sent.live
          /\ q.grace = sent.grace /\ q.starter = sent.starter /\ q.said = sent.said
          /\ q.goAways = sent.goAways /\ q.setup = sent.setup /\ q.clientReady = sent.clientReady
          /\ q.up = sent.up /\ q.startSent = sent.startSent /\ q.configured = sent.configured
          /\ q.untold = sent.untold
      <4>1. sent \in ActiveSession
        BY <1>4
      <4>2. q = WithNumber(sent, r.seq + 2, q.buf)
        BY <2>0 DEF WithNumber
      <4> QED
        BY <4>1, <4>2, Renumbered
    <3> QED
      BY <1>4, <3>1
  <2>2. q.seq <= q.said + 3 * q.goAways + q.token + (IF q.startSent THEN 2 ELSE 0)
    <3> DEFINE three == 3 * o.goAways
    <3>1. three = 3 * q.goAways /\ three \in Nat /\ o.seq <= o.said + three + o.token
      BY <1>2, <1>3, <2>1
    <3> HIDE DEF three
    <3>2. o.seq + 2 <= o.said + three + o.token + 2
      BY <1>3, <3>1
    <3> QED
      BY <1>2, <2>1, <3>1, <3>2
  <2>3. ready'[q.ws] = ready[o.ws] /\ nextSession' = nextSession
    BY <1>2, <2>1
  <2>4. Known(s)' =>
           /\ q.ws \in watched'
           /\ q.live /\ ready'[q.ws] = "closed" /\ q.goAways < 2 => q.grace
    <3>1. CASE Known(s)
      BY <1>1, <1>2, <2>1, <2>3, <3>1
    <3>2. CASE ready[sent.ws] = "open"
      BY <1>2, <1>4, <2>1, <2>3, <3>2
    <3> QED
      BY <1>7, <3>1, <3>2
  <2>5. q.clientReady => q.ws \in watched' \/ ready'[q.ws] = "closed"
    BY <2>1
  <2>6. ready'[q.ws] \in {"open", "closing", "closed"}
    BY <1>1, <2>3 DEF Used
  <2>7. sessions'[s] = q
    BY DEF q
  <2>8. /\ s < nextSession' /\ ~(s >= nextSession') /\ q.ws # Nil /\ q.starter # Nil /\ q.up # "none"
        /\ q.token < q.ws /\ (q.startSent <=> q.setup /\ q.clientReady) /\ q.clientReady
        /\ q.grace => ready'[q.ws] = "closed"
        /\ q.up # "closed" /\ ~q.configured /\ ~(q.up = "connecting" /\ q.goAways = 0)
        /\ q.up \in {"connecting", "open"} /\ ~q.live => q.goAways >= 1
    BY <1>1, <1>2, <2>1, <2>3
  <2> QED
    BY <2>2, <2>4, <2>5, <2>6, <2>7, <2>8 DEF SessionInv, Used
<1>8. sent.ws # Nil /\ sent.seq + Len(kinds) <= LastSeq
  BY <1>1, <1>2, <1>3, <1>4, <1>5
<1>9. SendToClient(s, sent, kinds)
  BY DEF sent, Announces
<1> HIDE DEF kinds, q
<1>10. /\ sessions'[s] = [sent EXCEPT !.seq = sent.seq + Len(kinds), !.buf = sessions'[s].buf]
       /\ Known(s)' => Known(s) \/ ready[sent.ws] = "open"
       => SessionInv(s)'
  BY <1>7 DEF q
<1> QED
  BY <1>4, <1>5, <1>6, <1>8, <1>9, <1>10, SendStep

(* setupSocketHandlers watches the socket of the session.                  *)
LEMMA WatchedSocket ==
  ASSUME LinkIInv, NEW s \in Session, sessions[s].up # "none"
  PROVE  LET w == sessions[s].ws
         IN /\ watched \subseteq Watch(w) /\ \A j \in Watch(w) : j \in watched \/ j = w
            /\ w \in Watch(w) \/ ready[w] = "closed"
BY Existing DEF Watch, Used

LEMMA ConnectResolvesIInv ==
  ASSUME LinkIInv, NEW s \in Session, NEW accepted \in BOOLEAN, ConnectResolves(s, accepted)
  PROVE  LinkIInv'
<1> DEFINE o == sessions[s]
           r == [o EXCEPT !.up = "open"]
           ok == [r EXCEPT !.clientReady = TRUE, !.configured = FALSE]
           bad == [r EXCEPT !.live = FALSE, !.up = "closed", !.configured = FALSE]
<1>1. /\ o.up = "connecting" /\ (accepted \/ o.configured) /\ watched' = Watch(r.ws)
      /\ \/ /\ accepted /\ SendLiveStartWhenReady(s, ok) /\ ready' = ready
         \/ /\ ~accepted /\ sessions' = [sessions EXCEPT ![s] = bad]
            /\ ready' = Closed(ready, r.starter) /\ UNCHANGED <<down, lost>>
      /\ UNCHANGED <<nextSession, hello, cut, client, copies>>
  BY DEF ConnectResolves
<1>2. /\ o \in ActiveSession /\ o.ws \in Socket /\ o.starter \in Socket /\ (o.startSent <=> o.setup /\ o.clientReady)
      /\ o.up = "connecting" /\ o.goAways = 0 =>
           o.ws = o.starter /\ o.ws \notin watched /\ ~o.clientReady /\ ~o.grace
      /\ o.configured /\ o.up # "closed" => o.up = "connecting" /\ o.goAways = 0
  BY <1>1, Existing
<1>3. /\ watched \subseteq Watch(o.ws) /\ \A j \in Watch(o.ws) : j \in watched \/ j = o.ws
      /\ o.ws \in Watch(o.ws) \/ ready[o.ws] = "closed"
  BY <1>1, WatchedSocket
<1> HIDE DEF o
<1>4. r.ws = o.ws /\ r.starter = o.starter
  BY <1>2 DEF ActiveSession
<1>5. CASE accepted /\ SendLiveStartWhenReady(s, ok) /\ ready' = ready
  <2>1. /\ ok \in ActiveSession /\ ok.ws = o.ws /\ ok.seq = o.seq /\ ok.token = o.token /\ ok.buf = o.buf
        /\ ok.strayed = o.strayed /\ ok.live = o.live /\ ok.grace = o.grace /\ ok.starter = o.starter
        /\ ok.said = o.said /\ ok.goAways = o.goAways /\ ok.untold = o.untold
        /\ ok.startSent = o.startSent /\ ok.setup = o.setup
        /\ ok.up = "open" /\ ok.clientReady /\ ~ok.configured
    BY <1>2 DEF ActiveSession
  <2> HIDE DEF ok, r
  <2>2. SameStream(ok, o) /\ SameStream(o, ok)
    BY <2>1 DEF SameStream
  <2>3. CASE ok.setup /\ ok.clientReady /\ ~ok.startSent
    <3>1. Announces(s, ok)
      BY <1>5, <2>3 DEF SendLiveStartWhenReady, Announces
    <3>2. watched \subseteq watched' /\ (\A k \in watched' : k \in watched \/ k = o.ws)
          /\ (ok.ws \in watched' \/ ready[ok.ws] = "closed")
      BY <1>1, <1>3, <1>4, <2>1
    <3> QED
      BY <1>1, <1>5, <2>1, <2>2, <2>3, <3>1, <3>2, AnnounceIInv DEF o
  <2>4. CASE ~(ok.setup /\ ok.clientReady /\ ~ok.startSent)
    <3>1. sessions' = [sessions EXCEPT ![s] = ok] /\ UNCHANGED <<down, lost>>
      BY <1>5, <2>4 DEF SendLiveStartWhenReady
    <3>2. watched \subseteq watched' /\ (\A k \in watched' : k \in watched \/ k = o.ws)
          /\ (o.ws \in watched' \/ ready[o.ws] = "closed")
      BY <1>1, <1>3, <1>4
    <3>3. ok.startSent <=> ok.setup /\ ok.clientReady
      BY <1>2, <2>1, <2>4
    <3> QED
      BY <1>1, <1>5, <2>1, <2>2, <3>1, <3>2, <3>3, SayNothing DEF o
  <2> QED
    BY <2>3, <2>4
<1>6. CASE /\ ~accepted /\ sessions' = [sessions EXCEPT ![s] = bad]
           /\ ready' = Closed(ready, r.starter) /\ UNCHANGED <<down, lost>>
  <2>1. /\ bad \in ActiveSession /\ bad.ws = o.ws /\ bad.seq = o.seq /\ bad.token = o.token /\ bad.buf = o.buf
        /\ bad.strayed = o.strayed /\ ~bad.live /\ bad.grace = o.grace /\ bad.starter = o.starter
        /\ bad.said = o.said /\ bad.goAways = o.goAways /\ bad.untold = o.untold
        /\ bad.startSent = o.startSent /\ bad.setup = o.setup /\ bad.clientReady = o.clientReady
        /\ bad.up = "closed" /\ ~bad.configured
    BY <1>2 DEF ActiveSession
  <2> HIDE DEF bad, r
  <2>2. o.ws = o.starter
    BY <1>1, <1>2, <1>6
  <2>3. watched \subseteq watched' /\ (\A k \in watched' : k \in watched \/ k = o.ws)
    BY <1>1, <1>3, <1>4
  <2> QED
    BY <1>1, <1>2, <1>4, <1>6, <2>1, <2>2, <2>3, EndIInv DEF o
<1> QED
  BY <1>1, <1>5, <1>6

LEMMA SetupCompleteIInv ==
  ASSUME LinkIInv, NEW s \in Session, SetupComplete(s)
  PROVE  LinkIInv'
<1> DEFINE o == sessions[s]
           r == [o EXCEPT !.setup = TRUE]
<1>1. /\ o.up \in {"connecting", "open"} /\ ~o.setup /\ SendLiveStartWhenReady(s, r)
      /\ UNCHANGED <<nextSession, ready, watched, hello, cut, client, copies>>
  BY DEF SetupComplete
<1>2. /\ o \in ActiveSession /\ o.ws \in Socket /\ (o.startSent <=> o.setup /\ o.clientReady)
      /\ o.clientReady => o.ws \in watched \/ ready[o.ws] = "closed"
      /\ o.up = "open" => o.clientReady
      /\ o.up = "connecting" /\ o.goAways = 0 => ~o.clientReady
      /\ o.configured /\ o.up # "closed" => o.up = "connecting" /\ o.goAways = 0
  BY <1>1, Existing
<1> HIDE DEF o
<1>3. /\ r \in ActiveSession /\ r.ws = o.ws /\ r.seq = o.seq /\ r.token = o.token /\ r.buf = o.buf
      /\ r.strayed = o.strayed /\ r.live = o.live /\ r.grace = o.grace /\ r.starter = o.starter
      /\ r.said = o.said /\ r.goAways = o.goAways /\ r.untold = o.untold
      /\ r.startSent = o.startSent /\ r.setup /\ r.clientReady = o.clientReady
      /\ r.up = o.up /\ r.configured = o.configured
  BY <1>2 DEF ActiveSession
<1> HIDE DEF r
<1>4. SameStream(r, o) /\ SameStream(o, r)
  BY <1>3 DEF SameStream
<1>5. CASE r.setup /\ r.clientReady /\ ~r.startSent
  <2>1. Announces(s, r)
    BY <1>1, <1>5 DEF SendLiveStartWhenReady, Announces
  <2>2. /\ r.up = "open" \/ (r.up = "connecting" /\ r.goAways # 0)
        /\ ~r.configured /\ ~o.startSent /\ (r.ws \in watched' \/ ready[r.ws] = "closed")
    BY <1>1, <1>2, <1>3, <1>5
  <2> QED
    BY <1>1, <1>3, <1>4, <1>5, <2>1, <2>2, AnnounceIInv DEF o
<1>6. CASE ~(r.setup /\ r.clientReady /\ ~r.startSent)
  <2>1. sessions' = [sessions EXCEPT ![s] = r] /\ UNCHANGED <<down, lost>>
    BY <1>1, <1>6 DEF SendLiveStartWhenReady
  <2>2. r.startSent <=> r.setup /\ r.clientReady
    BY <1>1, <1>2, <1>3, <1>6
  <2>3. /\ r.clientReady => o.ws \in watched' \/ ready[o.ws] = "closed"
        /\ r.configured => o.configured /\ r.up = "connecting"
        /\ r.up = "open" => r.clientReady
    BY <1>1, <1>2, <1>3
  <2> QED
    BY <1>1, <1>3, <1>4, <2>1, <2>2, <2>3, SayNothing DEF o
<1> QED
  BY <1>5, <1>6

LEMMA ModelSaysIInv ==
  ASSUME LinkIInv, NEW s \in Session, NEW kind \in {"text", "audio"}, ModelSays(s, kind)
  PROVE  LinkIInv'
<1> DEFINE o == sessions[s]
           r == [o EXCEPT !.said = @ + 1]
           q == sessions'[s]
           kinds == <<kind>>
<1>1. /\ o.up = "open" /\ o.startSent /\ o.said < MaxSeq /\ SendToClient(s, r, kinds)
      /\ UNCHANGED <<nextSession, ready, watched, hello, cut, client, copies>>
  BY DEF ModelSays
<1>2. /\ o \in ActiveSession /\ s < nextSession /\ ~(s >= nextSession)
      /\ o.ws \in Socket /\ o.ws # Nil /\ o.starter \in Socket /\ o.starter # Nil
      /\ Used(o.ws) /\ o.token < o.ws
      /\ o.startSent <=> o.setup /\ o.clientReady
      /\ o.clientReady => o.ws \in watched \/ ready[o.ws] = "closed"
      /\ o.grace => ready[o.ws] = "closed"
      /\ o.up \in {"connecting", "open"} /\ ~o.live => o.goAways >= 1
      /\ o.configured /\ o.up # "closed" => o.up = "connecting" /\ o.goAways = 0
      /\ Known(s) =>
           /\ o.ws \in watched
           /\ o.live /\ ready[o.ws] = "closed" /\ o.goAways < 2 => o.grace
  BY <1>1, Existing
<1>3. /\ o.seq <= o.said + 3 * o.goAways + o.token + (IF o.startSent THEN 2 ELSE 0)
      /\ o.token < MaxSocket /\ o.said \in 0 .. MaxSeq /\ o.goAways \in 0 .. MaxGoAway
      /\ o.seq \in Nat /\ o.token \in Nat /\ o.said \in Nat /\ o.goAways \in Nat
      /\ MaxSeq \in Nat /\ MaxGoAway \in Nat /\ MaxSocket \in Nat
      /\ o.seq <= MaxSeq + 3 * MaxGoAway + o.token + 2
      /\ LastSeq = MaxSeq + 3 * (1 + MaxGoAway) + MaxSocket
  BY <1>1, <1>2, SeqBound
<1> HIDE DEF o
<1>4. o.seq + 1 <= LastSeq
  <2> DEFINE n == o.seq
             token == o.token
  <2>1. n \in Nat /\ token \in Nat /\ token < MaxSocket /\ n <= MaxSeq + 3 * MaxGoAway + token + 2
    BY <1>3
  <2> HIDE DEF n, token
  <2>2. n + 1 <= LastSeq
    BY <1>3, <2>1
  <2> QED
    BY <2>2 DEF n
<1>5. /\ r \in ActiveSession /\ r.ws = o.ws /\ r.seq = o.seq /\ r.token = o.token /\ r.buf = o.buf
      /\ r.strayed = o.strayed /\ r.live = o.live /\ r.grace = o.grace /\ r.starter = o.starter
      /\ r.said = o.said + 1 /\ r.goAways = o.goAways /\ r.untold = o.untold
      /\ r.startSent = o.startSent /\ r.setup = o.setup /\ r.clientReady = o.clientReady
      /\ r.up = o.up /\ r.configured = o.configured
  <2>1. o.said + 1 \in 0 .. MaxSeq
    BY <1>1, <1>3
  <2> QED
    BY <1>2, <2>1 DEF ActiveSession
<1> HIDE DEF r
<1>6. kinds \in Seq(Kind) /\ Len(kinds) = 1
  BY DEF Kind
<1>7. SameStream(r, sessions[s])
  BY <1>5 DEF SameStream, o
<1> HIDE DEF kinds
<1>8. ASSUME q = [r EXCEPT !.seq = r.seq + Len(kinds), !.buf = q.buf],
             Known(s)' => Known(s) \/ ready[r.ws] = "open"
      PROVE  SessionInv(s)'
  <2> HIDE DEF q
  <2>0. q = [r EXCEPT !.seq = o.seq + 1, !.buf = q.buf]
    BY <1>5, <1>6, <1>8
  <2>1. /\ q.seq = o.seq + 1 /\ q.ws = o.ws /\ q.token = o.token /\ q.live = o.live /\ q.grace = o.grace
        /\ q.starter = o.starter /\ q.said = o.said + 1 /\ q.goAways = o.goAways
        /\ q.setup = o.setup /\ q.clientReady = o.clientReady /\ q.up = o.up /\ q.startSent = o.startSent
        /\ q.configured = o.configured /\ q.untold = o.untold
    BY <1>5, <2>0 DEF ActiveSession
  <2>2. q.seq <= q.said + 3 * q.goAways + q.token + (IF q.startSent THEN 2 ELSE 0)
    <3> DEFINE three == 3 * o.goAways
    <3>1. three = 3 * q.goAways /\ three \in Nat /\ o.seq <= o.said + three + o.token + 2
      BY <1>1, <1>3, <2>1
    <3> HIDE DEF three
    <3>2. o.seq + 1 <= (o.said + 1) + three + o.token + 2
      BY <1>3, <3>1
    <3> QED
      BY <1>1, <2>1, <3>1, <3>2
  <2>3. ready'[q.ws] = ready[o.ws] /\ nextSession' = nextSession /\ watched' = watched
    BY <1>1, <2>1
  <2>4. Known(s)' =>
           /\ q.ws \in watched'
           /\ q.live /\ ready'[q.ws] = "closed" /\ q.goAways < 2 => q.grace
    <3>1. CASE Known(s)
      BY <1>2, <2>1, <2>3, <3>1
    <3>2. CASE ready[r.ws] = "open"
      BY <1>1, <1>2, <1>5, <2>1, <2>3, <3>2
    <3> QED
      BY <1>8, <3>1, <3>2
  <2>5. ready'[q.ws] \in {"open", "closing", "closed"}
    BY <1>2, <2>3 DEF Used
  <2>6. sessions'[s] = q
    BY DEF q
  <2>7. /\ s < nextSession' /\ ~(s >= nextSession') /\ q.ws # Nil /\ q.starter # Nil /\ q.up = "open"
        /\ q.token < q.ws /\ (q.startSent <=> q.setup /\ q.clientReady) /\ q.clientReady
        /\ q.clientReady => q.ws \in watched' \/ ready'[q.ws] = "closed"
        /\ q.grace => ready'[q.ws] = "closed"
        /\ ~q.configured
        /\ ~q.live => q.goAways >= 1
    BY <1>1, <1>2, <2>1, <2>3
  <2> QED
    BY <2>2, <2>4, <2>5, <2>6, <2>7 DEF SessionInv, Used
<1>9. r.ws # Nil /\ r.seq + Len(kinds) <= LastSeq
  BY <1>2, <1>4, <1>5, <1>6
<1> HIDE DEF q
<1>10. /\ sessions'[s] = [r EXCEPT !.seq = r.seq + Len(kinds), !.buf = sessions'[s].buf]
       /\ Known(s)' => Known(s) \/ ready[r.ws] = "open"
       => SessionInv(s)'
  BY <1>8 DEF q
<1> QED
  BY <1>1, <1>5, <1>6, <1>7, <1>9, <1>10, SendStep

LEMMA GoAwayIInv ==
  ASSUME LinkIInv, NEW s \in Session, GoAway(s)
  PROVE  LinkIInv'
<1> DEFINE o == sessions[s]
           r == [o EXCEPT !.live = TRUE, !.starter = o.ws, !.up = "connecting",
                          !.setup = FALSE, !.startSent = FALSE, !.goAways = @ + 1]
           q == sessions'[s]
           kinds == <<"text">>
<1>1. /\ o.up = "open" /\ o.goAways < MaxGoAway /\ SendToClient(s, r, kinds)
      /\ UNCHANGED <<nextSession, ready, watched, hello, cut, client, copies>>
  BY DEF GoAway
<1>2. /\ o \in ActiveSession /\ s < nextSession /\ ~(s >= nextSession)
      /\ o.ws \in Socket /\ o.ws # Nil
      /\ Used(o.ws) /\ o.token < o.ws
      /\ o.up = "open" => o.clientReady
      /\ o.clientReady => o.ws \in watched \/ ready[o.ws] = "closed"
      /\ o.grace => ready[o.ws] = "closed"
      /\ o.up \in {"connecting", "open"} /\ ~o.live => o.goAways >= 1
      /\ o.configured /\ o.up # "closed" => o.up = "connecting" /\ o.goAways = 0
      /\ Known(s) =>
           /\ o.ws \in watched
           /\ o.live /\ ready[o.ws] = "closed" /\ o.goAways < 2 => o.grace
  BY <1>1, Existing
<1>3. /\ o.seq <= o.said + 3 * o.goAways + o.token + (IF o.startSent THEN 2 ELSE 0)
      /\ o.token < MaxSocket /\ o.said \in 0 .. MaxSeq /\ o.goAways \in 0 .. MaxGoAway
      /\ o.seq \in Nat /\ o.token \in Nat /\ o.said \in Nat /\ o.goAways \in Nat
      /\ MaxSeq \in Nat /\ MaxGoAway \in Nat /\ MaxSocket \in Nat
      /\ o.seq <= MaxSeq + 3 * MaxGoAway + o.token + (IF o.startSent THEN 2 ELSE 0)
      /\ LastSeq = MaxSeq + 3 * (1 + MaxGoAway) + MaxSocket
  BY <1>1, <1>2, SeqBound
<1> HIDE DEF o
<1>4. o.seq + 1 <= LastSeq
  <2> DEFINE n == o.seq
             token == o.token
  <2>1. n \in Nat /\ token \in Nat /\ token < MaxSocket /\ n <= MaxSeq + 3 * MaxGoAway + token + 2
    BY <1>3
  <2> HIDE DEF n, token
  <2>2. n + 1 <= LastSeq
    BY <1>3, <2>1
  <2> QED
    BY <2>2 DEF n
<1>5. /\ r \in ActiveSession /\ r.ws = o.ws /\ r.seq = o.seq /\ r.token = o.token /\ r.buf = o.buf
      /\ r.strayed = o.strayed /\ r.live = TRUE /\ r.grace = o.grace /\ r.starter = o.ws
      /\ r.said = o.said /\ r.goAways = o.goAways + 1 /\ r.untold = o.untold
      /\ r.startSent = FALSE /\ r.setup = FALSE /\ r.clientReady = o.clientReady
      /\ r.up = "connecting" /\ r.configured = o.configured
  <2> DEFINE n == o.goAways + 1
  <2>1. n \in 0 .. MaxGoAway
    BY <1>1, <1>3
  <2>2. r = [o EXCEPT !.live = TRUE, !.starter = o.ws, !.up = "connecting",
                      !.setup = FALSE, !.startSent = FALSE, !.goAways = n]
    BY <1>2 DEF ActiveSession
  <2> HIDE DEF n, r
  <2>3. /\ r \in ActiveSession /\ r.ws = o.ws /\ r.seq = o.seq /\ r.token = o.token /\ r.buf = o.buf
        /\ r.strayed = o.strayed /\ r.live = TRUE /\ r.grace = o.grace /\ r.starter = o.ws
        /\ r.said = o.said /\ r.goAways = n /\ r.untold = o.untold
        /\ r.startSent = FALSE /\ r.setup = FALSE /\ r.clientReady = o.clientReady
        /\ r.up = "connecting" /\ r.configured = o.configured
    BY <1>2, <2>1, <2>2 DEF ActiveSession
  <2> QED
    BY <2>3 DEF n
<1> HIDE DEF r
<1>6. kinds \in Seq(Kind) /\ Len(kinds) = 1
  BY DEF Kind
<1>7. SameStream(r, sessions[s])
  BY <1>5 DEF SameStream, o
<1> HIDE DEF kinds
<1>8. ASSUME q = [r EXCEPT !.seq = r.seq + Len(kinds), !.buf = q.buf],
             Known(s)' => Known(s) \/ ready[r.ws] = "open"
      PROVE  SessionInv(s)'
  <2> HIDE DEF q
  <2>0. q = WithNumber(r, o.seq + 1, q.buf)
    BY <1>5, <1>6, <1>8 DEF WithNumber
  <2>1. /\ q.seq = o.seq + 1 /\ q.ws = o.ws /\ q.token = o.token /\ q.live = TRUE /\ q.grace = o.grace
        /\ q.starter = o.ws /\ q.said = o.said /\ q.goAways = o.goAways + 1
        /\ q.setup = FALSE /\ q.clientReady = o.clientReady /\ q.up = "connecting" /\ q.startSent = FALSE
        /\ q.configured = o.configured
    <3>1. /\ q.seq = o.seq + 1 /\ q.ws = r.ws /\ q.token = r.token /\ q.live = r.live
          /\ q.grace = r.grace /\ q.starter = r.starter /\ q.said = r.said
          /\ q.goAways = r.goAways /\ q.setup = r.setup /\ q.clientReady = r.clientReady
          /\ q.up = r.up /\ q.startSent = r.startSent /\ q.configured = r.configured
      <4>1. r \in ActiveSession
        BY <1>5
      <4> QED
        BY <4>1, <2>0, Renumbered
    <3> QED
      BY <1>5, <3>1
  <2>2. q.seq <= q.said + 3 * q.goAways + q.token + (IF q.startSent THEN 2 ELSE 0)
    <3> DEFINE three == 3 * o.goAways
    <3>1. three + 3 = 3 * q.goAways /\ three \in Nat /\ o.seq <= o.said + three + o.token + 2
      BY <1>3, <2>1
    <3> HIDE DEF three
    <3>2. o.seq + 1 <= o.said + (three + 3) + o.token + 0
      BY <1>3, <3>1
    <3> QED
      BY <2>1, <3>1, <3>2
  <2>3. ready'[q.ws] = ready[o.ws] /\ nextSession' = nextSession /\ watched' = watched
    BY <1>1, <2>1
  <2>4. Known(s)' =>
           /\ q.ws \in watched'
           /\ q.live /\ ready'[q.ws] = "closed" /\ q.goAways < 2 => q.grace
    <3>1. CASE Known(s)
      <4>1. q.goAways < 2 => o.live /\ o.goAways < 2
        BY <1>1, <1>2, <1>3, <2>1
      <4> QED
        BY <1>2, <2>1, <2>3, <3>1, <4>1
    <3>2. CASE ready[r.ws] = "open"
      BY <1>1, <1>2, <1>5, <2>1, <2>3, <3>2
    <3> QED
      BY <1>8, <3>1, <3>2
  <2>5. ready'[q.ws] \in {"open", "closing", "closed"}
    BY <1>2, <2>3 DEF Used
  <2>6. sessions'[s] = q
    BY DEF q
  <2>7. q.goAways # 0
    BY <1>3, <2>1
  <2>8. /\ s < nextSession' /\ ~(s >= nextSession') /\ q.ws # Nil /\ q.starter # Nil
        /\ q.up = "connecting" /\ q.live
        /\ q.token < q.ws /\ (q.startSent <=> q.setup /\ q.clientReady)
        /\ q.clientReady => q.ws \in watched' \/ ready'[q.ws] = "closed"
        /\ q.grace => ready'[q.ws] = "closed"
        /\ ~q.configured
    BY <1>1, <1>2, <2>1, <2>3
  <2> QED
    BY <2>2, <2>4, <2>5, <2>6, <2>7, <2>8 DEF SessionInv, Used
<1>9. r.ws # Nil /\ r.seq + Len(kinds) <= LastSeq
  BY <1>2, <1>4, <1>5, <1>6
<1> HIDE DEF q
<1>10. /\ sessions'[s] = [r EXCEPT !.seq = r.seq + Len(kinds), !.buf = sessions'[s].buf]
       /\ Known(s)' => Known(s) \/ ready[r.ws] = "open"
       => SessionInv(s)'
  BY <1>8 DEF q
<1> QED
  BY <1>1, <1>5, <1>6, <1>7, <1>9, <1>10, SendStep

-----------------------------------------------------------------------------
(* The invariant.                                                          *)

LEMMA StutterIInv ==
  ASSUME LinkIInv, UNCHANGED linkVars
  PROVE  LinkIInv'
<1>1. UNCHANGED <<sessions, nextSession, ready, watched, down, hello, cut, client, copies, lost>>
  BY DEF linkVars
<1>2. LinkTypeOK /\ SocketInv /\ OwnSocket /\ (\A s \in Session : SessionInv(s)) /\ nextSession \in Nat
  BY Parts
<1>3. LinkTypeOK'
  BY <1>1, <1>2 DEF LinkTypeOK
<1>4. SocketInv'
  <2>1. \A k \in watched : Used(k) => Used(k)'
    BY <1>1 DEF Used
  <2> QED
    BY <1>1, <1>2, <2>1, SocketFrame DEF SocketInv
<1>5. WireInv' /\ StreamInv' /\ \A s \in Session : Known(s)' <=> Known(s)
  <2>1. client' = [client EXCEPT !.sock = client'.sock]
    BY <1>1, <1>2 DEF LinkTypeOK
  <2>2. \A s \in Session : SameStream(sessions[s], sessions'[s])
    BY <1>1 DEF SameStream
  <2> QED
    BY <1>1, <2>1, <2>2, SilentStep
<1>6. ASSUME NEW s \in Session PROVE SessionInv(s)'
  <2>1. LET w == sessions[s].ws
        IN w # Nil => /\ Used(w) => Used(w)'
                      /\ ready[w] = "closed" <=> ready'[w] = "closed"
                      /\ ready'[w] = "open" => ready[w] = "open"
                      /\ w \in watched <=> w \in watched'
    BY <1>1 DEF Used
  <2> QED
    BY <1>1, <1>2, <1>5, <2>1, KeepSession
<1>7. OwnSocket'
  BY <1>1, <1>2 DEF OwnSocket
<1> QED
  BY <1>3, <1>4, <1>5, <1>6, <1>7 DEF LinkIInv

LEMMA LinkNextIInv == LinkIInv /\ [LinkNext]_linkVars => LinkIInv'
<1> SUFFICES ASSUME LinkIInv, [LinkNext]_linkVars
             PROVE  LinkIInv'
  OBVIOUS
<1>1. CASE UNCHANGED linkVars
  BY <1>1, StutterIInv
<1>2. ASSUME NEW k \in Socket,
             \/ ClientOpens(k) \/ ClientReceives(k) \/ ClientSeesClose(k) \/ Cut(k)
             \/ FirstMessage(k) \/ InitTimeout(k) \/ SocketCloses(k)
      PROVE  LinkIInv'
  BY <1>2, ClientOpensIInv, ClientReceivesIInv, ClientSeesCloseIInv, CutIInv,
     FirstMessageIInv, InitTimeoutIInv, SocketClosesIInv
<1>3. ASSUME NEW s \in Session,
             \/ GraceFires(s)
             \/ \E accepted \in BOOLEAN : ConnectResolves(s, accepted)
             \/ ConnectFails(s) \/ SetupComplete(s)
             \/ \E kind \in {"text", "audio"} : ModelSays(s, kind)
             \/ GoAway(s) \/ UpstreamCloses(s)
      PROVE  LinkIInv'
  BY <1>3, GraceFiresIInv, ConnectResolvesIInv, ConnectFailsIInv, SetupCompleteIInv,
     ModelSaysIInv, GoAwayIInv, UpstreamClosesIInv
<1> QED
  BY <1>1, <1>2, <1>3 DEF LinkNext

LEMMA LinkInvariant == LinkSpec => []LinkIInv
BY LinkInitIInv, LinkNextIInv, PTL DEF LinkSpec

-----------------------------------------------------------------------------
(* What the invariant says of the runs' properties.                        *)

(* Over all its sockets a session has one open socket, runs the grace      *)
(* timer exactly while its client is away, is announced exactly when both  *)
(* of its sides are ready, and buffers in order (resumeSession,            *)
(* setupSocketHandlers, sendLiveStartWhenReady).                           *)
THEOREM AttendedAlways == LinkSpec => []Attended
<1>1. ASSUME LinkIInv PROVE Attended
  <2>1. LinkTypeOK /\ SocketInv /\ (\A s \in Session : SessionInv(s)) /\ WireInv
    BY <1>1, Parts
  <2>2. OneOpenSocket
    BY <2>1 DEF SocketInv, OneOpenSocket
  <2>3. GraceOnlyWhenGone
    <3> SUFFICES ASSUME NEW s \in Session, sessions[s].grace PROVE ready[sessions[s].ws] = "closed"
      BY DEF GraceOnlyWhenGone
    <3> QED
      BY <2>1 DEF SessionInv
  <2>4. DisconnectArmsGrace
    <3> SUFFICES ASSUME NEW s \in Session, client.sess = s
                 PROVE  LET r == sessions[s]
                        IN r.live /\ ready[r.ws] = "closed" /\ r.goAways < 2 => r.grace
      BY DEF DisconnectArmsGrace
    <3>1. Known(s)
      BY DEF Known
    <3> QED
      BY <2>1, <3>1 DEF SessionInv
  <2>5. AnnouncedWhenReady
    BY <2>1 DEF SessionInv, AnnouncedWhenReady
  <2>6. BufferInOrder
    BY <2>1 DEF WireInv, Ordered, BufferInOrder
  <2> QED
    BY <2>1, <2>2, <2>3, <2>4, <2>5, <2>6 DEF Attended
<1> QED
  BY <1>1, LinkInvariant, PTL

(* No number the gateway gave out is silently lost: the message is with    *)
(* the client, on its way, buffered, or in what a dead connection or a     *)
(* full buffer took (sendToClient, flushPendingServerMessages).            *)
THEOREM NoSilentLossAlways == LinkSpec => []NoSilentLoss
<1>1. ASSUME LinkIInv PROVE NoSilentLoss
  <2> SUFFICES ASSUME NEW s \in Session, ~sessions[s].strayed, NEW n \in 1 .. sessions[s].seq
               PROVE  \/ copies[s][n] > 0
                      \/ <<s, n>> \in InFlight \union Seqs(sessions[s].buf) \union lost
    BY DEF NoSilentLoss
  <2>1. LossInv(s)
    BY <1>1 DEF LinkIInv, StreamInv
  <2> QED
    BY <2>1 DEF LossInv, Covered, Sent
<1> QED
  BY <1>1, LinkInvariant, PTL

(* No message reaches the client twice, over all its reconnections         *)
(* (flushPendingServerMessages against the token of resumeSession).        *)
THEOREM NoDuplicateAlways == LinkSpec => []NoDuplicate
<1>1. ASSUME LinkIInv PROVE NoDuplicate
  BY <1>1 DEF LinkIInv, StreamInv, OrderInv, NoDuplicate
<1> QED
  BY <1>1, LinkInvariant, PTL

(* When the gateway gives a session up, its client is told                 *)
(* (startNewSession, setupUpstreamHandlers).                               *)
THEOREM EndReachesClientAlways == LinkSpec => []EndReachesClient
<1>1. ASSUME LinkIInv PROVE EndReachesClient
  <2> SUFFICES ASSUME NEW s \in Session, sessions[s].up = "closed", ~sessions[s].untold
               PROVE  ready[sessions[s].ws] # "open"
    BY DEF EndReachesClient
  <2>1. SessionInv(s)
    BY <1>1, Parts
  <2> QED
    BY <2>1 DEF SessionInv
<1> QED
  BY <1>1, LinkInvariant, PTL

(* Messages reach the client in the order of their numbers, across all     *)
(* its reconnections (the flush of resumeSession against sendToClient).    *)
THEOREM InOrderAlways == LinkSpec => InOrder
<1> DEFINE Receives ==
             \A k \in Socket :
               down[k] # <<>> /\ copies' # copies /\ down'[k] = Tail(down[k]) =>
                 LET m == Head(down[k])
                 IN ~sessions[m.sess].strayed => \A n \in m.seq .. LastSeq : copies[m.sess][n] = 0
<1>1. ASSUME LinkIInv PROVE Receives
  <2> SUFFICES ASSUME NEW k \in Socket, down[k] # <<>>, ~sessions[Head(down[k]).sess].strayed
               PROVE  \A n \in Head(down[k]).seq .. LastSeq : copies[Head(down[k]).sess][n] = 0
    OBVIOUS
  <2>1. down[k] \in Seq(Message)
    BY <1>1, Parts, Fields
  <2>2. 1 \in DOMAIN down[k] /\ Head(down[k]) = down[k][1]
    BY <2>1
  <2>3. Head(down[k]).sess \in Session
    BY <2>1, <2>2, MessageFields
  <2>4. OrderInv(Head(down[k]).sess)
    BY <1>1, <2>3 DEF LinkIInv, StreamInv
  <2> QED
    BY <2>2, <2>4 DEF OrderInv
<1>2. LinkIInv => [Receives]_linkVars
  BY <1>1
<1> QED
  BY <1>2, LinkInvariant, PTL DEF InOrder

-----------------------------------------------------------------------------
(***************************************************************************)
(* The local voice layer.  Its inductive invariant says what the handles   *)
(* of the speech output stand for: an utterance that is still to be played *)
(* is the one the abort handle leads to, a player that runs is the one the *)
(* player handle leads to or is lost, both are the utterance that is       *)
(* wanted, and a wanted utterance has its directory.                       *)
(***************************************************************************)


AudioType ==
  [abort : Utterance \union {None}, dir : Utterance \union {None},
   player : Utterance \union {None},
   stage : [Utterance -> {"idle", "synthesizing", "playing", "killed"}],
   aborted : SUBSET Utterance, dirs : SUBSET Utterance,
   wanted : Utterance \union {None}, lost : SUBSET Utterance]

EarType ==
  [process : Listener \union {None}, reader : Listener \union {None},
   state : [Listener -> {"none", "running", "asked"}], open : SUBSET Listener,
   input : BOOLEAN, lost : SUBSET Listener, restored : BOOLEAN]

(* What the handles a stand for, per utterance.                            *)
Traced(a, u) ==
  /\ a.stage[u] = "synthesizing" => u \in a.aborted \/ u = a.abort
  /\ u \in a.aborted => a.stage[u] = "synthesizing" /\ u # a.abort
  /\ a.stage[u] = "playing" <=> u = a.player \/ u \in a.lost
  /\ u = a.player => u \notin a.lost /\ u = a.wanted
  /\ u = a.abort => a.stage[u] = "synthesizing" /\ a.player = None /\ u = a.wanted

AudioInv(a) ==
  /\ a \in AudioType
  /\ \A u \in Utterance : Traced(a, u)
  /\ a.dir # None => a.dir \in a.dirs
  /\ a.wanted # None => a.wanted = a.dir

EarInv(e) ==
  /\ e \in EarType
  /\ \A l \in Listener : e.state[l] = "running" => l = e.process \/ l \in e.lost

(* No utterance is on its way, and no player is tracked.                   *)
Quiet(a) == a.abort = None /\ a.player = None

SwitchType ==
  /\ {enabled, disabled, savedOn, hardStopped} \subseteq BOOLEAN
  /\ session \in {"open", "closing"}

ApprovalType ==
  /\ pending \in Call \union {None}
  /\ granted \subseteq Call
  /\ question \in Call \union {None}

HardStopInv ==
  hardStopped => disabled /\ Quiet(audio) /\ (ear.process # None => ear.restored)

IInv ==
  /\ SwitchType
  /\ ApprovalType
  /\ AudioInv(audio)
  /\ EarInv(ear)
  /\ HardStopInv

-----------------------------------------------------------------------------
(* What the helpers of the speech output do to its handles.                *)

LEMMA StoppedKeeps ==
  ASSUME NEW a, AudioInv(a)
  PROVE  AudioInv(Stopped(a)) /\ Quiet(Stopped(a))
<1> DEFINE b == Stopped(a)
<1>1. a \in AudioType
  BY DEF AudioInv
<1>2. /\ b.abort = None /\ b.dir = None /\ b.player = None /\ b.wanted = None
      /\ b.stage = [u \in Utterance |-> IF u = a.player THEN "killed" ELSE a.stage[u]]
      /\ b.aborted = a.aborted \union ({a.abort} \ {None})
      /\ b.dirs = a.dirs \ {a.dir}
      /\ b.lost = a.lost
      /\ b \in AudioType
  BY <1>1 DEF Stopped, Cleaned, AudioType
<1> HIDE DEF b
<1>3. ASSUME NEW u \in Utterance PROVE Traced(b, u)
  BY <1>1, <1>2, NoneAssumption DEF AudioInv, Traced
<1>4. AudioInv(b) /\ Quiet(b)
  BY <1>2, <1>3 DEF AudioInv, Quiet
<1> QED
  BY <1>4 DEF b

LEMMA SpokenKeeps ==
  ASSUME NEW a, AudioInv(a), NEW u \in Utterance, a.stage[u] = "idle"
  PROVE  AudioInv(Spoken(a, u))
<1> DEFINE s == Stopped(a)
           b == Spoken(a, u)
<1>1. AudioInv(s) /\ Quiet(s) /\ s \in AudioType
  BY StoppedKeeps DEF AudioInv
<1>2. s.stage[u] = "idle"
  BY NoneAssumption DEF AudioInv, Traced, Stopped, Cleaned, AudioType
<1>3. /\ b.abort = u /\ b.dir = u /\ b.player = s.player /\ b.wanted = u
      /\ b.stage = [s.stage EXCEPT ![u] = "synthesizing"]
      /\ b.aborted = s.aborted
      /\ b.dirs = s.dirs \union {u}
      /\ b.lost = s.lost
      /\ b \in AudioType
  BY <1>1 DEF Spoken, AudioType
<1> HIDE DEF s, b
<1>4. ASSUME NEW v \in Utterance PROVE Traced(b, v)
  BY <1>1, <1>2, <1>3, NoneAssumption DEF AudioInv, AudioType, Quiet, Traced
<1>5. AudioInv(b)
  BY <1>3, <1>4 DEF AudioInv
<1> QED
  BY <1>5 DEF b

LEMMA SpeakingKeeps ==
  ASSUME NEW a, AudioInv(a), NEW b \in Speaking(a)
  PROVE  AudioInv(b) /\ (disabled => b = a)
BY SpokenKeeps DEF Speaking

(* A synthesis that was aborted leaves its handles to the utterance that   *)
(* superseded it; one that was not is the only one on its way.             *)
LEMMA SynthesisEndsStep ==
  ASSUME NEW u \in Utterance, NEW ok \in BOOLEAN, AudioInv(audio), SynthesisEnds(u, ok)
  PROVE  AudioInv(audio') /\ (disabled /\ Quiet(audio) => Quiet(audio'))
<1> DEFINE a == audio
           b == audio'
           c == [audio EXCEPT !.stage[u] = "idle", !.aborted = @ \ {u},
                              !.abort = IF @ = u THEN None ELSE @]
<1>1. a \in AudioType /\ a.stage[u] = "synthesizing" /\ Traced(a, u)
  BY DEF AudioInv, SynthesisEnds
<1>5. /\ c.abort = (IF a.abort = u THEN None ELSE a.abort)
      /\ c.dir = a.dir /\ c.player = a.player /\ c.wanted = a.wanted
      /\ c.stage = [a.stage EXCEPT ![u] = "idle"]
      /\ c.aborted = a.aborted \ {u}
      /\ c.dirs = a.dirs /\ c.lost = a.lost
      /\ c \in AudioType
  BY <1>1 DEF AudioType
<1>6. IF u \in a.aborted THEN b = c
      ELSE b = IF ok /\ enabled /\ ~disabled
               THEN [c EXCEPT !.stage[u] = "playing", !.player = u]
               ELSE [Cleaned(c) EXCEPT !.wanted = None]
  BY DEF SynthesisEnds
<1> HIDE DEF c
<1>2. CASE u \in a.aborted
  <2>1. /\ b.abort = a.abort /\ b.dir = a.dir /\ b.player = a.player /\ b.wanted = a.wanted
        /\ b.stage = [a.stage EXCEPT ![u] = "idle"]
        /\ b.aborted = a.aborted \ {u}
        /\ b.dirs = a.dirs /\ b.lost = a.lost
        /\ b \in AudioType
    BY <1>1, <1>2, <1>5, <1>6 DEF Traced
  <2> HIDE DEF a, b
  <2>2. ASSUME NEW v \in Utterance PROVE Traced(b, v)
    <3>1. AudioInv(a) /\ Traced(a, v)
      BY DEF AudioInv, a
    <3> QED
      BY <1>1, <1>2, <2>1, <3>1, NoneAssumption DEF AudioType, Traced
  <2>3. AudioInv(a)
    BY DEF a
  <2>4. AudioInv(b) /\ (Quiet(a) => Quiet(b))
    BY <2>1, <2>2, <2>3 DEF AudioInv, Quiet
  <2> QED
    BY <2>4 DEF a, b
<1>3. CASE u \notin a.aborted /\ ok /\ enabled /\ ~disabled
  <2>1. /\ b.abort = None /\ b.dir = a.dir /\ b.player = u /\ b.wanted = a.wanted
        /\ b.stage = [a.stage EXCEPT ![u] = "playing"]
        /\ b.aborted = a.aborted
        /\ b.dirs = a.dirs /\ b.lost = a.lost
        /\ b \in AudioType
    <3>1. a.abort = u /\ a.aborted \ {u} = a.aborted
      BY <1>1, <1>3 DEF Traced
    <3>2. b = [c EXCEPT !.stage[u] = "playing", !.player = u]
      BY <1>3, <1>6
    <3>3. [[a.stage EXCEPT ![u] = "idle"] EXCEPT ![u] = "playing"] = [a.stage EXCEPT ![u] = "playing"]
      BY <1>1 DEF AudioType
    <3> HIDE DEF b
    <3> QED
      BY <1>5, <3>1, <3>2, <3>3 DEF AudioType
  <2> HIDE DEF a, b
  <2>2. ASSUME NEW v \in Utterance PROVE Traced(b, v)
    <3>1. AudioInv(a) /\ Traced(a, v)
      BY DEF AudioInv, a
    <3> QED
      BY <1>1, <1>3, <2>1, <3>1, NoneAssumption DEF AudioType, Traced
  <2>3. AudioInv(a)
    BY DEF a
  <2>4. AudioInv(b)
    BY <2>1, <2>2, <2>3 DEF AudioInv
  <2> QED
    BY <1>3, <2>4 DEF a, b
<1>4. CASE u \notin a.aborted /\ ~(ok /\ enabled /\ ~disabled)
  <2>1. /\ b.abort = None /\ b.dir = None /\ b.player = a.player /\ b.wanted = None
        /\ b.stage = [a.stage EXCEPT ![u] = "idle"]
        /\ b.aborted = a.aborted
        /\ b.dirs = a.dirs \ {a.dir} /\ b.lost = a.lost
        /\ b \in AudioType
    <3>1. a.abort = u /\ a.aborted \ {u} = a.aborted
      BY <1>1, <1>4 DEF Traced
    <3>2. b = [Cleaned(c) EXCEPT !.wanted = None]
      BY <1>4, <1>6
    <3> HIDE DEF b
    <3> QED
      BY <1>5, <3>1, <3>2 DEF Cleaned, AudioType
  <2> HIDE DEF a, b
  <2>2. ASSUME NEW v \in Utterance PROVE Traced(b, v)
    <3>1. AudioInv(a) /\ Traced(a, v)
      BY DEF AudioInv, a
    <3> QED
      BY <1>1, <1>4, <2>1, <3>1, NoneAssumption DEF AudioType, Traced
  <2>3. AudioInv(a)
    BY DEF a
  <2>4. AudioInv(b) /\ (Quiet(a) => Quiet(b))
    BY <2>1, <2>2, <2>3 DEF AudioInv, Quiet
  <2> QED
    BY <2>4 DEF a, b
<1> QED
  BY <1>2, <1>3, <1>4

(* A player that exits late leaves the directory of the next utterance,    *)
(* and takes the handle of the next player, which is lost from then on.    *)
LEMMA PlayerExitsStep ==
  ASSUME NEW u \in Utterance, AudioInv(audio), PlayerExits(u)
  PROVE  AudioInv(audio') /\ (Quiet(audio) => Quiet(audio'))
<1> DEFINE a == audio
           b == audio'
           c == IF audio.dir = u THEN Cleaned(audio) ELSE audio
<1>1. a \in AudioType /\ a.stage[u] \in {"playing", "killed"} /\ AudioInv(a)
  BY DEF AudioInv, PlayerExits
<1>6. /\ c.dir = (IF a.dir = u THEN None ELSE a.dir)
      /\ c.dirs = (IF a.dir = u THEN a.dirs \ {a.dir} ELSE a.dirs)
      /\ c.abort = a.abort /\ c.player = a.player /\ c.wanted = a.wanted
      /\ c.stage = a.stage /\ c.aborted = a.aborted /\ c.lost = a.lost
      /\ c \in AudioType
  BY <1>1 DEF Cleaned, AudioType
<1>7. b = [c EXCEPT !.stage[u] = "idle", !.player = None,
                    !.wanted = IF @ = u THEN None ELSE @,
                    !.lost = (@ \union ({audio.player} \ {None})) \ {u}]
  BY DEF PlayerExits
<1> HIDE DEF c
<1>2. /\ b.abort = a.abort /\ b.player = None
      /\ b.dir = (IF a.dir = u THEN None ELSE a.dir)
      /\ b.dirs = (IF a.dir = u THEN a.dirs \ {a.dir} ELSE a.dirs)
      /\ b.wanted = (IF a.wanted = u THEN None ELSE a.wanted)
      /\ b.stage = [a.stage EXCEPT ![u] = "idle"]
      /\ b.aborted = a.aborted
      /\ b.lost = (a.lost \union ({a.player} \ {None})) \ {u}
  BY <1>1, <1>6, <1>7 DEF AudioType
<1>3. b \in AudioType
  BY <1>1, <1>6, <1>7 DEF AudioType
<1> HIDE DEF a, b
<1>4. ASSUME NEW v \in Utterance PROVE Traced(b, v)
  <2>1. Traced(a, v) /\ Traced(a, u)
    BY <1>1 DEF AudioInv
  <2> QED
    BY <1>1, <1>2, <2>1, NoneAssumption DEF AudioType, Traced
<1>5. AudioInv(b) /\ (Quiet(a) => Quiet(b))
  BY <1>1, <1>2, <1>3, <1>4 DEF AudioInv, Quiet
<1> QED
  BY <1>5 DEF a, b

-----------------------------------------------------------------------------
(* What the helpers of the wake listener do to its handles.                *)

LEMMA AskedKeeps ==
  ASSUME NEW e, EarInv(e)
  PROVE  EarInv(Asked(e)) /\ Asked(e).process = None
BY NoneAssumption DEF EarInv, EarType, Asked

LEMMA StartedKeeps ==
  ASSUME NEW e, EarInv(e), NEW f \in Started(e)
  PROVE  /\ EarInv(f)
         /\ EarInv([f EXCEPT !.restored = TRUE])
         /\ [f EXCEPT !.restored = TRUE].restored = TRUE
<1>1. EarInv(f)
  <2>1. CASE f = e
    BY <2>1
  <2>2. CASE f # e
    <3>1. PICK l \in Listener :
            /\ e.process = None /\ e.state[l] = "none"
            /\ f = [e EXCEPT !.state[l] = "running", !.process = l, !.reader = l,
                            !.open = @ \union {l}]
      BY <2>2 DEF Started
    <3>2. /\ f.process = l /\ f.lost = e.lost /\ f \in EarType
          /\ f.state = [e.state EXCEPT ![l] = "running"]
      BY <3>1 DEF EarInv, EarType
    <3> QED
      BY <3>1, <3>2, NoneAssumption DEF EarInv, EarType
  <2> QED
    BY <2>1, <2>2
<1> QED
  BY <1>1 DEF EarInv, EarType

LEMMA ListenerExitsStep ==
  ASSUME NEW l \in Listener, EarInv(ear), ListenerExits(l)
  PROVE  EarInv(ear') /\ ear'.process = None
BY NoneAssumption DEF EarInv, EarType, ListenerExits

LEMMA InputKeeps ==
  ASSUME EarInv(ear), NEW b \in BOOLEAN, ear' = [ear EXCEPT !.input = b]
  PROVE  EarInv(ear') /\ ear'.process = ear.process /\ ear'.restored = ear.restored
BY DEF EarInv, EarType
-----------------------------------------------------------------------------

LEMMA InitIInv == Init => IInv
<1> SUFFICES ASSUME Init PROVE IInv
  OBVIOUS
<1>1. AudioInv(audio) /\ Quiet(audio)
  BY NoneAssumption DEF Init, AudioInv, AudioType, Traced, Quiet
<1>2. EarInv(ear)
  BY DEF Init, EarInv, EarType
<1> QED
  BY <1>1, <1>2 DEF Init, IInv, SwitchType, ApprovalType, HardStopInv

(* A reply, a synthesis or a player ends: the switches stay.               *)
LEMMA SpeechStep ==
  ASSUME IInv,
         \/ Say
         \/ \E u \in Utterance : PlayerExits(u) \/ \E ok \in BOOLEAN : SynthesisEnds(u, ok)
  PROVE  IInv'
<1>1. AudioInv(audio') /\ (disabled /\ Quiet(audio) => Quiet(audio'))
  BY SpeakingKeeps, SynthesisEndsStep, PlayerExitsStep DEF IInv, Say
<1>2. UNCHANGED <<ear, switches, approvals>>
  BY DEF Say, PlayerExits, SynthesisEnds
<1> QED
  BY <1>1, <1>2 DEF IInv, SwitchType, ApprovalType, HardStopInv, switches, approvals

LEMMA ListenerStep ==
  ASSUME IInv, NEW l \in Listener, ListenerExits(l) \/ Wake(l) \/ WakeEnds(l)
  PROVE  IInv'
<1>1. CASE ListenerExits(l)
  <2>1. EarInv(ear') /\ ear'.process = None
    BY <1>1, ListenerExitsStep DEF IInv
  <2> QED
    BY <1>1, <2>1 DEF ListenerExits, IInv, SwitchType, ApprovalType, HardStopInv, switches, approvals
<1>2. CASE Wake(l) \/ WakeEnds(l)
  <2>1. EarInv(ear') /\ ear'.process = ear.process /\ ear'.restored = ear.restored
    BY <1>2, InputKeeps DEF Wake, WakeEnds, IInv
  <2>2. UNCHANGED <<audio, disabled, savedOn, session, approvals>>
    BY <1>2 DEF Wake, WakeEnds, switches
  <2>3. /\ enabled' \in BOOLEAN /\ hardStopped' \in BOOLEAN
        /\ hardStopped' => hardStopped
    <3>1. enabled \in BOOLEAN /\ hardStopped \in BOOLEAN
      BY DEF IInv, SwitchType
    <3>2. CASE Wake(l)
      BY <3>2, Zenon DEF Wake
    <3>3. CASE WakeEnds(l)
      BY <3>1, <3>3 DEF WakeEnds, switches
    <3> QED
      BY <1>2, <3>2, <3>3
  <2>4. SwitchType'
    BY <2>2, <2>3 DEF IInv, SwitchType
  <2> QED
    BY <2>1, <2>2, <2>3, <2>4 DEF IInv, ApprovalType, HardStopInv, approvals
<1> QED
  BY <1>1, <1>2

LEMMA CommandStep ==
  ASSUME IInv,
         SpeakOn \/ SpeakOff \/ SpeakStop \/ MonoOn \/ MonoOff \/ HardStop
  PROVE  IInv'
<1>1. AudioInv(Stopped(audio)) /\ Quiet(Stopped(audio))
  BY StoppedKeeps DEF IInv
<1>2. EarInv(Asked(ear)) /\ Asked(ear).process = None
  BY AskedKeeps DEF IInv
<1>3. MonoOn => EarInv(ear')
  BY StartedKeeps DEF IInv, MonoOn
<1> USE DEF IInv, SwitchType, ApprovalType, HardStopInv, switches, approvals
<1>4. CASE SpeakOn
  BY <1>4 DEF SpeakOn
<1>5. CASE SpeakOff
  BY <1>1, <1>5 DEF SpeakOff
<1>6. CASE SpeakStop
  BY <1>1, <1>6 DEF SpeakStop
<1>7. CASE MonoOn
  BY <1>3, <1>7 DEF MonoOn
<1>8. CASE MonoOff
  BY <1>2, <1>8 DEF MonoOff
<1>9. CASE HardStop
  BY <1>1, <1>2, <1>9 DEF HardStop
<1> QED
  BY <1>4, <1>5, <1>6, <1>7, <1>8, <1>9

LEMMA ModeStep ==
  ASSUME IInv, NEW mode \in Mode, ApplyVoiceMode(mode)
  PROVE  IInv'
<1> DEFINE speak == mode \in {"tts", "combo"}
           listen == mode \in {"stt", "combo"}
<1>1. AudioInv(audio') /\ (Quiet(audio) => Quiet(audio'))
  BY StoppedKeeps DEF IInv, ApplyVoiceMode
<1>2. EarInv(ear') /\ (~listen => ear' = ear \/ ear'.process = None)
  BY AskedKeeps, StartedKeeps DEF IInv, ApplyVoiceMode
<1>3. /\ enabled' = speak
      /\ disabled' = (disabled /\ ~(speak /\ ~enabled))
      /\ savedOn' = (savedOn \/ (listen /\ ear.process = None))
      /\ hardStopped' = (hardStopped /\ ~speak /\ ~listen)
      /\ UNCHANGED <<session, approvals>>
  BY DEF ApplyVoiceMode
<1>4. speak \in BOOLEAN
  OBVIOUS
<1> HIDE DEF listen, speak
<1>5. /\ disabled' \in BOOLEAN /\ savedOn' \in BOOLEAN /\ hardStopped' \in BOOLEAN
      /\ hardStopped' => hardStopped /\ ~listen /\ (disabled => disabled')
  BY <1>3, Zenon
<1>6. SwitchType'
  BY <1>3, <1>4, <1>5 DEF IInv, SwitchType
<1> QED
  BY <1>1, <1>2, <1>3, <1>5, <1>6 DEF IInv, ApprovalType, HardStopInv, approvals

LEMMA SessionStep ==
  ASSUME IInv,
         \/ \E set \in BOOLEAN : Sentinel(set)
         \/ SessionShutdown
         \/ \E same, speak \in BOOLEAN : SessionStart(same, speak)
  PROVE  IInv'
<1>1. ASSUME NEW set \in BOOLEAN, Sentinel(set) PROVE IInv'
  BY <1>1 DEF Sentinel, IInv, SwitchType, ApprovalType, HardStopInv, approvals
<1>2. CASE SessionShutdown
  BY <1>2, StoppedKeeps DEF SessionShutdown, IInv, SwitchType, ApprovalType, HardStopInv, approvals
<1>3. ASSUME NEW same \in BOOLEAN, NEW speak \in BOOLEAN, SessionStart(same, speak) PROVE IInv'
  <2>1. EarInv(ear') /\ (ear' = ear \/ ear'.restored = TRUE)
    BY <1>3, StartedKeeps DEF SessionStart, IInv
  <2>2. /\ SwitchType'
        /\ hardStopped' => hardStopped
        /\ UNCHANGED <<audio, disabled, approvals>>
    BY <1>3 DEF SessionStart, IInv, SwitchType
  <2> QED
    BY <2>1, <2>2 DEF IInv, ApprovalType, HardStopInv, approvals
<1> QED
  BY <1>1, <1>2, <1>3

(* What is asked and answered by voice may be spoken or stop speech.       *)
LEMMA VoiceApprovalStep ==
  ASSUME IInv,
         \/ \E c \in Call : Ask(c) \/ Expires(c) \/ Finish(c)
         \/ \E l \in Listener : HearsStop(l) \/ HearsYes(l) \/ HearsNo(l)
  PROVE  IInv'
<1>1. audio' \in Speaking(audio) \union {audio, Stopped(audio)} /\ UNCHANGED <<ear, switches>>
  BY DEF Ask, Expires, Finish, HearsStop, HearsYes, HearsNo
<1>2. AudioInv(audio') /\ (disabled /\ Quiet(audio) => Quiet(audio'))
  BY <1>1, SpeakingKeeps, StoppedKeeps DEF IInv
<1>3. ApprovalType'
  BY DEF IInv, ApprovalType, Ask, Expires, Finish, HearsStop, HearsYes, HearsNo, Settled, approvals
<1> QED
  BY <1>1, <1>2, <1>3 DEF IInv, SwitchType, HardStopInv, switches

LEMMA NextIInv == IInv /\ [Next]_vars => IInv'
<1> SUFFICES ASSUME IInv, [Next]_vars PROVE IInv'
  OBVIOUS
<1>1. CASE UNCHANGED vars
  BY <1>1 DEF vars, IInv, SwitchType, ApprovalType, HardStopInv
<1> QED
  BY <1>1, SpeechStep, ListenerStep, CommandStep, ModeStep, SessionStep, VoiceApprovalStep DEF Next

-----------------------------------------------------------------------------

(* Only the newest utterance that nobody stopped is, or will be, heard,    *)
(* and its file is there until it has been heard, however replies,         *)
(* interruptions and switches come between the synthesis of one utterance  *)
(* and the late exit of another's player (speakText, stopSpeaking,         *)
(* playAudioFile).                                                         *)
THEOREM HeardAsAskedAlways == Spec => []HeardAsAsked
<1>1. IInv => HeardAsAsked
  <2> SUFFICES ASSUME IInv PROVE HeardAsAsked
    OBVIOUS
  <2>1. TypeOK
    BY DEF IInv, AudioInv, EarInv, AudioType, EarType, SwitchType, ApprovalType, TypeOK
  <2>2. OneVoice
    BY DEF IInv, AudioInv, Traced, OneVoice, ToBePlayed, Playing
  <2>3. KeepsItsFile
    BY DEF IInv, AudioInv, KeepsItsFile
  <2> QED
    BY <2>1, <2>2, <2>3 DEF HeardAsAsked
<1> QED
  BY <1>1, InitIInv, NextIInv, PTL DEF Spec

(* A player or a listener that nobody stopped is reachable by its handle   *)
(* unless the late exit of an earlier one cleared the handle: no order of  *)
(* commands, wake words and session changes loses one otherwise            *)
(* (playAudioFile, startListener and their exit handlers).                 *)
THEOREM LostOnlyByLateExitsAlways == Spec => []LostOnlyByLateExits
<1>1. IInv => LostOnlyByLateExits
  BY DEF IInv, AudioInv, EarInv, Traced, LostOnlyByLateExits, Playing, Running
<1> QED
  BY <1>1, InitIInv, NextIInv, PTL DEF Spec

(* After /pk-speak stop nothing is spoken and no listener runs, but for    *)
(* what a late exit lost and what the next session_start restored          *)
(* (hardStopPkSpeak).                                                      *)
THEOREM HardStopSilencesAlways == Spec => []HardStopSilences
<1>1. IInv => HardStopSilences
  <2> SUFFICES ASSUME IInv, hardStopped PROVE HardStopSilences
    BY DEF HardStopSilences
  <2>1. Quiet(audio) /\ (ear.process # None => ear.restored)
    BY DEF IInv, HardStopInv
  <2>2. \A u \in Utterance : ~ToBePlayed(u) /\ (Playing(u) => u \in audio.lost)
    BY <2>1, NoneAssumption DEF IInv, AudioInv, Traced, Quiet, ToBePlayed, Playing
  <2>3. \A l \in Listener : Running(l) => l \in ear.lost \/ (ear.restored /\ l = ear.process)
    BY <2>1, NoneAssumption DEF IInv, EarInv, Running
  <2> QED
    BY <2>2, <2>3 DEF HardStopSilences
<1> QED
  BY <1>1, InitIInv, NextIInv, PTL DEF Spec

=============================================================================
